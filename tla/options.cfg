SPECIFICATION Spec
CONSTANTS
    Sides = {"client", "server"}
    MaxOptions = 5
    MaxStarts = 2
    Services = {s1}
CHECK_DEADLOCK FALSE
INVARIANTS
    NoStaleCredentials
    RefusedForCause
    LastServiceConfigWins
    RegisteredIsServed
PROPERTIES
    StartIsRepeatable
