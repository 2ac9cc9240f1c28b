SPECIFICATION Spec
CONSTANTS
    Sides = {"client", "server"}
    MaxOptions = 3
    MaxStarts = 1
    Services = {s1}
CHECK_DEADLOCK FALSE
INVARIANTS
    DeferredErrorReported
