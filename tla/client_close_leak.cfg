SPECIFICATION Spec
CONSTANTS
    Callers = {c1, c2}
    MaxDials = 2
    Serialised = FALSE
    InitialBackoff = 1
    MaxBackoff = 1
INVARIANTS
    CloseCancelsWatchers
