SPECIFICATION Spec
CONSTANTS
    Callers = {c1, c2}
    MaxDials = 2
    Serialised = FALSE
    InitialBackoff = 1
    MaxBackoff = 3
SYMMETRY Symmetry
CHECK_DEADLOCK FALSE
INVARIANTS
    OpenIffCurrent
    ConnectedIsWatched
