SPECIFICATION Spec
CONSTANTS
    Keys = {k1}
    Requests = {r1, r2}
    Cost = 2
    Burst = 2
    TTL = 3
    HoldBound = 1
    PromptLoop = TRUE
    MaxTime = 9
INVARIANTS
    RateBound
    HeldIsCurrent
    StaleReclaimed
