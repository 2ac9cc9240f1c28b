SPECIFICATION Spec
CONSTANTS
    Chains <- AllChains
    MaxOptions = 2
CHECK_DEADLOCK FALSE
INVARIANTS
    PanicContained
    HandlerAuthorised
    LoggedOnce
    LogIdentifies
