SPECIFICATION FairSpec
CONSTANTS
    Width = 4
    RetryMaxes <- SomeRetryMaxes
    RetryCodes <- SomeRetryCodes
    MaxOptions = 3
INVARIANTS
    SuccessMeansExecuted
    RepeatsAllowed
    OneLateAttempt
    WaitInRange
PROPERTIES
    CallReturns
