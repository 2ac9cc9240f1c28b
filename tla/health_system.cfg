SPECIFICATION SysSpec
CONSTANTS
    Calls = {r1}
    RPCs <- AllRPCs
    Watches <- AllWatches
    MaxRuns = 2
    App = app
    MaxDials = 1
    InitialBackoff = 1
    MaxBackoff = 2
    MaxNaps = 2
    MaxBreaks = 1
INVARIANTS
    ServeJoined
    NilMeansDrained
    NotServingOnceDown
    HealthFollowsApp
    BackoffIsExponential
PROPERTIES
    RunReturns
    WatcherCatchesUp
    CloseReleasesDrain
