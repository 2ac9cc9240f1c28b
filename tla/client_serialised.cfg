SPECIFICATION FairSpec
CONSTANTS
    Callers = {c1, c2}
    MaxDials = 2
    Serialised = TRUE
    InitialBackoff = 1
    MaxBackoff = 2
INVARIANTS
    WatcherOwned
    CloseCancelsWatchers
PROPERTIES
    ImplementsSession
    ClosedWatcherEnds
    WaitReadyReturns
