CONSTANTS
    s1 = s1
    c1 = c1
    Keys = {s1, c1}
    Tasks = {t1, t2}
    Service <- ServiceKeys
    AutoStart <- ClientKeys
    AutoRemove <- ServiceKeys
    Source <- SourceOf
    Sink <- SinkOf
    None = None
    MaxUInt = 9
    MaxOnQuit = 2
    MaxRequests = 2
    Contract <- Clauses
SPECIFICATION MainFairSpec
INVARIANTS
    MainTypeOK
    NoCallbackAfterFree
    ReturnsCleanly
    ServiceStopped
PROPERTIES
    QueuesRemovedBeforeOnQuit
    QuittingReturns
CHECK_DEADLOCK FALSE
