CONSTANTS
    s1 = s1
    s2 = s2
    c1 = c1
    c2 = c2
    Keys = {s1, c1}
    Tasks = {t1, t2}
    Service <- ServiceKeys
    AutoStart <- ClientKeys
    AutoRemove <- ServiceKeys
    Source <- SourceOf
    Sink <- SinkOf
    None = None
    MaxUInt = 9
    MaxOnQuit = 1
    Contract <- Clauses
SPECIFICATION FairSpec
PROPERTIES
    QuitCompletes
    DeferredRemoved
    AutoStartedTasksEnd
    StartedChainsEnd
CHECK_DEADLOCK FALSE
