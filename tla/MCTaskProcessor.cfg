CONSTANTS
    s1 = s1
    s2 = s2
    c1 = c1
    c2 = c2
    Keys = {s1, s2, c1, c2}
    Tasks = {t1, t2}
    Service <- ServiceKeys
    AutoStart <- ClientKeys
    AutoRemove <- ServiceKeys
    Source <- SourceOf
    Sink <- SinkOf
    None = None
    MaxUInt = 9
    MaxOnQuit = 2
    Contract <- Clauses
SPECIFICATION Spec
SYMMETRY Symmetry
INVARIANTS
    TypeOK
    NoFault
    IdleSourcesTracked
    RunningAccounted
    SlotsHoldLiveTasks
    NoTaskLeaks
    InFlightIsCurrent
    FinallyTruthful
    QuitDrains
    FullInv
PROPERTIES
    EndedNeverRuns
    ImplementsSerialQueues
CHECK_DEADLOCK FALSE
