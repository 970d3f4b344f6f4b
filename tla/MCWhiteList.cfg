CONSTANTS
    empty = empty
    lo = lo
    eth = eth
    EmptyEntry = empty
    Entries = {eth}
    Lists <- OneList
    Files <- NetworkFiles
    Default <- Defaults
    MaxGuint = 7
    MaxEdits = 0
    Compiled <- Compile
    CompiledType = "syslog"
    Fatal <- Errors
    Requests = {}
    RequestTypes = {}
    MaxEntries = 2
SPECIFICATION WhiteListSpec
INVARIANTS
    WhiteListTypeOK
    SingleLevelsWin
    LogFollowsSettings
    FilterSurvivesRestart
PROPERTIES
    RestartKeepsSettings
    AccessorsFollowFile
CHECK_DEADLOCK FALSE
