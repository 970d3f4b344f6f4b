CONSTANTS
    empty = empty
    lo = lo
    eth = eth
    EmptyEntry = empty
    Entries = {lo, eth}
    Lists <- NoLists
    Files <- TwoFiles
    Default <- Defaults
    MaxGuint = 7
    MaxEdits = 1
    Compiled <- Compile
    CompiledType = "syslog"
    Fatal <- Errors
    Requests = {}
    RequestTypes = {}
SPECIFICATION SettingsSpec
PROPERTY EditsKept
CHECK_DEADLOCK FALSE
