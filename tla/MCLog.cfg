CONSTANTS
    Compiled <- Levels256
    CompiledType = "syslog"
    Fatal <- ErrorsAndCritical
    Requests <- AnyLevels
    RequestTypes = {"syslog", "glib"}
SPECIFICATION LogSpec
INVARIANTS
    LogTypeOK
    SelectedPrinted
    GivesBack
CHECK_DEADLOCK FALSE
