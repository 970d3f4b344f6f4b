CONSTANTS
    Udns <- ShortUdns
    Limit = 30
    SignedChar = TRUE
SPECIFICATION UdnSpec
INVARIANT NeverOverruns
CHECK_DEADLOCK FALSE
