CONSTANTS
    Udns <- ShortUdns
    Limit = 10
    SignedChar = TRUE
SPECIFICATION UdnSpec
INVARIANTS
    UdnTypeOK
    ValidPath
    SpaceSuffices
    Reversible
CHECK_DEADLOCK FALSE
