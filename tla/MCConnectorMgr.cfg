CONSTANTS
    dbus = dbus
    other = other
    broken = broken
    Names = {dbus, other, broken}
    HasEntry = {dbus, other}
    MaxRefs = 4
SPECIFICATION ConnectorSpec
INVARIANTS
    ConnectorTypeOK
    HeldStaysLoaded
    AloneIsClean
