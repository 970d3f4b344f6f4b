--------------------------- MODULE MCConnectorMgr ---------------------------
(* Instances of ConnectorMgr for TLC.                                      *)
EXTENDS ConnectorMgr

CONSTANTS dbus, other, broken
=============================================================================
