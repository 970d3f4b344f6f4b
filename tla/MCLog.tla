------------------------------- MODULE MCLog -------------------------------
(* Instances of Log for TLC.                                               *)
EXTENDS Log

(* doc/logging.txt: --with-log-level=2,5,6.                                *)
Levels256 == {"critical", "info", "debug"}

(* --with-log-level=7.                                                     *)
Levels7 == {"error", "critical", "info"}

AnyLevels == SUBSET Levels

OneLevel == {{"critical"}}

Errors == {"error"}

ErrorsAndCritical == {"error", "critical"}
=============================================================================
