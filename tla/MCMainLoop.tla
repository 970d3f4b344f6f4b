---------------------------- MODULE MCMainLoop ----------------------------
(* Instances of MainLoop for TLC: one chain of service tasks, one client.  *)
EXTENDS MainLoop, TLC

CONSTANTS s1, c1

ServiceKeys == Keys \cap {s1}

ClientKeys == Keys \cap {c1}

SourceOf == [k \in Keys |-> k]

SinkOf == [k \in Keys |-> IF k = s1 THEN "server" ELSE "device"]

(* The callers keep every rule but one: work still arrives after quit.     *)
OpenQuit == Clauses \ {"closed_quit"}

(* Tasks are interchangeable.                                              *)
TaskSymmetry == Permutations(Tasks)
=============================================================================
