-------------------------- MODULE MCTaskProcessor --------------------------
(***************************************************************************)
(* Instances of TaskProcessor for TLC.  Service queues are the chains that *)
(* build a device: flag AUTO_REMOVE, a source of their own, the sink of    *)
(* the server.  The other queues are those of clients: flag AUTO_START,    *)
(* the name of the client as source, the path of a device as sink.         *)
(***************************************************************************)
EXTENDS TaskProcessorInv, TaskProcessorRefinement, TLC

CONSTANTS s1, s2, c1, c2      \* handles

ServiceKeys == Keys \cap {s1, s2}

ClientKeys == Keys \cap {c1, c2}

SourceOf == [k \in Keys |-> k]

SinkOf == [k \in Keys |-> IF k \in {s1, s2} THEN "server" ELSE "device"]

(* The callers keep every rule but one.                                    *)
NoisyQuit == Clauses \ {"quiet_quit"}

StaleQuit == Clauses \ {"no_stale"}

(* Tasks are interchangeable, and so are the chains, and the clients.      *)
TaskSymmetry == Permutations(Tasks)

Symmetry ==
    {p @@ s @@ c : p \in TaskSymmetry, s \in Permutations(ServiceKeys),
                   c \in Permutations(ClientKeys)}
=============================================================================
