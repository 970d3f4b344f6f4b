---------------------------- MODULE ChainSources ----------------------------
(***************************************************************************)
(* The sources of chains of service tasks.  A chain is a queue, and        *)
(* dleyna_service_task_create_source makes its source: a static buffer,    *)
(* into which an unsigned counter is printed with %d.  A source is         *)
(* modelled by the number in it.                                           *)
(***************************************************************************)
EXTENDS Integers

CONSTANTS
    Chains,      \* the chains that exist at a time
    MaxUnsigned  \* UINT_MAX

ASSUME UnsignedAssumption == MaxUnsigned \in Nat /\ MaxUnsigned % 2 = 1

VARIABLES
    cpt,      \* the counter
    source,   \* the buffer
    chain,    \* of each chain: "none", "named" or "live"
    key,      \* the source in the key of its queue
    later     \* history: sources made after its own, up to UINT_MAX + 1

sourceVars == <<cpt, source, chain, key, later>>

SourcesInit ==
    /\ cpt = 1 /\ source = 0
    /\ chain = [c \in Chains |-> "none"]
    /\ key = [c \in Chains |-> 0]
    /\ later = [c \in Chains |-> 0]

-----------------------------------------------------------------------------
(* An unsigned that is printed with %d.                                    *)
Printed(n) == IF n <= MaxUnsigned \div 2 THEN n ELSE n - MaxUnsigned - 1

(* Slip: a counter that wraps starts again at its first value.             *)
SucceedingFromOne(n) == IF n = MaxUnsigned THEN 1 ELSE n + 1

Succeeding(n) == (n + 1) % (MaxUnsigned + 1)

(* dleyna_service_task_create_source.  Its caller creates the queue before *)
(* anybody asks for another source.                                        *)
CreateSource(c) ==
    /\ chain[c] = "none"
    /\ \A d \in Chains : chain[d] # "named"
    /\ source' = Printed(cpt)
    /\ cpt' = Succeeding(cpt)
    /\ chain' = [chain EXCEPT ![c] = "named"]
    /\ later' = [d \in Chains |-> IF chain[d] = "live" /\ later[d] <= MaxUnsigned
                                  THEN later[d] + 1 ELSE later[d]]
    /\ UNCHANGED key

(* dleyna_task_processor_add_queue copies the source into the key.         *)
AddChain(c) ==
    /\ chain[c] = "named"
    /\ chain' = [chain EXCEPT ![c] = "live"]
    /\ key' = [key EXCEPT ![c] = source]
    /\ UNCHANGED <<cpt, source, later>>

(* The chain has ended, and prv_key_free_cb frees its key.                 *)
EndChain(c) ==
    /\ chain[c] = "live"
    /\ chain' = [chain EXCEPT ![c] = "none"]
    /\ key' = [key EXCEPT ![c] = 0]
    /\ later' = [later EXCEPT ![c] = 0]
    /\ UNCHANGED <<cpt, source>>

SourcesNext == \E c \in Chains : CreateSource(c) \/ AddChain(c) \/ EndChain(c)

SourcesSpec == SourcesInit /\ [][SourcesNext]_sourceVars

-----------------------------------------------------------------------------
(* No two chains have one source, also when the counter wraps, or turns    *)
(* negative as it is printed; but for a chain that is still there when     *)
(* 2^32 others have been named after it.                                   *)
SourcesDistinct ==
    \A c, d \in Chains :
        /\ c # d /\ chain[c] = "live" /\ chain[d] = "live"
        /\ later[c] <= MaxUnsigned /\ later[d] <= MaxUnsigned
        => key[c] # key[d]
=============================================================================
