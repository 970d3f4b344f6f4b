---------------------------- MODULE ConnectorMgr ----------------------------
(***************************************************************************)
(* The connector manager (connector-mgr.c): the table from connectors to   *)
(* the modules they were loaded from.  GModule opens a file only once, and *)
(* counts how often it was opened; a connector is named by its file.       *)
(***************************************************************************)
EXTENDS Naturals

CONSTANTS
    Names,      \* names of connectors
    HasEntry,   \* those whose module has dleyna_connector_get_interface
    MaxRefs     \* bound on how often a module is opened

ASSUME ConnectorAssumption == HasEntry \subseteq Names /\ MaxRefs \in Nat

VARIABLES
    created,     \* g_connectors is not NULL
    connectors,  \* the keys of g_connectors
    refs,        \* GModule's count for each module
    held,        \* history: calls of load less calls of release
    shared,      \* history: connectors that were loaded while they were held
    refused      \* GLib refused a call on a NULL table

connectorVars == <<created, connectors, refs, held, shared, refused>>

ConnectorTypeOK ==
    /\ created \in BOOLEAN
    /\ connectors \subseteq HasEntry
    /\ connectors # {} => created
    /\ refs \in [Names -> 0..MaxRefs]
    /\ held \in [Names -> 0..MaxRefs]
    /\ shared \subseteq HasEntry
    /\ refused \in BOOLEAN

ConnectorInit ==
    /\ created = FALSE /\ connectors = {}
    /\ refs = [n \in Names |-> 0]
    /\ held = [n \in Names |-> 0]
    /\ shared = {}
    /\ refused = FALSE

-----------------------------------------------------------------------------
(* Slip: a module that is in the table already is closed again.            *)
LoadOnce(n) ==
    /\ n \in HasEntry /\ refs[n] < MaxRefs /\ held[n] < MaxRefs
    /\ created' = TRUE
    /\ connectors' = connectors \cup {n}
    /\ refs' = [refs EXCEPT ![n] = IF n \in connectors THEN @ ELSE @ + 1]
    /\ held' = [held EXCEPT ![n] = @ + 1]
    /\ shared' = IF held[n] > 0 THEN shared \cup {n} ELSE shared
    /\ UNCHANGED refused

(* dleyna_connector_mgr_load; an entry for the connector is replaced.      *)
Load(n) ==
    /\ n \in HasEntry /\ refs[n] < MaxRefs
    /\ created' = TRUE
    /\ connectors' = connectors \cup {n}
    /\ refs' = [refs EXCEPT ![n] = @ + 1]
    /\ held' = [held EXCEPT ![n] = @ + 1]
    /\ shared' = IF held[n] > 0 THEN shared \cup {n} ELSE shared
    /\ UNCHANGED refused

(* The same for a module without the entry point, which is closed again.   *)
LoadFails(n) ==
    /\ n \notin HasEntry
    /\ created' = TRUE
    /\ UNCHANGED <<connectors, refs, held, shared, refused>>

(* Slip: the table is freed with other connectors in it.                   *)
ReleaseFreesTable(n) ==
    /\ held[n] > 0
    /\ held' = [held EXCEPT ![n] = @ - 1]
    /\ IF n \in connectors
       THEN /\ refs' = [refs EXCEPT ![n] = @ - 1]
            /\ connectors' = connectors \ {n}
            /\ created' = FALSE
       ELSE UNCHANGED <<refs, connectors, created>>
    /\ refused' = (refused \/ ~created)
    /\ UNCHANGED shared

(* dleyna_connector_mgr_release, by one who holds the connector.           *)
Release(n) ==
    /\ held[n] > 0
    /\ held' = [held EXCEPT ![n] = @ - 1]
    /\ IF n \in connectors
       THEN /\ refs' = [refs EXCEPT ![n] = @ - 1]
            /\ connectors' = connectors \ {n}
            /\ created' = (connectors' # {})
       ELSE UNCHANGED <<refs, connectors, created>>
    /\ refused' = (refused \/ ~created)
    /\ UNCHANGED shared

ConnectorNext == \E n \in Names : Load(n) \/ LoadFails(n) \/ Release(n)

ConnectorSpec == ConnectorInit /\ [][ConnectorNext]_connectorVars

-----------------------------------------------------------------------------
(* The module of a connector that somebody holds is not unloaded, though   *)
(* the table has one entry for all who loaded it, and though a release may *)
(* take the entry that a later load made.                                  *)
HeldStaysLoaded == \A n \in Names : held[n] <= refs[n]

(* A connector that is not loaded twice at once is closed as often as it   *)
(* was opened, whatever the others do; if none is, GLib refuses no call.   *)
AloneIsClean ==
    /\ \A n \in Names \ shared : /\ refs[n] = held[n]
                                 /\ n \in connectors <=> held[n] > 0
    /\ shared = {} => ~refused
=============================================================================
