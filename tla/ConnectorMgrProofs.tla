------------------------- MODULE ConnectorMgrProofs -------------------------
(***************************************************************************)
(* What ConnectorMgr promises its callers, for any number of connectors    *)
(* and of loads.                                                           *)
(***************************************************************************)
EXTENDS ConnectorMgr, TLAPS

(* The properties support each other: that a release does not make a count *)
(* negative follows from HeldStaysLoaded, and that GLib refuses no call    *)
(* from the table's type.  A connector that was never shared is held once. *)
ConnectorInv ==
    /\ ConnectorTypeOK
    /\ HeldStaysLoaded
    /\ AloneIsClean
    /\ \A n \in Names \ shared : held[n] <= 1

(* Loading a connector, held or not, keeps the table and the counts sound. *)
LEMMA LoadStep ==
    ASSUME ConnectorInv, NEW n \in Names, Load(n)
    PROVE  ConnectorInv'
<1>1. /\ refs \in [Names -> 0..MaxRefs] /\ held \in [Names -> 0..MaxRefs]
      /\ \A k \in Names : held[k] <= refs[k]
      /\ connectors \subseteq HasEntry /\ shared \subseteq HasEntry
      /\ refused \in BOOLEAN
      BY DEF ConnectorInv, ConnectorTypeOK, HeldStaysLoaded
<1>2. /\ n \in HasEntry /\ refs[n] < MaxRefs
      /\ created' = TRUE
      /\ connectors' = connectors \cup {n}
      /\ refs' = [refs EXCEPT ![n] = refs[n] + 1]
      /\ held' = [held EXCEPT ![n] = held[n] + 1]
      /\ shared' = IF held[n] > 0 THEN shared \cup {n} ELSE shared
      /\ refused' = refused
      BY DEF Load
<1>3. refs[n] + 1 \in 0..MaxRefs /\ held[n] + 1 \in 0..MaxRefs
      BY <1>1, <1>2, ConnectorAssumption DEF ConnectorAssumption
<1>4. ConnectorTypeOK'
      BY <1>1, <1>2, <1>3 DEF ConnectorTypeOK
<1>5. HeldStaysLoaded'
      BY <1>1, <1>2 DEF HeldStaysLoaded
<1>6. AloneIsClean'
  <2>1. ASSUME NEW k \in Names \ shared'
        PROVE  refs'[k] = held'[k] /\ (k \in connectors' <=> held'[k] > 0)
    <3>1. k \in Names \ shared
          BY <1>2
    <3>2. refs[k] = held[k] /\ (k \in connectors <=> held[k] > 0)
          BY <3>1 DEF ConnectorInv, AloneIsClean
    <3>3. CASE k = n
          BY <1>1, <1>2, <2>1, <3>2, <3>3
    <3>4. CASE k # n
          BY <1>1, <1>2, <3>2, <3>4
    <3> QED BY <3>3, <3>4
  <2>2. shared' = {} => ~refused'
        BY <1>2 DEF ConnectorInv, AloneIsClean
  <2> QED BY <2>1, <2>2 DEF AloneIsClean
<1>7. ASSUME NEW k \in Names \ shared'
      PROVE  held'[k] <= 1
  <2>1. k \in Names \ shared /\ held[k] <= 1
        BY <1>2 DEF ConnectorInv
  <2>2. CASE k = n
        BY <1>1, <1>2, <1>7, <2>1, <2>2
  <2>3. CASE k # n
        BY <1>1, <1>2, <2>1, <2>3
  <2> QED BY <2>2, <2>3
<1> QED BY <1>4, <1>5, <1>6, <1>7 DEF ConnectorInv

(* A release takes the entry of the table, if it is there, and never more  *)
(* of a module than the loads have opened.                                 *)
LEMMA ReleaseStep ==
    ASSUME ConnectorInv, NEW n \in Names, Release(n)
    PROVE  ConnectorInv'
<1>1. /\ refs \in [Names -> 0..MaxRefs] /\ held \in [Names -> 0..MaxRefs]
      /\ \A k \in Names : held[k] <= refs[k]
      /\ connectors \subseteq HasEntry /\ shared \subseteq HasEntry
      /\ refused \in BOOLEAN /\ created \in BOOLEAN
      /\ connectors # {} => created
      BY DEF ConnectorInv, ConnectorTypeOK, HeldStaysLoaded
<1>2. /\ held[n] > 0
      /\ held' = [held EXCEPT ![n] = held[n] - 1]
      /\ refused' = (refused \/ ~created)
      /\ shared' = shared
      BY DEF Release
<1>3. held[n] - 1 \in 0..MaxRefs /\ refs[n] - 1 \in 0..MaxRefs
      BY <1>1, <1>2, ConnectorAssumption DEF ConnectorAssumption
<1>4. held' \in [Names -> 0..MaxRefs] /\ refused' \in BOOLEAN
      BY <1>1, <1>2, <1>3
<1>5. ASSUME NEW k \in Names \ shared
      PROVE  refs[k] = held[k] /\ (k \in connectors <=> held[k] > 0) /\ held[k] <= 1
      BY DEF ConnectorInv, AloneIsClean
<1>6. shared = {} => ~refused /\ n \in connectors
      BY <1>2, <1>5 DEF ConnectorInv, AloneIsClean
<1>7. shared' = {} => ~refused'
      BY <1>1, <1>2, <1>6
<1>8. CASE n \in connectors
  <2>1. /\ refs' = [refs EXCEPT ![n] = refs[n] - 1]
        /\ connectors' = connectors \ {n}
        /\ created' = (connectors' # {})
        BY <1>8 DEF Release
  <2>2. ConnectorTypeOK'
        BY <1>1, <1>2, <1>3, <1>4, <2>1 DEF ConnectorTypeOK
  <2>3. HeldStaysLoaded'
        BY <1>1, <1>2, <2>1 DEF HeldStaysLoaded
  <2>4. ASSUME NEW k \in Names \ shared'
        PROVE  refs'[k] = held'[k] /\ (k \in connectors' <=> held'[k] > 0)
    <3>1. CASE k = n
      <4>1. refs'[n] = refs[n] - 1 /\ held'[n] = held[n] - 1 /\ n \notin connectors'
            BY <1>1, <1>2, <2>1
      <4>2. n \in Names \ shared
            BY <1>2, <2>4, <3>1
      <4>3. refs'[n] = held'[n]
            BY <1>5, <4>1, <4>2
      <4>4. ~(held'[n] > 0)
            BY <1>1, <1>5, <4>1, <4>2
      <4> QED BY <3>1, <4>1, <4>3, <4>4
    <3>2. CASE k # n
          BY <1>1, <1>2, <1>5, <2>1, <3>2
    <3> QED BY <3>1, <3>2
  <2>5. ASSUME NEW k \in Names \ shared'
        PROVE  held'[k] <= 1
        BY <1>1, <1>2, <1>5
  <2> QED BY <1>7, <2>2, <2>3, <2>4, <2>5 DEF ConnectorInv, AloneIsClean
<1>9. CASE n \notin connectors
  <2>1. refs' = refs /\ connectors' = connectors /\ created' = created
        BY <1>9 DEF Release
  <2>2. n \in shared
        BY <1>2, <1>5, <1>9
  <2>3. ConnectorTypeOK'
        BY <1>1, <1>2, <1>4, <2>1 DEF ConnectorTypeOK
  <2>4. HeldStaysLoaded'
        BY <1>1, <1>2, <2>1 DEF HeldStaysLoaded
  <2>5. ASSUME NEW k \in Names \ shared'
        PROVE  refs'[k] = held'[k] /\ (k \in connectors' <=> held'[k] > 0)
        BY <1>1, <1>2, <1>5, <2>1, <2>2
  <2>6. ASSUME NEW k \in Names \ shared'
        PROVE  held'[k] <= 1
        BY <1>1, <1>2, <1>5
  <2> QED BY <1>7, <2>3, <2>4, <2>5, <2>6 DEF ConnectorInv, AloneIsClean
<1> QED BY <1>8, <1>9

(* ConnectorInv is inductive.                                              *)
LEMMA ConnectorInvariant == ConnectorSpec => []ConnectorInv
<1>1. ConnectorInit => ConnectorInv
  <2> SUFFICES ASSUME ConnectorInit PROVE ConnectorInv
      OBVIOUS
  <2>1. /\ \A n \in Names : refs[n] = 0 /\ held[n] = 0
        /\ created = FALSE /\ refused = FALSE
        /\ connectors = {} /\ shared = {}
        BY DEF ConnectorInit
  <2>2. refs \in [Names -> 0..MaxRefs] /\ held \in [Names -> 0..MaxRefs]
    <3>1. 0 \in 0..MaxRefs
          BY ConnectorAssumption DEF ConnectorAssumption
    <3> QED BY <3>1 DEF ConnectorInit
  <2>3. ConnectorTypeOK
        BY <2>1, <2>2 DEF ConnectorTypeOK
  <2>4. HeldStaysLoaded /\ AloneIsClean
        BY <2>1 DEF HeldStaysLoaded, AloneIsClean
  <2> QED BY <2>1, <2>3, <2>4 DEF ConnectorInv
<1>2. ConnectorInv /\ [ConnectorNext]_connectorVars => ConnectorInv'
  <2> SUFFICES ASSUME ConnectorInv, [ConnectorNext]_connectorVars
               PROVE  ConnectorInv'
      OBVIOUS
  <2>1. ASSUME NEW n \in Names, Load(n)
        PROVE  ConnectorInv'
        BY <2>1, LoadStep
  <2>2. ASSUME NEW n \in Names, LoadFails(n)
        PROVE  ConnectorInv'
        BY <2>2 DEF LoadFails, ConnectorInv, ConnectorTypeOK, HeldStaysLoaded, AloneIsClean
  <2>3. ASSUME NEW n \in Names, Release(n)
        PROVE  ConnectorInv'
        BY <2>3, ReleaseStep
  <2>4. CASE UNCHANGED connectorVars
        BY <2>4
        DEF connectorVars, ConnectorInv, ConnectorTypeOK, HeldStaysLoaded, AloneIsClean
  <2> QED BY <2>1, <2>2, <2>3, <2>4 DEF ConnectorNext
<1> QED BY <1>1, <1>2, PTL DEF ConnectorSpec

(* The table holds connectors only, no count passes its bounds, and none   *)
(* becomes negative, whatever is released.                                 *)
THEOREM ConnectorTypeCorrect == ConnectorSpec => []ConnectorTypeOK
<1>1. ConnectorInv => ConnectorTypeOK
      BY DEF ConnectorInv
<1> QED BY <1>1, ConnectorInvariant, PTL

(* No release unloads the module of a connector that somebody still holds. *)
THEOREM ConnectorsStayLoaded == ConnectorSpec => []HeldStaysLoaded
<1>1. ConnectorInv => HeldStaysLoaded
      BY DEF ConnectorInv
<1> QED BY <1>1, ConnectorInvariant, PTL

(* What is loaded once at a time is unloaded, and no call is refused.      *)
THEOREM ConnectorsAreClosed == ConnectorSpec => []AloneIsClean
<1>1. ConnectorInv => AloneIsClean
      BY DEF ConnectorInv
<1> QED BY <1>1, ConnectorInvariant, PTL
=============================================================================
