--------------------------- MODULE SettingsProofs ---------------------------
(***************************************************************************)
(* What holds of the settings, and of the log and the white list with      *)
(* them, for every content of the files and every sequence of starts.      *)
(***************************************************************************)
EXTENDS WhiteList, LogProofs, Induction, SequenceTheorems

(* A step of the settings, or one of a control point that sets any list.   *)
SettingsStep ==
    \/ OpenLog
    \/ \E made, copied \in BOOLEAN : New(made, copied)
    \/ \E b, ok \in BOOLEAN : SetNeverQuit(b, ok)
    \/ \E b, ok \in BOOLEAN : SetWhiteListEnabled(b, ok)
    \/ \E list, ok : ok \in BOOLEAN /\ SetWhiteListEntries(list, ok)
    \/ Delete
    \/ \E p \in Paths, k \in Keys, f \in Files : Edit(p, k, f)
    \/ UNCHANGED allSettingsVars

LEMMA SettingsSteps == [SettingsNext]_allSettingsVars => SettingsStep
BY DEF SettingsNext, SettingsStep

LEMMA WhiteListSteps == [WhiteListNext]_allWhiteListVars => SettingsStep
BY DEF WhiteListNext, SettingsStep, Unfollowed, Fill, ChangeEnabled, Replace,
       Allow, Revoke, WhiteListDelete, allWhiteListVars, allSettingsVars, settingsVars,
       logVars

(***************************************************************************)
(* The shape of records and functions, without which an EXCEPT says        *)
(* nothing of them.                                                        *)
(***************************************************************************)
Fields == {"open", "path", "keys", "values"}

Shape ==
    /\ DOMAIN settings = Fields
    /\ settings.open \in BOOLEAN /\ settings.path \in Paths \cup {"none"}
    /\ DOMAIN settings.keys = Keys /\ DOMAIN settings.values = Keys
    /\ DOMAIN disk = Paths
    /\ \A p \in Paths : /\ DOMAIN disk[p] = {"state", "keys"}
                        /\ DOMAIN disk[p].keys = Keys
    /\ DOMAIN asked = Keys /\ DOMAIN expected = Keys

SetterKeys == {"never_quit", "netf_enabled", "netf_list"}

(* A setter writes what is read again as what it was given.                *)
Setter(k, written, v, ok) ==
    SetKey(k, written, v, ok) /\ Same(k, Convert(k, written), v)

LEMMA Setters ==
    ASSUME \/ \E b, ok \in BOOLEAN : SetNeverQuit(b, ok)
           \/ \E b, ok \in BOOLEAN : SetWhiteListEnabled(b, ok)
           \/ \E list, ok : ok \in BOOLEAN /\ SetWhiteListEntries(list, ok)
    PROVE  \E k, written, v, ok :
               k \in SetterKeys /\ ok \in BOOLEAN /\ Setter(k, written, v, ok)
<1>1. ASSUME NEW b \in BOOLEAN, NEW ok \in BOOLEAN, SetNeverQuit(b, ok)
      PROVE  Setter("never_quit", b, b, ok)
  BY <1>1 DEF SetNeverQuit, Setter, Same, Convert
<1>2. ASSUME NEW b \in BOOLEAN, NEW ok \in BOOLEAN, SetWhiteListEnabled(b, ok)
      PROVE  Setter("netf_enabled", b, b, ok)
  BY <1>2 DEF SetWhiteListEnabled, Setter, Same, Convert
<1>3. ASSUME NEW list, NEW ok \in BOOLEAN, SetWhiteListEntries(list, ok)
      PROVE  Setter("netf_list", Shown("netf_list", list), list, ok)
  BY <1>3 DEF SetWhiteListEntries, Setter, Same, Convert
<1> QED
  BY <1>1, <1>2, <1>3 DEF SetterKeys

(* What a setter leaves, entry by entry.                                   *)
SetterDid(k, written, v, ok) ==
    /\ Shape'
    /\ settings.open /\ settings'.open /\ settings'.path = settings.path
    /\ ~Loaded => ok
    /\ \A j \in Keys : settings'.keys[j] = IF j # k THEN settings.keys[j]
                                          ELSE IF Loaded THEN <<written>> ELSE <<>>
    /\ \A j \in Keys : settings'.values[j] = IF j = k /\ ok THEN v ELSE settings.values[j]
    /\ \A p \in Paths : /\ disk'[p].state = disk[p].state
                        /\ disk'[p].keys = IF p = settings.path /\ ok
                                           THEN settings'.keys ELSE disk[p].keys
    /\ \A j \in Keys : asked'[j] = IF j = k THEN {v} ELSE asked[j]
    /\ \A j \in Keys : expected'[j] = IF Loaded /\ ok /\ asked'[j] # {}
                                      THEN asked'[j] ELSE expected[j]
    /\ paths' = paths /\ UNCHANGED logVars

LEMMA SetterEffect ==
    ASSUME Shape, NEW k \in SetterKeys, NEW written, NEW v, NEW ok \in BOOLEAN,
           SetKey(k, written, v, ok)
    PROVE  SetterDid(k, written, v, ok)
<1> DEFINE s == [settings EXCEPT !.keys[k] = IF Loaded THEN <<written>> ELSE <<>>]
<1>1. k \in Keys
  BY DEF SetterKeys, Keys
<1>2. /\ DOMAIN s = Fields /\ s.open = settings.open /\ s.path = settings.path
      /\ s.values = settings.values /\ DOMAIN s.keys = Keys
      /\ \A j \in Keys : s.keys[j] = IF j # k THEN settings.keys[j]
                                    ELSE IF Loaded THEN <<written>> ELSE <<>>
  BY <1>1 DEF Shape, Fields
<1>3. /\ settings.open /\ (~Loaded => ok)
      /\ disk' = Saved(disk, s, ok)
      /\ settings' = Applied(s, k, v, ok)
      /\ asked' = [asked EXCEPT ![k] = {v}]
      /\ expected' = IF Loaded /\ ok
                     THEN [j \in Keys |-> IF asked'[j] = {} THEN expected[j] ELSE asked'[j]]
                     ELSE expected
      /\ paths' = paths /\ UNCHANGED logVars
  BY DEF SetKey
<1> HIDE DEF s
<1>4. /\ DOMAIN settings' = Fields /\ settings'.open = s.open /\ settings'.path = s.path
      /\ settings'.keys = s.keys /\ DOMAIN settings'.values = Keys
      /\ \A j \in Keys : settings'.values[j] = IF j = k /\ ok THEN v ELSE settings.values[j]
  BY <1>1, <1>2, <1>3 DEF Applied, Shape, Fields
<1>5. /\ DOMAIN disk' = Paths
      /\ \A p \in Paths : /\ DOMAIN disk'[p] = {"state", "keys"}
                          /\ disk'[p].state = disk[p].state
                          /\ disk'[p].keys = IF p = settings.path /\ ok THEN s.keys
                                             ELSE disk[p].keys
  <2>1. CASE settings.path # "none" /\ ok
    BY <1>2, <1>3, <2>1 DEF Saved, Shape
  <2>2. CASE ~(settings.path # "none" /\ ok)
    BY <1>2, <1>3, <2>2 DEF Saved, Shape, Paths
  <2> QED
    BY <2>1, <2>2
<1>6. /\ DOMAIN asked' = Keys /\ DOMAIN expected' = Keys
      /\ \A j \in Keys : asked'[j] = IF j = k THEN {v} ELSE asked[j]
      /\ \A j \in Keys : expected'[j] = IF Loaded /\ ok /\ asked'[j] # {}
                                        THEN asked'[j] ELSE expected[j]
  BY <1>1, <1>3 DEF Shape
<1>7. Shape'
  <2>1. /\ DOMAIN settings' = Fields
        /\ settings'.open \in BOOLEAN /\ settings'.path \in Paths \cup {"none"}
        /\ DOMAIN settings'.keys = Keys /\ DOMAIN settings'.values = Keys
    BY <1>2, <1>4 DEF Shape
  <2>2. /\ DOMAIN disk' = Paths
        /\ \A p \in Paths : DOMAIN disk'[p] = {"state", "keys"} /\ DOMAIN disk'[p].keys = Keys
    BY ONLY <1>2, <1>5, Shape DEF Shape
  <2> QED
    BY ONLY <1>6, <2>1, <2>2 DEF Shape
<1>8. /\ settings.open /\ settings'.open /\ settings'.path = settings.path
      /\ \A j \in Keys : settings'.keys[j] = IF j # k THEN settings.keys[j]
                                            ELSE IF Loaded THEN <<written>> ELSE <<>>
  BY <1>2, <1>3, <1>4
<1>9. \A p \in Paths : /\ disk'[p].state = disk[p].state
                      /\ disk'[p].keys = IF p = settings.path /\ ok
                                         THEN settings'.keys ELSE disk[p].keys
  BY <1>4, <1>5
<1>10. (~Loaded => ok) /\ paths' = paths /\ UNCHANGED logVars
  BY <1>3
<1>11. \A j \in Keys : settings'.values[j] = IF j = k /\ ok THEN v ELSE settings.values[j]
  BY <1>4
<1>12. /\ \A j \in Keys : asked'[j] = IF j = k THEN {v} ELSE asked[j]
       /\ \A j \in Keys : expected'[j] = IF Loaded /\ ok /\ asked'[j] # {}
                                         THEN asked'[j] ELSE expected[j]
  BY <1>6
<1> QED
  BY ONLY <1>7, <1>8, <1>9, <1>10, <1>11, <1>12, Zenon DEF SetterDid

-----------------------------------------------------------------------------
(***************************************************************************)
(* The invariant.                                                          *)
(***************************************************************************)
(* The log is in use while there are settings, and follows them.           *)
Logs ==
    handler = "prv_handler" =>
        /\ context.type = IF settings.open THEN settings.values["log_type"] ELSE CompiledType
        /\ context.mask = (IF settings.open THEN settings.values["log_level"] ELSE Compiled)
                             \cap Compiled

(* What a start reads, were it to copy no file.                            *)
Content(d) == IF PathOf(d) = "none" THEN NoKeys ELSE d[PathOf(d)].keys

(* Every key that is expected is in the file.                              *)
Stored ==
    \A k \in Keys : expected[k] # {} =>
        \E v \in expected[k] : Same(k, ReadKeys(Default, Content(disk))[k], v)

(* Whoever has settings has read the file that the next start will read;   *)
(* its keyfile holds what was asked for and, for other keys that are       *)
(* expected, what the file does.                                           *)
InMemory ==
    /\ settings.open => handler = "prv_handler" /\ settings.path = PathOf(disk)
    /\ ~settings.open => ~Loaded /\ \A k \in Keys : asked[k] = {}
    /\ Loaded => \A k \in Keys :
           /\ asked[k] # {} =>
                  \E v \in asked[k] : Same(k, ReadKeys(Default, settings.keys)[k], v)
           /\ asked[k] = {} /\ expected[k] # {} =>
                  settings.keys[k] = disk[settings.path].keys[k]

SettingsInv == Shape /\ LogInv /\ Logs /\ Stored /\ InMemory

LEMMA SettingsInitStep == SettingsInit => SettingsInv
<1> SUFFICES ASSUME SettingsInit PROVE SettingsInv
  OBVIOUS
<1>1. LogInv
  BY InitStep DEF SettingsInit
<1>2. settings = NoSettings /\ asked = NoValues /\ expected = NoValues
  BY DEF SettingsInit
<1>3. \A p \in Paths : DOMAIN disk[p] = {"state", "keys"} /\ DOMAIN disk[p].keys = Keys
  <2>1. ASSUME NEW p \in Paths
        PROVE  \/ disk[p] \in {NoFile, [NoFile EXCEPT !.state = "malformed"]}
               \/ disk[p] \in [state : {"good"}, keys : Files]
    BY <2>1 DEF SettingsInit
  <2>2. ASSUME NEW p \in Paths
        PROVE  DOMAIN disk[p] = {"state", "keys"} /\ DOMAIN disk[p].keys = Keys
    BY <2>1, <2>2, SettingsAssumption DEF NoFile, NoKeys, Keyfile
  <2> QED
    BY <2>2
<1>4. DOMAIN disk = Paths
  BY DEF SettingsInit
<1>5. Shape
  BY <1>2, <1>3, <1>4, SettingsAssumption
  DEF Shape, NoSettings, NoValues, NoKeys, Fields
<1>6. handler # "prv_handler"
  BY <1>1, TypeParts DEF LogInv, SettingsInit, LogInit
<1>7. Stored /\ InMemory
  BY <1>2 DEF Stored, InMemory, NoSettings, NoValues, Loaded
<1> QED
  BY <1>1, <1>5, <1>6, <1>7 DEF SettingsInv, Logs

(* Steps that leave the settings alone.                                    *)
LEMMA OpenLogStep ==
    ASSUME SettingsInv, OpenLog
    PROVE  SettingsInv'
<1>1. UNCHANGED settingsVars /\ Initialise /\ ~settings.open
  BY DEF OpenLog
<1>2. LogInv'
  BY <1>1, InitialiseStep DEF SettingsInv
<1>3. Logs'
  <2>1. context'.type = CompiledType /\ context'.mask = Compiled
    <3> DEFINE c == Select(Cleared, CompiledType, Compiled)
    <3>1. Cleared \in Context /\ CompiledType \in LogTypes
      BY LogAssumption DEF Cleared, Context, LogTypes
    <3>2. c \in Context /\ c.type = CompiledType /\ c.mask = Compiled \cap Compiled
      BY ONLY <3>1, SelectProperties
    <3>3. context' = [c EXCEPT !.oldMask = sysmask, !.oldHandler = handler]
      BY <1>1 DEF Initialise
    <3> HIDE DEF c
    <3> QED
      BY <3>2, <3>3 DEF Context
  <2> QED
    BY <1>1, <2>1 DEF Logs, settingsVars
<1>4. Shape' /\ Stored'
  BY <1>1 DEF SettingsInv, Shape, Stored, Content, PathOf, Loads, settingsVars
<1>5. InMemory'
  BY <1>1 DEF SettingsInv, InMemory, Loaded, settingsVars
<1> QED
  BY <1>2, <1>3, <1>4, <1>5 DEF SettingsInv

LEMMA DeleteStep ==
    ASSUME SettingsInv, Delete
    PROVE  SettingsInv'
<1>1. /\ settings' = NoSettings /\ asked' = NoValues /\ Finalize
      /\ UNCHANGED <<paths, disk, expected>>
  BY DEF Delete
<1>2. LogInv'
  BY <1>1, FinalizeStep DEF SettingsInv
<1>3. handler' # "prv_handler"
  <2>1. handler' = before.handler
    BY <1>1 DEF SettingsInv, LogInv, InUse, Finalize
  <2>2. before.handler \in {"glib", "program"}
    BY TypeParts DEF SettingsInv, LogInv
  <2> QED
    BY <2>1, <2>2
<1>4. Shape'
  BY <1>1, SettingsAssumption DEF SettingsInv, Shape, NoSettings, NoValues, NoKeys, Fields
<1>5. Stored'
  BY <1>1 DEF SettingsInv, Stored, Content, PathOf, Loads
<1>6. InMemory'
  BY <1>1 DEF InMemory, NoSettings, NoValues, Loaded
<1> QED
  BY <1>2, <1>3, <1>4, <1>5, <1>6 DEF SettingsInv, Logs

(* Reading the settings: what is read is what Content says, copied or not. *)
LEMMA NewStep ==
    ASSUME SettingsInv, NEW made \in BOOLEAN, NEW copied \in BOOLEAN, New(made, copied)
    PROVE  /\ SettingsInv'
           /\ \A k \in Keys : settings'.values[k] = ReadKeys(Default, Content(disk))[k]
           /\ settings'.path # "none" =>
                  \A k \in Keys :
                      settings'.values[k] = ReadKeys(Default, disk'[settings'.path].keys)[k]
<1> DEFINE d == IF copied THEN [disk EXCEPT !["local"] = disk["system"]] ELSE disk
           p == PathOf(d)
           values == IF p = "none" THEN Default ELSE ReadKeys(Default, d[p].keys)
           keys == IF p = "none" THEN NoKeys ELSE d[p].keys
<1>1. /\ handler = "prv_handler" /\ ~settings.open
      /\ copied => Copies
      /\ disk' = d
      /\ settings' = [open |-> TRUE, path |-> p, values |-> values, keys |-> keys]
      /\ expected' = [k \in Keys |-> IF expected[k] = {} THEN {values[k]} ELSE expected[k]]
      /\ IF p = "none" THEN UNCHANGED logVars
         ELSE UpdateTypeLevel(values["log_type"], values["log_level"])
      /\ paths' = paths /\ asked' = asked
  BY DEF New
<1>2. /\ DOMAIN d = Paths
      /\ \A q \in Paths : DOMAIN d[q] = {"state", "keys"} /\ DOMAIN d[q].keys = Keys
  BY DEF SettingsInv, Shape, Paths
<1>3. p \in Paths \cup {"none"} /\ Content(d) = keys
  BY DEF PathOf, Paths, Content
<1>4. Content(d) = Content(disk)
  <2>1. CASE copied
    <3>1. /\ disk["local"] = NoFile /\ d["local"] = disk["system"]
          /\ d["system"] = disk["system"] /\ paths = Paths
      BY <1>1, <2>1 DEF Copies, SettingsInv, Shape, Paths
    <3>2. ~Loads(disk, "local")
      BY <3>1 DEF Loads, NoFile
    <3>3. /\ Loads(d, "local") <=> Loads(disk, "system")
          /\ Loads(d, "system") <=> Loads(disk, "system")
      BY <3>1 DEF Loads, Paths
    <3> HIDE DEF d
    <3> QED
      BY <3>1, <3>2, <3>3 DEF Content, PathOf
  <2>2. CASE ~copied
    BY <2>2
  <2> QED
    BY <2>1, <2>2
<1> HIDE DEF d, p
<1>5. DOMAIN values = Keys /\ DOMAIN keys = Keys
  BY <1>2, <1>3, SettingsAssumption DEF ReadKeys, NoKeys
<1>6. \A k \in Keys : values[k] = ReadKeys(Default, keys)[k]
  BY DEF ReadKeys, NoKeys
<1>7. p # "none" => values["log_type"] \in LogTypes
  BY SettingsAssumption, LogAssumption DEF ReadKeys, Keys, Convert, ToLogType, LogTypes
<1> HIDE DEF values, keys
<1>8. Shape'
  BY <1>1, <1>2, <1>3, <1>5 DEF SettingsInv, Shape, Fields
<1>9. LogInv' /\ Logs'
  <2>1. CASE p = "none"
    <3>1. UNCHANGED logVars
      BY <1>1, <2>1
    <3>2. LogInv'
      BY <3>1 DEF SettingsInv, LogInv, logVars, LogTypeOK, Idle, InUse, SelectedPrinted
    <3>3. values = Default
      BY <2>1 DEF values
    <3>4. Logs'
      BY <1>1, <3>1, <3>3, SettingsAssumption DEF SettingsInv, Logs, logVars
    <3> QED
      BY <3>2, <3>4
  <2>2. CASE p # "none"
    <3>1. UpdateTypeLevel(values["log_type"], values["log_level"])
      BY <1>1, <2>2
    <3>2. LogInv'
      BY <1>1, <1>7, <2>2, <3>1, UpdateStep DEF SettingsInv
    <3>3. /\ context'.type = values["log_type"]
          /\ context'.mask = values["log_level"] \cap Compiled
      <4>1. context \in Context
        BY TypeParts DEF SettingsInv, LogInv
      <4> DEFINE c == Select(context, values["log_type"], values["log_level"])
      <4>2. c.type = values["log_type"] /\ c.mask = values["log_level"] \cap Compiled
        BY <1>7, <2>2, <4>1, SelectProperties
      <4>3. context' = c
        BY <3>1 DEF UpdateTypeLevel
      <4> QED
        BY <4>2, <4>3
    <3>4. Logs'
      BY <1>1, <3>3 DEF Logs
    <3> QED
      BY <3>2, <3>4
  <2> QED
    BY <2>1, <2>2
<1>10. \A k \in Keys : settings'.values[k] = ReadKeys(Default, Content(disk))[k]
  BY <1>1, <1>3, <1>4, <1>6
<1>11. Content(disk)' = Content(disk) /\ settings'.path = PathOf(disk)'
  BY <1>1, <1>4 DEF p, Content, PathOf, Loads
<1>12. Stored'
  <2> SUFFICES ASSUME NEW k \in Keys, expected'[k] # {}
               PROVE  \E v \in expected'[k] : Same(k, ReadKeys(Default, Content(disk)')[k], v)
    BY DEF Stored
  <2>1. CASE expected[k] = {}
    <3>1. expected'[k] = {values[k]}
      BY <1>1, <2>1
    <3>2. ReadKeys(Default, Content(disk)')[k] = values[k]
      BY <1>3, <1>4, <1>6, <1>11
    <3> QED
      BY <3>1, <3>2 DEF Same
  <2>2. CASE expected[k] # {}
    <3>1. expected'[k] = expected[k]
      BY <1>1, <2>2
    <3> QED
      BY <1>11, <2>2, <3>1 DEF SettingsInv, Stored
  <2> QED
    BY <2>1, <2>2
<1>13. InMemory'
  <2>1. \A k \in Keys : asked'[k] = {}
    BY <1>1 DEF SettingsInv, InMemory
  <2>2. /\ settings'.open /\ settings'.path = PathOf(disk)'
        /\ settings'.path # "none" => settings'.keys = disk'[settings'.path].keys
    BY <1>1, <1>11 DEF keys
  <2>3. handler' = "prv_handler"
    BY <1>1 DEF UpdateTypeLevel, logVars
  <2> QED
    BY <2>1, <2>2, <2>3 DEF InMemory, Loaded
<1>14. settings'.path # "none" =>
           \A k \in Keys :
               settings'.values[k] = ReadKeys(Default, disk'[settings'.path].keys)[k]
  BY <1>1, <1>6 DEF keys
<1> QED
  BY <1>8, <1>9, <1>10, <1>12, <1>13, <1>14 DEF SettingsInv

(* A user changes a key, and nothing is expected of it any more.           *)
LEMMA EditStep ==
    ASSUME SettingsInv, NEW p \in Paths, NEW k \in Keys, NEW f \in Files, Edit(p, k, f)
    PROVE  SettingsInv'
<1>1. /\ disk' = [disk EXCEPT ![p].keys[k] = f[k]]
      /\ expected' = [expected EXCEPT ![k] = {}]
      /\ UNCHANGED <<paths, settings, asked>> /\ UNCHANGED logVars
  BY DEF Edit
<1>2. /\ DOMAIN disk' = Paths /\ DOMAIN expected' = Keys /\ expected'[k] = {}
      /\ \A q \in Paths : /\ DOMAIN disk'[q] = {"state", "keys"}
                          /\ DOMAIN disk'[q].keys = Keys
                          /\ disk'[q].state = disk[q].state
                          /\ \A j \in Keys \ {k} : disk'[q].keys[j] = disk[q].keys[j]
      /\ \A j \in Keys \ {k} : expected'[j] = expected[j]
  BY <1>1 DEF SettingsInv, Shape
<1>3. PathOf(disk)' = PathOf(disk)
  BY <1>1, <1>2 DEF PathOf, Loads, Paths
<1>4. \A j \in Keys \ {k} : Content(disk)'[j] = Content(disk)[j]
  BY <1>2, <1>3 DEF Content, PathOf, Paths
<1>5. Shape'
  BY <1>1, <1>2 DEF SettingsInv, Shape
<1>6. LogInv' /\ Logs'
  BY <1>1 DEF SettingsInv, Logs, LogInv, logVars, LogTypeOK, Idle, InUse, SelectedPrinted
<1>7. Stored'
  <2> SUFFICES ASSUME NEW j \in Keys, expected'[j] # {}
               PROVE  \E v \in expected'[j] : Same(j, ReadKeys(Default, Content(disk)')[j], v)
    BY DEF Stored
  <2>1. j # k /\ expected'[j] = expected[j]
    BY <1>2
  <2>2. ReadKeys(Default, Content(disk)')[j] = ReadKeys(Default, Content(disk))[j]
    BY <1>4, <2>1 DEF ReadKeys
  <2> QED
    BY <2>1, <2>2 DEF SettingsInv, Stored
<1>8. InMemory'
  <2>1. Loaded => settings.path \in Paths
    BY DEF Loaded, SettingsInv, Shape
  <2> QED
    BY <1>1, <1>2, <1>3, <2>1 DEF SettingsInv, InMemory, Loaded, logVars
<1> QED
  BY <1>5, <1>6, <1>7, <1>8 DEF SettingsInv

(* A setter: what it writes is in the keyfile, and in the file if it saved.*)
LEMMA SetterStep ==
    ASSUME SettingsInv, NEW k \in SetterKeys, NEW written, NEW v, NEW ok \in BOOLEAN,
           Setter(k, written, v, ok)
    PROVE  /\ SettingsInv'
           /\ settings'.path # "none" =>
                  \A j \in Keys :
                      settings'.values[j] # settings.values[j] =>
                          Same(j, ReadKeys(Default, disk'[settings'.path].keys)[j],
                               settings'.values[j])
<1>1. SetKey(k, written, v, ok) /\ Same(k, Convert(k, written), v) /\ Shape
  BY DEF Setter, SettingsInv
<1>2. /\ Shape'
      /\ settings.open /\ settings'.open /\ settings'.path = settings.path
      /\ ~Loaded => ok
      /\ \A j \in Keys : settings'.keys[j] = IF j # k THEN settings.keys[j]
                                            ELSE IF Loaded THEN <<written>> ELSE <<>>
      /\ \A j \in Keys : settings'.values[j] = IF j = k /\ ok THEN v ELSE settings.values[j]
      /\ \A p \in Paths : /\ disk'[p].state = disk[p].state
                          /\ disk'[p].keys = IF p = settings.path /\ ok
                                             THEN settings'.keys ELSE disk[p].keys
      /\ \A j \in Keys : asked'[j] = IF j = k THEN {v} ELSE asked[j]
      /\ \A j \in Keys : expected'[j] = IF Loaded /\ ok /\ asked'[j] # {}
                                        THEN asked'[j] ELSE expected[j]
      /\ paths' = paths /\ UNCHANGED logVars
  <2>1. SetterDid(k, written, v, ok)
    BY ONLY <1>1, SetterEffect, k \in SetterKeys, ok \in BOOLEAN
  <2> QED
    BY ONLY <2>1 DEF SetterDid
<1>3. /\ k \in Keys /\ "log_type" \in Keys /\ "log_level" \in Keys
      /\ k # "log_type" /\ k # "log_level"
  BY DEF SetterKeys, Keys
<1>4. settings.path = PathOf(disk) /\ handler = "prv_handler"
  BY <1>2 DEF SettingsInv, InMemory
<1>5. PathOf(disk)' = PathOf(disk) /\ settings'.path = PathOf(disk)'
  BY <1>2, <1>4 DEF PathOf, Loads, Paths
<1>6. Loaded' <=> Loaded
  BY <1>2 DEF Loaded
<1>7. Loaded => settings.path \in Paths
  BY DEF Loaded, SettingsInv, Shape
<1>8. LogInv' /\ Logs'
  BY <1>2, <1>3 DEF SettingsInv, Logs, LogInv, logVars, LogTypeOK, Idle, InUse,
                    SelectedPrinted
<1>9. Loaded => Same(k, ReadKeys(Default, settings'.keys)[k], v)
  <2>1. ASSUME Loaded
        PROVE  ReadKeys(Default, settings'.keys)[k] = Convert(k, written)
    BY <1>2, <1>3, <2>1 DEF ReadKeys
  <2> QED
    BY <1>1, <2>1
<1>10. \A j \in Keys \ {k} :
           ReadKeys(Default, settings'.keys)[j] = ReadKeys(Default, settings.keys)[j]
  BY <1>2 DEF ReadKeys
<1>11. InMemory'
  <2>1. ASSUME Loaded, NEW j \in Keys, asked'[j] # {}
        PROVE  \E w \in asked'[j] : Same(j, ReadKeys(Default, settings'.keys)[j], w)
    <3>1. CASE j = k
      BY <1>2, <1>9, <2>1, <3>1
    <3>2. CASE j # k
      BY <1>2, <1>10, <2>1, <3>2 DEF SettingsInv, InMemory
    <3> QED
      BY <3>1, <3>2
  <2>2. ASSUME Loaded, NEW j \in Keys, asked'[j] = {}, expected'[j] # {}
        PROVE  settings'.keys[j] = disk'[settings'.path].keys[j]
    <3>1. j # k /\ asked[j] = {} /\ expected[j] # {}
      BY <1>2, <2>2
    <3>2. settings.keys[j] = disk[settings.path].keys[j]
      BY <2>2, <3>1 DEF SettingsInv, InMemory
    <3> QED
      BY <1>2, <1>7, <2>2, <3>1, <3>2
  <2> QED
    BY <1>2, <1>4, <1>5, <1>6, <2>1, <2>2 DEF InMemory, logVars
<1>12. Stored'
  <2>1. CASE Loaded /\ ok
    <3>1. Content(disk)' = settings'.keys
      BY <1>2, <1>4, <1>5, <1>7, <2>1 DEF Content, Loaded
    <3>2. ASSUME NEW j \in Keys, expected'[j] # {}
          PROVE  \E w \in expected'[j] : Same(j, ReadKeys(Default, settings'.keys)[j], w)
      <4>1. CASE asked'[j] # {}
        <5>1. expected'[j] = asked'[j]
          BY <1>2, <2>1, <4>1
        <5> QED
          BY <1>6, <1>11, <2>1, <4>1, <5>1 DEF InMemory
      <4>2. CASE asked'[j] = {}
        <5>1. j # k /\ expected'[j] = expected[j] /\ asked[j] = {}
          BY <1>2, <4>2
        <5>2. settings.keys[j] = Content(disk)[j]
          BY <1>4, <2>1, <3>2, <5>1 DEF SettingsInv, InMemory, Content, Loaded
        <5>3. \E w \in expected[j] : Same(j, ReadKeys(Default, Content(disk))[j], w)
          BY <3>2, <5>1 DEF SettingsInv, Stored
        <5>4. ReadKeys(Default, settings'.keys)[j] = ReadKeys(Default, Content(disk))[j]
          BY <1>10, <5>1, <5>2 DEF ReadKeys
        <5> QED
          BY <5>1, <5>3, <5>4
      <4> QED
        BY <4>1, <4>2
    <3> QED
      BY <3>1, <3>2 DEF Stored
  <2>2. CASE ~(Loaded /\ ok)
    <3>1. Content(disk)' = Content(disk)
      BY <1>2, <1>4, <1>5, <1>7, <2>2 DEF Content, Loaded, PathOf, Paths
    <3>2. \A j \in Keys : expected'[j] = expected[j]
      BY <1>2, <2>2
    <3> QED
      BY <3>1, <3>2 DEF SettingsInv, Stored
  <2> QED
    BY <2>1, <2>2
<1>13. ASSUME settings'.path # "none", NEW j \in Keys,
              settings'.values[j] # settings.values[j]
       PROVE  Same(j, ReadKeys(Default, disk'[settings'.path].keys)[j], settings'.values[j])
  <2>1. Loaded /\ j = k /\ ok /\ settings'.values[j] = v
    BY <1>2, <1>13 DEF Loaded
  <2>2. disk'[settings'.path].keys = settings'.keys
    BY <1>2, <1>7, <2>1
  <2> QED
    BY <1>9, <2>1, <2>2
<1> QED
  BY <1>2, <1>8, <1>11, <1>12, <1>13 DEF SettingsInv

-----------------------------------------------------------------------------
(* The invariant is inductive; a start reads what is expected, and what    *)
(* the accessors show changes to what the file holds.                      *)
LEMMA StepProperties ==
    ASSUME SettingsInv, SettingsStep
    PROVE  /\ SettingsInv'
           /\ ~settings.open /\ settings'.open =>
                  \A k \in Keys : expected[k] # {} =>
                      \E v \in expected[k] : Same(k, settings'.values[k], v)
           /\ settings'.path # "none" =>
                  \A k \in Keys :
                      settings'.values[k] # settings.values[k] =>
                          Same(k, ReadKeys(Default, disk'[settings'.path].keys)[k],
                               settings'.values[k])
<1> DEFINE Starts == ~settings.open /\ settings'.open =>
                         \A k \in Keys : expected[k] # {} =>
                             \E v \in expected[k] : Same(k, settings'.values[k], v)
           Shows == settings'.path # "none" =>
                          \A k \in Keys :
                              settings'.values[k] # settings.values[k] =>
                                  Same(k, ReadKeys(Default, disk'[settings'.path].keys)[k],
                                       settings'.values[k])
<1>1. CASE OpenLog
  <2>1. settings' = settings
    BY <1>1 DEF OpenLog, settingsVars
  <2> QED
    BY <1>1, <2>1, OpenLogStep
<1>2. ASSUME NEW made \in BOOLEAN, NEW copied \in BOOLEAN, New(made, copied)
      PROVE  SettingsInv' /\ Starts /\ Shows
  <2>1. /\ SettingsInv'
        /\ \A k \in Keys : settings'.values[k] = ReadKeys(Default, Content(disk))[k]
        /\ settings'.path # "none" =>
               \A k \in Keys :
                   settings'.values[k] = ReadKeys(Default, disk'[settings'.path].keys)[k]
    BY <1>2, NewStep
  <2>2. Starts
    BY <2>1 DEF SettingsInv, Stored
  <2>3. Shows
    BY <2>1 DEF Same
  <2> QED
    BY <2>1, <2>2, <2>3
<1>3. CASE \/ \E b, ok \in BOOLEAN : SetNeverQuit(b, ok)
           \/ \E b, ok \in BOOLEAN : SetWhiteListEnabled(b, ok)
           \/ \E list, ok : ok \in BOOLEAN /\ SetWhiteListEntries(list, ok)
  <2>1. PICK k, written, v, ok :
            k \in SetterKeys /\ ok \in BOOLEAN /\ Setter(k, written, v, ok)
    BY <1>3, Setters
  <2>2. settings.open
    BY <2>1 DEF Setter, SetKey
  <2> QED
    BY <2>1, <2>2, SetterStep
<1>4. CASE Delete
  <2>1. settings' = NoSettings
    BY <1>4 DEF Delete
  <2> QED
    BY <1>4, <2>1, DeleteStep DEF NoSettings
<1>5. ASSUME NEW p \in Paths, NEW k \in Keys, NEW f \in Files, Edit(p, k, f)
      PROVE  SettingsInv' /\ Starts /\ Shows
  <2>1. settings' = settings
    BY <1>5 DEF Edit
  <2> QED
    BY <1>5, <2>1, EditStep
<1>6. CASE UNCHANGED allSettingsVars
  <2>1. SettingsInv'
    BY <1>6 DEF allSettingsVars, SettingsInv, Shape, LogInv, LogTypeOK, Idle, InUse,
                SelectedPrinted, Logs, Stored, Content, PathOf, Loads, InMemory, Loaded
  <2> QED
    BY <1>6, <2>1 DEF allSettingsVars
<1> QED
  BY <1>1, <1>2, <1>3, <1>4, <1>5, <1>6 DEF SettingsStep

(* The two specifications, of the settings and of a control point's use of *)
(* them.                                                                   *)
LEMMA SettingsInvariant == SettingsSpec \/ WhiteListSpec => []SettingsInv
<1>1. SettingsSpec => []SettingsInv
  <2>1. SettingsInv /\ [SettingsNext]_allSettingsVars => SettingsInv'
    BY SettingsSteps, StepProperties
  <2> QED
    BY <2>1, SettingsInitStep, PTL DEF SettingsSpec
<1>2. WhiteListSpec => []SettingsInv
  <2>1. SettingsInv /\ [WhiteListNext]_allWhiteListVars => SettingsInv'
    BY WhiteListSteps, StepProperties
  <2>2. WhiteListInit => SettingsInv
    BY SettingsInitStep DEF WhiteListInit
  <2> QED
    BY <2>1, <2>2, PTL DEF WhiteListSpec
<1> QED
  BY <1>1, <1>2

(* The daemon logs as its settings say, whatever they are and however      *)
(* often it is started.                                                    *)
THEOREM SettingsReachLog == SettingsSpec \/ WhiteListSpec => []LogFollowsSettings
<1>1. SettingsInv => LogFollowsSettings
  BY DEF SettingsInv, Logs, InMemory, LogFollowsSettings
<1> QED
  BY <1>1, SettingsInvariant, PTL

(* What was saved last is what the next start reads, whichever file that   *)
(* is, and though saves fail and files are copied in between.              *)
THEOREM SettingsSurvive == SettingsSpec \/ WhiteListSpec => RestartKeepsSettings
<1>1. SettingsInv /\ [SettingsNext]_allSettingsVars =>
          [~settings.open /\ settings'.open =>
              \A k \in Keys : expected[k] # {} =>
                  \E v \in expected[k] : Same(k, settings'.values[k], v)]_allSettingsVars
  BY SettingsSteps, StepProperties
<1>2. SettingsInv /\ [WhiteListNext]_allWhiteListVars =>
          [~settings.open /\ settings'.open =>
              \A k \in Keys : expected[k] # {} =>
                  \E v \in expected[k] : Same(k, settings'.values[k], v)]_allSettingsVars
  BY WhiteListSteps, StepProperties
<1> QED
  BY <1>1, <1>2, SettingsInvariant, PTL
  DEF SettingsSpec, WhiteListSpec, RestartKeepsSettings

(* The accessors change only to what the file holds, whatever it held      *)
(* before and whichever saves failed.                                      *)
THEOREM AccessorsShowFile == SettingsSpec \/ WhiteListSpec => AccessorsFollowFile
<1>1. SettingsInv /\ [SettingsNext]_allSettingsVars =>
          [settings'.path # "none" =>
              \A k \in Keys :
                  settings'.values[k] # settings.values[k] =>
                      Same(k, ReadKeys(Default, disk'[settings'.path].keys)[k],
                           settings'.values[k])]_allSettingsVars
  BY SettingsSteps, StepProperties
<1>2. SettingsInv /\ [WhiteListNext]_allWhiteListVars =>
          [settings'.path # "none" =>
              \A k \in Keys :
                  settings'.values[k] # settings.values[k] =>
                      Same(k, ReadKeys(Default, disk'[settings'.path].keys)[k],
                           settings'.values[k])]_allSettingsVars
  BY WhiteListSteps, StepProperties
<1> QED
  BY <1>1, <1>2, SettingsInvariant, PTL
  DEF SettingsSpec, WhiteListSpec, AccessorsFollowFile

-----------------------------------------------------------------------------
(***************************************************************************)
(* Lists: what the loops over them compute.                                *)
(***************************************************************************)
LEMMA EntriesAppend ==
    ASSUME NEW T, NEW s \in Seq(T), NEW x \in T
    PROVE  Append(s, x) \in Seq(T) /\ EntriesOf(Append(s, x)) = EntriesOf(s) \cup {x}
<1> DEFINE n == Len(s)
           t == Append(s, x)
<1>1. n \in Nat /\ DOMAIN s = 1..n
  BY LenProperties
<1>2. t \in Seq(T) /\ DOMAIN t = 1..(n + 1)
  BY AppendProperties, LenProperties
<1>3. t[n + 1] = x /\ \A i \in 1..n : t[i] = s[i]
  BY AppendProperties
<1> HIDE DEF n, t
<1>4. ASSUME NEW y PROVE y \in EntriesOf(t) <=> y \in EntriesOf(s) \cup {x}
  <2>1. ASSUME NEW i \in 1..(n + 1) PROVE t[i] \in EntriesOf(s) \cup {x}
    <3>1. CASE i = n + 1
      BY <1>3, <3>1
    <3>2. CASE i # n + 1
      <4>1. i \in 1..n
        BY <1>1, <3>2
      <4> QED
        BY <1>1, <1>3, <4>1 DEF EntriesOf
    <3> QED
      BY <3>1, <3>2
  <2>2. x \in EntriesOf(t)
    <3>1. n + 1 \in 1..(n + 1)
      BY <1>1
    <3> QED
      BY <1>2, <1>3, <3>1 DEF EntriesOf
  <2>3. ASSUME NEW i \in 1..n PROVE s[i] \in EntriesOf(t)
    <3>1. i \in 1..(n + 1)
      BY <1>1
    <3> QED
      BY <1>2, <1>3, <3>1 DEF EntriesOf
  <2> QED
    BY <1>1, <1>2, <2>1, <2>2, <2>3 DEF EntriesOf
<1>5. EntriesOf(t) = EntriesOf(s) \cup {x}
  BY <1>4
<1> QED
  BY <1>2, <1>5 DEF t

LEMMA EntriesConcat ==
    ASSUME NEW T, NEW s \in Seq(T), NEW r \in Seq(T)
    PROVE  s \o r \in Seq(T) /\ EntriesOf(s \o r) = EntriesOf(s) \cup EntriesOf(r)
<1> DEFINE m == Len(s)
           n == Len(r)
           t == s \o r
<1>1. m \in Nat /\ n \in Nat /\ DOMAIN s = 1..m /\ DOMAIN r = 1..n
  BY LenProperties
<1>2. t \in Seq(T) /\ DOMAIN t = 1..(m + n)
  BY ConcatProperties, LenProperties
<1>3. \A i \in 1..(m + n) : t[i] = IF i <= m THEN s[i] ELSE r[i - m]
  BY ConcatProperties
<1> HIDE DEF m, n, t
<1>4. ASSUME NEW i \in 1..(m + n) PROVE t[i] \in EntriesOf(s) \cup EntriesOf(r)
  <2>1. CASE i <= m
    <3>1. i \in 1..m
      BY <1>1, <2>1
    <3> QED
      BY <1>1, <1>3, <2>1, <3>1 DEF EntriesOf
  <2>2. CASE ~(i <= m)
    <3>1. i - m \in 1..n
      BY <1>1, <2>2
    <3> QED
      BY <1>1, <1>3, <2>2, <3>1 DEF EntriesOf
  <2> QED
    BY <2>1, <2>2
<1>5. ASSUME NEW i \in 1..m PROVE s[i] \in EntriesOf(t)
  <2>1. i \in 1..(m + n) /\ i <= m
    BY <1>1
  <2> QED
    BY <1>2, <1>3, <2>1 DEF EntriesOf
<1>6. ASSUME NEW i \in 1..n PROVE r[i] \in EntriesOf(t)
  <2>1. i + m \in 1..(m + n) /\ ~(i + m <= m) /\ (i + m) - m = i
    BY <1>1
  <2>2. t[i + m] = r[i]
    BY <1>3, <2>1
  <2> QED
    BY <1>2, <2>1, <2>2 DEF EntriesOf
<1>7. EntriesOf(t) \subseteq EntriesOf(s) \cup EntriesOf(r)
  BY <1>2, <1>4 DEF EntriesOf
<1>8. EntriesOf(s) \subseteq EntriesOf(t) /\ EntriesOf(r) \subseteq EntriesOf(t)
  BY <1>1, <1>5, <1>6 DEF EntriesOf
<1>9. EntriesOf(t) = EntriesOf(s) \cup EntriesOf(r)
  BY <1>7, <1>8
<1> QED
  BY <1>2, <1>9 DEF t

(* f is what Without has kept after each of the entries.                   *)
Keeps(list, e, f) ==
    /\ f[0] = <<>>
    /\ \A i \in 1..Len(list) :
           f[i] = IF list[i] = e THEN f[i - 1] ELSE Append(f[i - 1], list[i])

LEMMA WithoutKeeps ==
    ASSUME NEW T, NEW list \in Seq(T), NEW e
    PROVE  \E f : Keeps(list, e, f) /\ Without(list, e) = f[Len(list)]
<1> DEFINE N == Len(list)
           Next1(i, s) == IF list[i] = e THEN s ELSE Append(s, list[i])
           step == [x \in (1..N) \X Seq(T) |-> Next1(x[1], x[2])]
<1>1. N \in Nat /\ \A i \in 1..N : list[i] \in T
  BY LenProperties, ElementOfSeq
<1>2. <<>> \in Seq(T)
  BY EmptySeq
<1>3. step \in [(1..N) \X Seq(T) -> Seq(T)]
  <2>1. ASSUME NEW i \in 1..N, NEW s \in Seq(T) PROVE Next1(i, s) \in Seq(T)
    <3>1. list[i] \in T /\ Append(s, list[i]) \in Seq(T)
      BY <1>1, AppendProperties
    <3> QED
      BY <3>1
  <2> HIDE DEF N, Next1
  <2> QED
    BY <2>1
<1> HIDE DEF Next1
<1>4. PICK f \in [0..N -> Seq(T)] : Follows(f, N, <<>>, step)
  <2> HIDE DEF N, step
  <2> QED
    BY <1>1, <1>2, <1>3, Recursion
<1>5. ASSUME NEW i \in 1..N PROVE f[i] = Next1(i, f[i - 1])
  <2>1. f[i - 1] \in Seq(T)
    <3>1. i - 1 \in 0..N
      BY <1>1
    <3> QED
      BY ONLY <1>4, <3>1
  <2>2. step[<<i, f[i - 1]>>] = Next1(i, f[i - 1])
    BY <2>1
  <2> HIDE DEF step
  <2> QED
    BY <1>4, <2>2 DEF Follows
<1> HIDE DEF step
<1>6. f = [i \in 0..N |-> IF i = 0 THEN <<>> ELSE
                             IF list[i] = e THEN f[i - 1] ELSE Append(f[i - 1], list[i])]
  <2> HIDE DEF N
  <2>1. ASSUME NEW i \in 0..N
        PROVE  f[i] = IF i = 0 THEN <<>> ELSE
                      IF list[i] = e THEN f[i - 1] ELSE Append(f[i - 1], list[i])
    <3>1. CASE i = 0
      BY <1>4, <3>1 DEF Follows
    <3>2. CASE i # 0
      <4>1. i \in 1..N
        BY <1>1, <3>2
      <4>2. f[i] = Next1(i, f[i - 1])
        BY <1>5, <4>1
      <4> QED
        BY <3>2, <4>2 DEF Next1
    <3> QED
      BY <3>1, <3>2
  <2> QED
    BY <1>4, <2>1
<1> DEFINE kept[i \in 0..N] ==
               IF i = 0 THEN <<>> ELSE
               IF list[i] = e THEN kept[i - 1] ELSE Append(kept[i - 1], list[i])
<1>7. kept = [i \in 0..N |-> IF i = 0 THEN <<>> ELSE
                  IF list[i] = e THEN kept[i - 1] ELSE Append(kept[i - 1], list[i])]
  <2> HIDE DEF N
  <2> QED
    BY <1>6
<1>8. Without(list, e) = kept[N]
  BY DEF Without
<1>9. 0 \in 0..N /\ \A i \in 1..N : i \in 0..N /\ i # 0
  BY <1>1
<1> HIDE DEF kept
<1>10. Keeps(list, e, kept)
  BY <1>7, <1>9 DEF Keeps
<1> QED
  BY <1>8, <1>10

(* What is kept is what is not e.                                          *)
LEMMA WithoutProperties ==
    ASSUME NEW T, NEW list \in Seq(T), NEW e
    PROVE  Without(list, e) \in Seq(T) /\ EntriesOf(Without(list, e)) = EntriesOf(list) \ {e}
<1>1. PICK f : Keeps(list, e, f) /\ Without(list, e) = f[Len(list)]
  BY WithoutKeeps
<1> DEFINE N == Len(list)
           Upto(i) == {list[j] : j \in 1..i}
           Good(i) == f[i] \in Seq(T) /\ EntriesOf(f[i]) = Upto(i) \ {e}
           S == {i \in 0..N : Good(i)}
<1>2. N \in Nat /\ DOMAIN list = 1..N /\ \A i \in 1..N : list[i] \in T
  BY LenProperties, ElementOfSeq
<1>3. 0 \in S
  <2>1. f[0] = <<>> /\ f[0] \in Seq(T)
    BY <1>1, EmptySeq DEF Keeps
  <2>2. DOMAIN f[0] = {} /\ Upto(0) = {}
    <3>1. Len(f[0]) = 0
      BY <2>1
    <3>2. DOMAIN f[0] = 1..0
      BY <2>1, <3>1, LenProperties
    <3> QED
      BY <3>2
  <2>3. EntriesOf(f[0]) = Upto(0) \ {e}
    BY <2>2 DEF EntriesOf
  <2>4. 0 \in 0..N
    BY <1>2
  <2> HIDE DEF N, Upto
  <2> QED
    BY <2>1, <2>3, <2>4
<1>4. ASSUME NEW i \in 1..N, i - 1 \in S PROVE i \in S
  <2>1. i \in 0..N /\ i - 1 \in 0..N
    BY <1>2
  <2>2. Upto(i) = Upto(i - 1) \cup {list[i]}
    <3>1. 1..i = (1..(i - 1)) \cup {i}
      BY <1>2
    <3> QED
      BY <3>1
  <2>3. Good(i - 1)
    BY <1>4
  <2>4. f[i] = IF list[i] = e THEN f[i - 1] ELSE Append(f[i - 1], list[i])
    BY <1>1 DEF Keeps
  <2> HIDE DEF Upto
  <2>5. CASE list[i] = e
    BY <2>1, <2>2, <2>3, <2>4, <2>5
  <2>6. CASE list[i] # e
    <3>1. /\ Append(f[i - 1], list[i]) \in Seq(T)
          /\ EntriesOf(Append(f[i - 1], list[i])) = EntriesOf(f[i - 1]) \cup {list[i]}
      BY <1>2, <2>3, EntriesAppend
    <3> QED
      BY <2>1, <2>2, <2>3, <2>4, <2>6, <3>1
  <2> QED
    BY <2>5, <2>6
<1>5. Good(N)
  <2>1. 0..N \subseteq S
    <3> HIDE DEF S, N
    <3> QED
      BY <1>2, <1>3, <1>4, IntervalInduction
  <2>2. N \in 0..N
    BY <1>2
  <2> QED
    BY <2>1, <2>2
<1>6. Upto(N) = EntriesOf(list)
  BY <1>2 DEF EntriesOf
<1> QED
  BY <1>1, <1>5, <1>6

-----------------------------------------------------------------------------
(* The same of the loop of prv_to_log_level.                               *)
Scans == [levels : SUBSET Levels, left : BOOLEAN]

LEMMA LevelsOfNumber == \A n \in 0..8 : LevelsOf(n) \in SUBSET Levels
<1>1. /\ LevelArray[1] = "error" /\ LevelArray[2] = "critical" /\ LevelArray[3] = "warning"
      /\ LevelArray[4] = "message" /\ LevelArray[5] = "info" /\ LevelArray[6] = "debug"
  BY DEF LevelArray
<1> TAKE n \in 0..8
<1>2. n = 0 \/ n = 7 \/ n = 8 \/ n = 1 \/ n = 2 \/ n = 3 \/ n = 4 \/ n = 5 \/ n = 6
  OBVIOUS
<1>3. CASE n = 0 \/ n = 7 \/ n = 8
  BY <1>3 DEF LevelsOf, Levels
<1>4. CASE n = 1 \/ n = 2 \/ n = 3 \/ n = 4 \/ n = 5 \/ n = 6
  <2>1. LevelsOf(n) = {LevelArray[n]}
    BY <1>4 DEF LevelsOf
  <2> QED
    BY <1>1, <1>4, <2>1 DEF Levels
<1> QED
  BY <1>2, <1>3, <1>4

LEMMA TakeLevelTyped ==
    ASSUME NEW s \in Scans, NEW n
    PROVE  TakeLevel(s, n) \in Scans
<1>1. CASE s.left \/ n \notin 0..8
  BY <1>1 DEF TakeLevel
<1>2. CASE ~(s.left \/ n \notin 0..8)
  <2>1. LevelsOf(n) \in SUBSET Levels
    BY <1>2, LevelsOfNumber
  <2>2. CASE n \in 1..6
    <3>1. TakeLevel(s, n) = [s EXCEPT !.levels = @ \cup LevelsOf(n)]
      BY <1>2, <2>2 DEF TakeLevel
    <3> QED
      BY <2>1, <3>1 DEF Scans
  <2>3. CASE n \notin 1..6
    <3>1. TakeLevel(s, n) = [levels |-> LevelsOf(n), left |-> TRUE]
      BY <1>2, <2>3 DEF TakeLevel
    <3> QED
      BY <2>1, <3>1 DEF Scans
  <2> QED
    BY <2>2, <2>3
<1> QED
  BY <1>1, <1>2

(* f is the loop of prv_to_log_level after each of the numbers.            *)
ScansList(list, f) ==
    /\ f[0] = NoLevels
    /\ \A i \in 1..Len(list) : f[i] = TakeLevel(f[i - 1], list[i])

LEMMA ToLogLevelScans ==
    ASSUME NEW list \in Seq(Int)
    PROVE  \E f \in [0..Len(list) -> Scans] :
               ScansList(list, f) /\ ToLogLevel(list) = f[Len(list)].levels
<1> DEFINE N == Len(list)
           step == [x \in (1..N) \X Scans |-> TakeLevel(x[2], list[x[1]])]
<1>1. N \in Nat
  BY LenProperties
<1>2. NoLevels \in Scans
  BY DEF NoLevels, Scans
<1>3. step \in [(1..N) \X Scans -> Scans]
  <2> HIDE DEF N
  <2> QED
    BY TakeLevelTyped
<1>4. PICK f \in [0..N -> Scans] : Follows(f, N, NoLevels, step)
  <2> HIDE DEF N, step
  <2> QED
    BY <1>1, <1>2, <1>3, Recursion
<1>5. ASSUME NEW i \in 1..N PROVE f[i] = TakeLevel(f[i - 1], list[i])
  <2>1. f[i - 1] \in Scans
    <3>1. i - 1 \in 0..N
      BY <1>1
    <3> QED
      BY ONLY <1>4, <3>1
  <2>2. step[<<i, f[i - 1]>>] = TakeLevel(f[i - 1], list[i])
    BY <2>1
  <2> HIDE DEF step
  <2> QED
    BY <1>4, <2>2 DEF Follows
<1> HIDE DEF step
<1>6. f = [i \in 0..N |-> IF i = 0 THEN NoLevels ELSE TakeLevel(f[i - 1], list[i])]
  <2> HIDE DEF N
  <2>1. ASSUME NEW i \in 0..N
        PROVE  f[i] = IF i = 0 THEN NoLevels ELSE TakeLevel(f[i - 1], list[i])
    BY <1>1, <1>4, <1>5 DEF Follows
  <2> QED
    BY <1>4, <2>1
<1> DEFINE scan[i \in 0..N] == IF i = 0 THEN NoLevels ELSE TakeLevel(scan[i - 1], list[i])
<1>7. scan = [i \in 0..N |-> IF i = 0 THEN NoLevels ELSE TakeLevel(scan[i - 1], list[i])]
  <2> HIDE DEF N
  <2> QED
    BY <1>6
<1>8. ToLogLevel(list) = scan[N].levels
  BY DEF ToLogLevel
<1>9. 0 \in 0..N /\ \A i \in 1..N : i \in 0..N /\ i # 0
  BY <1>1
<1> HIDE DEF scan
<1>10. ScansList(list, scan)
  BY <1>7, <1>9 DEF ScansList
<1>11. scan \in [0..N -> Scans]
  <2> DEFINE S == {i \in 0..N : scan[i] \in Scans}
  <2>1. 0 \in S
    BY <1>2, <1>7, <1>9
  <2>2. ASSUME NEW i \in 1..N, i - 1 \in S PROVE i \in S
    BY <1>9, <1>10, <2>2, TakeLevelTyped DEF ScansList
  <2>3. 0..N \subseteq S
    <3> HIDE DEF S, N
    <3> QED
      BY <1>1, <2>1, <2>2, IntervalInduction
  <2> HIDE DEF N
  <2> QED
    BY <1>7, <2>3
<1> QED
  BY <1>8, <1>10, <1>11

(* What prv_to_log_level makes of a list: its first single value if there  *)
(* is one, the levels of the other numbers together if not.                *)
Single(list) == {i \in DOMAIN list : list[i] \in {0, 7, 8}}

FirstOf(list) == CHOOSE i \in Single(list) : \A j \in Single(list) : i <= j

LevelsWanted(list) ==
    IF Single(list) # {} THEN LevelsOf(list[FirstOf(list)])
    ELSE UNION {LevelsOf(n) : n \in {list[i] : i \in DOMAIN list} \cap 1..6}

LEMMA ToLogLevelProperties ==
    ASSUME NEW list \in Seq(Int)
    PROVE  ToLogLevel(list) \in SUBSET Levels /\ ToLogLevel(list) = LevelsWanted(list)
<1>1. PICK f \in [0..Len(list) -> Scans] :
          ScansList(list, f) /\ ToLogLevel(list) = f[Len(list)].levels
  BY ToLogLevelScans
<1> DEFINE N == Len(list)
           IsSingle(j) == list[j] \in {0, 7, 8}
           IsFirst(j) == IsSingle(j) /\ \A m \in 1..(j - 1) : ~IsSingle(m)
           Union(i) == UNION {LevelsOf(list[j]) : j \in {m \in 1..i : list[m] \in 1..6}}
           Left(i) == f[i].left /\ \E j \in 1..i : IsFirst(j) /\ f[i].levels = LevelsOf(list[j])
           Going(i) == /\ ~f[i].left /\ f[i].levels = Union(i)
                       /\ \A j \in 1..i : ~IsSingle(j)
           S == {i \in 0..N : Left(i) \/ Going(i)}
<1>2. N \in Nat /\ DOMAIN list = 1..N /\ \A i \in 1..N : list[i] \in Int
  BY LenProperties, ElementOfSeq
<1>3. 0 \in S
  <2>1. f[0] = NoLevels /\ 0 \in 0..N
    BY <1>1, <1>2 DEF ScansList
  <2>2. 1..0 = {}
    OBVIOUS
  <2>3. Union(0) = {}
    BY <2>2
  <2>4. Going(0)
    BY <2>1, <2>2, <2>3 DEF NoLevels
  <2> QED
    BY <2>1, <2>4
<1>4. ASSUME NEW i \in 1..N, i - 1 \in S PROVE i \in S
  <2> DEFINE n == list[i]
             s == f[i - 1]
  <2>1. i \in 0..N /\ n \in Int /\ 1..i = (1..(i - 1)) \cup {i} /\ i \in 1..i
    BY <1>2
  <2>2. f[i] = TakeLevel(s, n)
    BY <1>1 DEF ScansList
  <2>3. s \in Scans
    <3>1. i - 1 \in 0..N
      BY <1>2
    <3> QED
      BY ONLY <1>1, <3>1
  <2>4. Left(i - 1) \/ Going(i - 1)
    BY <1>4
  <2>5. Union(i) = Union(i - 1) \cup (IF n \in 1..6 THEN LevelsOf(n) ELSE {})
    <3>1. {m \in 1..i : list[m] \in 1..6} =
              {m \in 1..(i - 1) : list[m] \in 1..6} \cup (IF n \in 1..6 THEN {i} ELSE {})
      BY <2>1
    <3> QED
      BY <3>1
  <2> HIDE DEF Union
  <2>6. CASE Left(i - 1)
    <3>1. f[i] = s
      BY <2>2, <2>6 DEF TakeLevel
    <3>2. PICK j \in 1..(i - 1) : IsFirst(j) /\ s.levels = LevelsOf(list[j])
      BY <2>6
    <3>3. j \in 1..i
      BY <2>1
    <3> HIDE DEF IsFirst
    <3>4. Left(i)
      BY <2>6, <3>1, <3>2, <3>3
    <3> QED
      BY <2>1, <3>4
  <2>7. CASE Going(i - 1)
    <3>1. ~s.left /\ s.levels = Union(i - 1) /\ \A j \in 1..(i - 1) : ~IsSingle(j)
      BY <2>7
    <3>2. CASE n \in {0, 7, 8}
      <4>1. f[i] = [levels |-> LevelsOf(n), left |-> TRUE]
        <5>1. n \in 0..8 /\ n \notin 1..6
          BY <3>2
        <5> QED
          BY <2>2, <3>1, <5>1 DEF TakeLevel
      <4>2. IsFirst(i)
        BY <3>1, <3>2
      <4> HIDE DEF IsFirst
      <4>3. Left(i)
        BY <2>1, <4>1, <4>2
      <4> QED
        BY <2>1, <4>3
    <3>3. CASE n \in 1..6
      <4>1. f[i] = [s EXCEPT !.levels = @ \cup LevelsOf(n)]
        <5>1. n \in 0..8
          BY <3>3
        <5> QED
          BY <2>2, <3>1, <3>3, <5>1 DEF TakeLevel
      <4>2. ~f[i].left /\ f[i].levels = Union(i)
        BY <2>3, <2>5, <3>1, <3>3, <4>1 DEF Scans
      <4>3. ~IsSingle(i)
        BY <3>3
      <4>4. \A j \in 1..i : ~IsSingle(j)
        BY <2>1, <3>1, <4>3
      <4> QED
        BY <2>1, <4>2, <4>4
    <3>4. CASE n \notin {0, 7, 8} /\ n \notin 1..6
      <4>1. n \notin 0..8
        BY <2>1, <3>4
      <4>2. f[i] = s
        BY <2>2, <4>1 DEF TakeLevel
      <4>3. \A j \in 1..i : ~IsSingle(j)
        BY <2>1, <3>1, <3>4
      <4> QED
        BY <2>1, <2>5, <3>1, <3>4, <4>2, <4>3
    <3> QED
      BY <3>2, <3>3, <3>4
  <2> QED
    BY <2>4, <2>6, <2>7
<1>5. Left(N) \/ Going(N)
  <2>1. 0..N \subseteq S
    <3> HIDE DEF S, N
    <3> QED
      BY <1>2, <1>3, <1>4, IntervalInduction
  <2>2. N \in 0..N
    BY <1>2
  <2> QED
    BY <2>1, <2>2
<1>6. ASSUME Left(N) PROVE ToLogLevel(list) = LevelsWanted(list)
  <2>1. PICK j \in 1..N : IsFirst(j) /\ f[N].levels = LevelsOf(list[j])
    BY <1>6
  <2>2. j \in Single(list) /\ \A m \in Single(list) : j <= m
    BY <1>2, <2>1 DEF Single
  <2>3. FirstOf(list) = j
    <3>1. \A m \in Single(list) : (\A k \in Single(list) : m <= k) => m = j
      BY <1>2, <2>2 DEF Single
    <3> HIDE DEF IsFirst
    <3> QED
      BY <2>2, <3>1 DEF FirstOf
  <2> QED
    BY <1>1, <2>1, <2>2, <2>3 DEF LevelsWanted
<1>7. ASSUME Going(N) PROVE ToLogLevel(list) = LevelsWanted(list)
  <2>1. Single(list) = {}
    BY <1>2, <1>7 DEF Single
  <2>2. f[N].levels = UNION {LevelsOf(n) : n \in {list[i] : i \in DOMAIN list} \cap 1..6}
    <3>1. f[N].levels = Union(N)
      BY <1>7
    <3> QED
      BY <1>2, <3>1
  <2> QED
    BY <1>1, <2>1, <2>2 DEF LevelsWanted
<1>8. f[N].levels \in SUBSET Levels
  <2>1. N \in 0..N
    BY <1>2
  <2> QED
    BY <1>1, <2>1 DEF Scans
<1> QED
  BY <1>1, <1>5, <1>6, <1>7, <1>8

-----------------------------------------------------------------------------
(***************************************************************************)
(* Types.  A control point sets lists that it computed from those shown.   *)
(***************************************************************************)
TypedSetter ==
    \/ \E b, ok \in BOOLEAN : SetNeverQuit(b, ok)
    \/ \E b, ok \in BOOLEAN : SetWhiteListEnabled(b, ok)
    \/ \E list \in Seq(Networks), ok \in BOOLEAN : SetWhiteListEntries(list, ok)

TypedStep ==
    \/ OpenLog
    \/ \E made, copied \in BOOLEAN : New(made, copied)
    \/ TypedSetter
    \/ Delete
    \/ \E p \in Paths, k \in Keys, f \in Files : Edit(p, k, f)
    \/ UNCHANGED allSettingsVars

LEMMA SettingsTypedSteps == [SettingsNext]_allSettingsVars => TypedStep
<1> SUFFICES ASSUME [SettingsNext]_allSettingsVars PROVE TypedStep
  OBVIOUS
<1>1. Lists \subseteq Seq(Networks)
  BY SettingsAssumption
<1> QED
  BY <1>1 DEF SettingsNext, TypedStep, TypedSetter

LEMMA WhiteListTypedSteps ==
    ASSUME SettingsTypeOK, [WhiteListNext]_allWhiteListVars
    PROVE  TypedStep
<1>1. Lists \subseteq Seq(Networks)
  BY SettingsAssumption
<1>2. settings.values["netf_list"] \in Seq(Networks)
  BY DEF SettingsTypeOK, Keys, ValueType, KeyType
<1>3. ASSUME NEW list \in Lists, NEW ok \in BOOLEAN, Replace(list, ok)
      PROVE  TypedStep
  <2>1. SetWhiteListEntries(list, ok) /\ list \in Seq(Networks)
    BY <1>1, <1>3 DEF Replace
  <2> QED
    BY <2>1 DEF TypedStep, TypedSetter
<1>4. ASSUME NEW list \in Lists, NEW ok \in BOOLEAN, Allow(list, ok)
      PROVE  TypedStep
  <2>1. settings.values["netf_list"] \o list \in Seq(Networks)
    BY <1>1, <1>2, EntriesConcat
  <2>2. SetWhiteListEntries(settings.values["netf_list"] \o list, ok)
    BY <1>4 DEF Allow
  <2> QED
    BY <2>1, <2>2 DEF TypedStep, TypedSetter
<1>5. ASSUME NEW e \in Entries, NEW ok \in BOOLEAN, Revoke(e, ok)
      PROVE  TypedStep
  <2>1. Without(settings.values["netf_list"], e) \in Seq(Networks)
    BY <1>2, WithoutProperties
  <2>2. SetWhiteListEntries(Without(settings.values["netf_list"], e), ok)
    BY <1>5 DEF Revoke
  <2> QED
    BY <2>1, <2>2 DEF TypedStep, TypedSetter
<1>6. CASE Unfollowed
  BY <1>6 DEF Unfollowed, TypedStep, TypedSetter
<1>7. CASE \E b, ok \in BOOLEAN : ChangeEnabled(b, ok)
  BY <1>7 DEF ChangeEnabled, TypedStep, TypedSetter
<1>8. CASE WhiteListDelete
  BY <1>8 DEF WhiteListDelete, TypedStep
<1>9. CASE \/ \E gupnp \in BOOLEAN : Fill(gupnp)
           \/ UNCHANGED allWhiteListVars
  <2>1. UNCHANGED allSettingsVars
    BY <1>9 DEF Fill, allWhiteListVars, allSettingsVars, settingsVars, logVars
  <2> QED
    BY <2>1 DEF TypedStep
<1> QED
  BY <1>3, <1>4, <1>5, <1>6, <1>7, <1>8, <1>9 DEF WhiteListNext

(* What is read has the type that the settings keep.                       *)
LEMMA ConvertTyped ==
    ASSUME NEW k \in Keys, NEW v \in KeyType(k)
    PROVE  Convert(k, v) \in ValueType(k)
<1>1. CASE k \in {"port", "push_host_port"}
  <2>1. v \in Int /\ MaxGuint \in Nat
    BY <1>1, SettingsAssumption DEF KeyType
  <2>2. v % (MaxGuint + 1) \in 0..MaxGuint
    BY <2>1
  <2>3. Convert(k, v) = v % (MaxGuint + 1)
    BY <1>1 DEF Convert, Guint
  <2>4. ValueType(k) = 0..MaxGuint
    BY <1>1 DEF ValueType
  <2> QED
    BY <2>2, <2>3, <2>4
<1>2. CASE k = "log_type"
  BY <1>2 DEF Convert, ToLogType, ValueType, LogTypes
<1>3. CASE k = "log_level"
  <2>1. v \in Seq(Int)
    BY <1>3 DEF KeyType
  <2>2. ToLogLevel(v) \in SUBSET Levels
    BY <2>1, ToLogLevelProperties
  <2> QED
    BY <1>3, <2>2 DEF Convert, ValueType
<1>4. CASE k \notin {"port", "push_host_port", "log_type", "log_level"}
  BY <1>4 DEF Convert, ValueType
<1> QED
  BY <1>1, <1>2, <1>3, <1>4

LEMMA ReadTyped ==
    ASSUME NEW f, Keyfile(f), NEW k \in Keys
    PROVE  ReadKeys(Default, f)[k] \in ValueType(k)
<1>1. f[k] \in Seq(KeyType(k)) /\ Len(f[k]) <= 1
  BY DEF Keyfile
<1>2. CASE f[k] = <<>>
  BY <1>2, SettingsAssumption DEF ReadKeys
<1>3. CASE f[k] # <<>>
  <2>1. 1 \in 1..Len(f[k])
    BY <1>1, <1>3, EmptySeq
  <2>2. f[k][1] \in KeyType(k)
    BY <1>1, <2>1, ElementOfSeq
  <2>3. ReadKeys(Default, f)[k] = Convert(k, f[k][1])
    BY <1>3 DEF ReadKeys
  <2> QED
    BY <2>2, <2>3, ConvertTyped
<1> QED
  BY <1>2, <1>3

LEMMA NoKeysTyped == Keyfile(NoKeys)
<1>1. ASSUME NEW k \in Keys PROVE NoKeys[k] \in Seq(KeyType(k)) /\ Len(NoKeys[k]) <= 1
  <2>1. NoKeys[k] = <<>>
    BY DEF NoKeys
  <2>2. <<>> \in Seq(KeyType(k)) /\ Len(<<>>) = 0
    BY EmptySeq
  <2> QED
    BY <2>1, <2>2
<1> QED
  BY <1>1 DEF Keyfile, NoKeys

LEMMA OneTyped ==
    ASSUME NEW T, NEW x \in T
    PROVE  <<x>> \in Seq(T) /\ Len(<<x>>) <= 1
OBVIOUS

(* A value that no setter changes is the one that was read.                *)
Unset ==
    Loaded => \A k \in Keys \ SetterKeys :
                  settings.values[k] = ReadKeys(Default, settings.keys)[k]

TypedInv == SettingsInv /\ SettingsTypeOK /\ Unset

LEMMA TypedInitStep == SettingsInit => TypedInv
<1> SUFFICES ASSUME SettingsInit PROVE TypedInv
  OBVIOUS
<1>1. SettingsInv
  BY SettingsInitStep
<1>2. settings = NoSettings
  BY DEF SettingsInit
<1>3. LogTypeOK
  BY <1>1 DEF SettingsInv, LogInv
<1>4. ASSUME NEW p \in Paths
      PROVE  disk[p].state \in {"absent", "malformed", "good"} /\ Keyfile(disk[p].keys)
  <2>1. \/ disk[p] \in {NoFile, [NoFile EXCEPT !.state = "malformed"]}
        \/ disk[p] \in [state : {"good"}, keys : Files]
    BY <1>4 DEF SettingsInit
  <2>2. CASE disk[p] \in [state : {"good"}, keys : Files]
    BY <2>2, SettingsAssumption
  <2>3. CASE disk[p] \in {NoFile, [NoFile EXCEPT !.state = "malformed"]}
    <3>1. disk[p].state \in {"absent", "malformed"} /\ disk[p].keys = NoKeys
      BY <2>3 DEF NoFile
    <3> QED
      BY <3>1, NoKeysTyped
  <2> QED
    BY <2>1, <2>2, <2>3
<1>5. /\ settings.open = FALSE /\ settings.path = "none"
      /\ settings.keys = NoKeys /\ settings.values = Default
  BY <1>2 DEF NoSettings
<1>6. paths \subseteq Paths /\ localDir \in BOOLEAN /\ edits \in 0..MaxEdits
  BY SettingsAssumption DEF SettingsInit
<1>7. SettingsTypeOK
  BY ONLY <1>3, <1>4, <1>5, <1>6, NoKeysTyped, SettingsAssumption DEF SettingsTypeOK
<1> QED
  BY <1>1, <1>5, <1>7 DEF TypedInv, Unset, Loaded

(* The files and the settings are typed, the rest is.                      *)
LEMMA TypedParts ==
    ASSUME SettingsTypeOK
    PROVE  /\ \A p \in Paths : /\ disk[p].state \in {"absent", "malformed", "good"}
                               /\ Keyfile(disk[p].keys)
           /\ settings.path \in paths \cup {"none"}
           /\ Keyfile(settings.keys)
           /\ \A k \in Keys : settings.values[k] \in ValueType(k)
           /\ paths \subseteq Paths /\ localDir \in BOOLEAN /\ edits \in 0..MaxEdits
BY DEF SettingsTypeOK

LEMMA TypedSetterStep ==
    ASSUME TypedInv, SettingsInv', TypedSetter
    PROVE  TypedInv'
<1>1. PICK k, written, v, ok :
          /\ k \in SetterKeys /\ ok \in BOOLEAN /\ SetKey(k, written, v, ok)
          /\ written \in KeyType(k) /\ v \in KeyType(k)
  <2>1. ASSUME NEW b \in BOOLEAN, NEW ok \in BOOLEAN, SetNeverQuit(b, ok)
        PROVE  /\ "never_quit" \in SetterKeys /\ SetKey("never_quit", b, b, ok)
               /\ b \in KeyType("never_quit")
    BY <2>1 DEF SetNeverQuit, SetterKeys, KeyType
  <2>2. ASSUME NEW b \in BOOLEAN, NEW ok \in BOOLEAN, SetWhiteListEnabled(b, ok)
        PROVE  /\ "netf_enabled" \in SetterKeys /\ SetKey("netf_enabled", b, b, ok)
               /\ b \in KeyType("netf_enabled")
    BY <2>2 DEF SetWhiteListEnabled, SetterKeys, KeyType
  <2>3. ASSUME NEW list \in Seq(Networks), NEW ok \in BOOLEAN, SetWhiteListEntries(list, ok)
        PROVE  /\ "netf_list" \in SetterKeys
               /\ SetKey("netf_list", Shown("netf_list", list), list, ok)
               /\ Shown("netf_list", list) \in KeyType("netf_list")
               /\ list \in KeyType("netf_list")
    <3>1. Shown("netf_list", list) \in Seq(Networks)
      BY WithoutProperties DEF Shown
    <3>2. KeyType("netf_list") = Seq(Networks)
      BY DEF KeyType
    <3> QED
      BY <2>3, <3>1, <3>2 DEF SetWhiteListEntries, SetterKeys
  <2> QED
    BY <2>1, <2>2, <2>3 DEF TypedSetter
<1>2. Shape /\ SetKey(k, written, v, ok)
  BY <1>1 DEF TypedInv, SettingsInv
<1>3. /\ Shape'
      /\ settings'.open /\ settings'.path = settings.path
      /\ \A j \in Keys : settings'.keys[j] = IF j # k THEN settings.keys[j]
                                            ELSE IF Loaded THEN <<written>> ELSE <<>>
      /\ \A j \in Keys : settings'.values[j] = IF j = k /\ ok THEN v ELSE settings.values[j]
      /\ \A p \in Paths : /\ disk'[p].state = disk[p].state
                          /\ disk'[p].keys = IF p = settings.path /\ ok
                                             THEN settings'.keys ELSE disk[p].keys
      /\ paths' = paths
  <2>1. k \in SetterKeys /\ ok \in BOOLEAN
    BY <1>1
  <2>2. SetterDid(k, written, v, ok)
    BY ONLY <1>2, <2>1, SetterEffect
  <2> QED
    BY ONLY <2>2 DEF SetterDid
<1>4. localDir' = localDir /\ edits' = edits
  BY <1>1 DEF SetKey
<1>5. SettingsTypeOK
  BY DEF TypedInv
<1>6. Keyfile(settings'.keys)
  <2>1. ASSUME NEW j \in Keys
        PROVE  settings'.keys[j] \in Seq(KeyType(j)) /\ Len(settings'.keys[j]) <= 1
    <3>1. CASE j # k
      BY <1>3, <1>5, <3>1, TypedParts DEF Keyfile
    <3>2. CASE j = k /\ Loaded
      <4>1. settings'.keys[j] = <<written>> /\ written \in KeyType(j)
        BY <1>1, <1>3, <3>2
      <4> QED
        BY <4>1, OneTyped
    <3>3. CASE j = k /\ ~Loaded
      <4>1. settings'.keys[j] = <<>>
        BY <1>3, <3>3
      <4>2. <<>> \in Seq(KeyType(j)) /\ Len(<<>>) = 0
        BY EmptySeq
      <4> QED
        BY <4>1, <4>2
    <3> QED
      BY <3>1, <3>2, <3>3
  <2> QED
    BY <1>3, <2>1 DEF Keyfile, Shape
<1>7. \A j \in Keys : settings'.values[j] \in ValueType(j)
  <2>1. ValueType(k) = KeyType(k)
    BY <1>1 DEF SetterKeys, ValueType
  <2> QED
    BY <1>1, <1>3, <1>5, <2>1, TypedParts
<1>8. \A p \in Paths : /\ disk'[p].state \in {"absent", "malformed", "good"}
                      /\ Keyfile(disk'[p].keys)
  BY <1>3, <1>5, <1>6, TypedParts
<1>9. LogTypeOK'
  BY DEF SettingsInv, LogInv
<1>10. SettingsTypeOK'
  BY ONLY <1>3, <1>4, <1>5, <1>6, <1>7, <1>8, <1>9, TypedParts DEF SettingsTypeOK, Shape
<1>11. Unset'
  <2>1. Loaded' <=> Loaded
    BY <1>3 DEF Loaded
  <2>2. ASSUME Loaded, NEW j \in Keys \ SetterKeys
        PROVE  settings'.values[j] = ReadKeys(Default, settings'.keys)[j]
    <3>1. j # k
      BY <1>1
    <3>2. settings'.values[j] = settings.values[j] /\ settings'.keys[j] = settings.keys[j]
      BY <1>3, <3>1
    <3>3. settings.values[j] = ReadKeys(Default, settings.keys)[j]
      BY <2>2 DEF TypedInv, Unset
    <3> QED
      BY <3>2, <3>3 DEF ReadKeys
  <2> QED
    BY <2>1, <2>2 DEF Unset
<1> QED
  BY <1>10, <1>11 DEF TypedInv

LEMMA TypedNewStep ==
    ASSUME TypedInv, SettingsInv', NEW made \in BOOLEAN, NEW copied \in BOOLEAN,
           New(made, copied)
    PROVE  TypedInv'
<1> DEFINE d == IF copied THEN [disk EXCEPT !["local"] = disk["system"]] ELSE disk
           p == PathOf(d)
           values == IF p = "none" THEN Default ELSE ReadKeys(Default, d[p].keys)
           keys == IF p = "none" THEN NoKeys ELSE d[p].keys
<1>1. /\ disk' = d
      /\ settings' = [open |-> TRUE, path |-> p, values |-> values, keys |-> keys]
      /\ localDir' = (localDir \/ made) /\ paths' = paths /\ edits' = edits
  BY DEF New
<1>2. SettingsTypeOK /\ Shape
  BY DEF TypedInv, SettingsInv
<1>3. \A q \in Paths : /\ d[q].state \in {"absent", "malformed", "good"}
                       /\ Keyfile(d[q].keys)
  BY <1>2, TypedParts DEF Shape, Paths
<1>4. p \in paths \cup {"none"} /\ (p # "none" => p \in Paths)
  BY DEF PathOf, Loads, Paths
<1> HIDE DEF d, p
<1>5. Keyfile(keys)
  BY <1>3, <1>4, NoKeysTyped
<1>6. DOMAIN values = Keys /\ \A k \in Keys : values[k] \in ValueType(k)
  BY <1>3, <1>4, ReadTyped, SettingsAssumption DEF ReadKeys
<1>7. p # "none" => values = ReadKeys(Default, keys)
  OBVIOUS
<1> HIDE DEF values, keys
<1>8. /\ settings'.open \in BOOLEAN /\ settings'.path = p
      /\ settings'.keys = keys /\ settings'.values = values
  BY <1>1
<1>9. LogTypeOK'
  BY DEF SettingsInv, LogInv
<1>10. localDir' \in BOOLEAN
  BY <1>1, <1>2, TypedParts
<1>11. paths' \subseteq Paths /\ edits' \in 0..MaxEdits
  BY <1>1, <1>2, TypedParts
<1>12. SettingsTypeOK'
  BY ONLY <1>1, <1>3, <1>4, <1>5, <1>6, <1>8, <1>9, <1>10, <1>11 DEF SettingsTypeOK
<1>13. Unset'
  BY <1>7, <1>8 DEF Unset, Loaded
<1> QED
  BY <1>12, <1>13 DEF TypedInv

LEMMA TypedEditStep ==
    ASSUME TypedInv, SettingsInv', NEW p \in Paths, NEW k \in Keys, NEW f \in Files,
           Edit(p, k, f)
    PROVE  TypedInv'
<1>1. /\ disk' = [disk EXCEPT ![p].keys[k] = f[k]]
      /\ edits < MaxEdits /\ edits' = edits + 1
      /\ UNCHANGED <<paths, localDir, settings, asked>>
  BY DEF Edit
<1>2. SettingsTypeOK /\ Shape
  BY DEF TypedInv, SettingsInv
<1>3. /\ \A q \in Paths : /\ DOMAIN disk'[q].keys = Keys
                          /\ disk'[q].state = disk[q].state
                          /\ \A j \in Keys : disk'[q].keys[j] = IF q = p /\ j = k THEN f[k]
                                                               ELSE disk[q].keys[j]
  BY <1>1, <1>2 DEF Shape
<1>4. Keyfile(f)
  BY SettingsAssumption
<1>5. ASSUME NEW q \in Paths
      PROVE  disk'[q].state \in {"absent", "malformed", "good"} /\ Keyfile(disk'[q].keys)
  <2>1. disk'[q].state \in {"absent", "malformed", "good"}
    BY <1>2, <1>3, TypedParts
  <2>2. Keyfile(disk[q].keys)
    BY <1>2, TypedParts
  <2>3. Keyfile(disk'[q].keys)
    BY ONLY <1>3, <1>4, <2>2, q \in Paths DEF Keyfile
  <2> QED
    BY <2>1, <2>3
<1>6. LogTypeOK'
  BY DEF SettingsInv, LogInv
<1>7. edits' \in 0..MaxEdits
  BY <1>1, <1>2, SettingsAssumption DEF SettingsTypeOK
<1>8. SettingsTypeOK'
  BY ONLY <1>1, <1>2, <1>5, <1>6, <1>7 DEF SettingsTypeOK
<1>9. Unset'
  BY <1>1 DEF TypedInv, Unset, Loaded
<1> QED
  BY <1>8, <1>9 DEF TypedInv

LEMMA TypedDeleteStep ==
    ASSUME TypedInv, SettingsInv', Delete
    PROVE  TypedInv'
<1>1. settings' = NoSettings /\ UNCHANGED <<paths, localDir, disk, edits>>
  BY DEF Delete
<1>2. /\ settings'.open = FALSE /\ settings'.path = "none"
      /\ settings'.keys = NoKeys /\ settings'.values = Default
  BY <1>1 DEF NoSettings
<1>3. LogTypeOK'
  BY DEF SettingsInv, LogInv
<1>4. SettingsTypeOK'
  BY <1>1, <1>2, <1>3, NoKeysTyped, SettingsAssumption DEF TypedInv, SettingsTypeOK
<1> QED
  BY <1>2, <1>4 DEF TypedInv, Unset, Loaded

LEMMA TypedSteps ==
    ASSUME TypedInv, SettingsInv', TypedStep
    PROVE  TypedInv'
<1>1. CASE OpenLog \/ UNCHANGED allSettingsVars
  <2>1. UNCHANGED settingsVars
    BY <1>1 DEF OpenLog, allSettingsVars, settingsVars
  <2>2. LogTypeOK'
    BY DEF SettingsInv, LogInv
  <2> QED
    BY <2>1, <2>2 DEF TypedInv, SettingsTypeOK, Unset, Loaded, settingsVars
<1> QED
  BY <1>1, TypedSetterStep, TypedNewStep, TypedEditStep, TypedDeleteStep DEF TypedStep

LEMMA TypedInvariant == SettingsSpec \/ WhiteListSpec => []TypedInv
<1>1. SettingsSpec => []TypedInv
  <2>1. TypedInv /\ SettingsInv' /\ [SettingsNext]_allSettingsVars => TypedInv'
    BY SettingsTypedSteps, TypedSteps
  <2> QED
    BY <2>1, TypedInitStep, SettingsInvariant, PTL DEF SettingsSpec
<1>2. WhiteListSpec => []TypedInv
  <2>1. TypedInv /\ SettingsInv' /\ [WhiteListNext]_allWhiteListVars => TypedInv'
    BY WhiteListTypedSteps, TypedSteps DEF TypedInv
  <2>2. WhiteListInit => TypedInv
    BY TypedInitStep DEF WhiteListInit
  <2> QED
    BY <2>1, <2>2, SettingsInvariant, PTL DEF WhiteListSpec
<1> QED
  BY <1>1, <1>2

(* The levels of the log are those that the numbers in the file stand for, *)
(* whatever they are and however many.                                     *)
THEOREM SingleLevelsRead == SettingsSpec \/ WhiteListSpec => []SingleLevelsWin
<1>1. TypedInv => SingleLevelsWin
  <2> SUFFICES ASSUME TypedInv, Loaded, settings.keys["log_level"] # <<>>
               PROVE  SingleLevelsWin
    BY DEF SingleLevelsWin
  <2> DEFINE list == settings.keys["log_level"][1]
  <2>1. "log_level" \in Keys /\ "log_level" \notin SetterKeys
    BY DEF Keys, SetterKeys
  <2>2. settings.keys["log_level"] \in Seq(Seq(Int))
    BY <2>1 DEF TypedInv, SettingsTypeOK, Keyfile, KeyType
  <2>3. list \in Seq(Int)
    <3>1. 1 \in 1..Len(settings.keys["log_level"])
      BY <2>2, EmptySeq
    <3> QED
      BY <2>2, <3>1, ElementOfSeq
  <2>4. settings.values["log_level"] = ToLogLevel(list)
    <3>1. settings.values["log_level"] = ReadKeys(Default, settings.keys)["log_level"]
      BY <2>1 DEF TypedInv, Unset
    <3> QED
      BY <2>1, <3>1 DEF ReadKeys, Convert
  <2>5. settings.values["log_level"] = LevelsWanted(list)
    BY <2>3, <2>4, ToLogLevelProperties
  <2> QED
    BY <2>5 DEF SingleLevelsWin, LevelsWanted, Single, FirstOf
<1> QED
  BY <1>1, TypedInvariant, PTL

-----------------------------------------------------------------------------
(***************************************************************************)
(* The white list: it is that of the values that the accessors show, from  *)
(* the moment that it exists.                                              *)
(***************************************************************************)
Linked ==
    /\ wl # "none" => settings.open
    /\ wl # "wrapper" => filter = NoFilter
    /\ wl = "wrapper" => filter = [enabled |-> settings.values["netf_enabled"],
                                   entries |-> EntriesOf(settings.values["netf_list"])]

WhiteListInv == WhiteListTypeOK /\ Linked

LEMMA EntriesTyped ==
    ASSUME NEW T, NEW list \in Seq(T)
    PROVE  EntriesOf(list) \in SUBSET T
BY LenProperties, ElementOfSeq DEF EntriesOf

(* A filter that follows the values has the right type.                    *)
LEMMA FilterTyped ==
    SettingsTypeOK /\ wl \in {"none", "null", "wrapper"} /\ Linked => WhiteListTypeOK
<1> SUFFICES ASSUME SettingsTypeOK, wl \in {"none", "null", "wrapper"}, Linked
             PROVE  WhiteListTypeOK
  OBVIOUS
<1>1. NoFilter \in [enabled : BOOLEAN, entries : SUBSET Networks]
  BY DEF NoFilter
<1>2. "netf_enabled" \in Keys /\ "netf_list" \in Keys
  BY DEF Keys
<1>3. /\ settings.values["netf_enabled"] \in BOOLEAN
      /\ settings.values["netf_list"] \in Seq(Networks)
  BY <1>2 DEF SettingsTypeOK, ValueType, KeyType
<1>4. EntriesOf(settings.values["netf_list"]) \in SUBSET Networks
  BY <1>3, EntriesTyped
<1> QED
  BY <1>1, <1>3, <1>4 DEF WhiteListTypeOK, Linked

(* f is the filter with key k of the settings set to v.                    *)
Matches(f, k, v) ==
    f = [enabled |-> IF k = "netf_enabled" THEN v ELSE settings.values["netf_enabled"],
         entries |-> EntriesOf(IF k = "netf_list" THEN v ELSE settings.values["netf_list"])]

(* A filter that follows a setter stays linked.                            *)
LEMMA FilterSetter ==
    ASSUME Linked, Shape, NEW k \in SetterKeys, NEW written, NEW v, NEW ok \in BOOLEAN,
           SetKey(k, written, v, ok), NEW f, Follow(ok, f),
           wl = "wrapper" => Matches(f, k, v)
    PROVE  Linked'
<1>1. /\ settings'.open
      /\ \A j \in Keys : settings'.values[j] = IF j = k /\ ok THEN v ELSE settings.values[j]
  <2>1. SetterDid(k, written, v, ok)
    BY ONLY Shape, k \in SetterKeys, ok \in BOOLEAN, SetKey(k, written, v, ok), SetterEffect
  <2> QED
    BY <2>1 DEF SetterDid
<1>2. "netf_enabled" \in Keys /\ "netf_list" \in Keys
  BY DEF Keys
<1>3. wl' = wl /\ filter' = IF ok /\ wl = "wrapper" THEN f ELSE filter
  BY DEF Follow
<1>4. CASE wl = "wrapper" /\ ok
  <2>1. f = [enabled |-> settings'.values["netf_enabled"],
             entries |-> EntriesOf(settings'.values["netf_list"])]
    <3>1. /\ settings'.values["netf_enabled"] =
                 IF k = "netf_enabled" THEN v ELSE settings.values["netf_enabled"]
          /\ settings'.values["netf_list"] =
                 IF k = "netf_list" THEN v ELSE settings.values["netf_list"]
      BY <1>1, <1>2, <1>4
    <3>2. Matches(f, k, v)
      BY <1>4
    <3> QED
      BY ONLY <3>1, <3>2 DEF Matches
  <2> QED
    BY <1>1, <1>3, <1>4, <2>1 DEF Linked
<1>5. CASE ~(wl = "wrapper" /\ ok)
  <2>1. filter' = filter
    BY <1>3, <1>5
  <2>2. wl = "wrapper" => /\ settings'.values["netf_enabled"] = settings.values["netf_enabled"]
                          /\ settings'.values["netf_list"] = settings.values["netf_list"]
    BY <1>1, <1>2, <1>5
  <2> QED
    BY <1>1, <1>3, <2>1, <2>2 DEF Linked
<1> QED
  BY <1>4, <1>5

LEMMA WhiteListStep ==
    ASSUME TypedInv, TypedInv', WhiteListInv, [WhiteListNext]_allWhiteListVars
    PROVE  WhiteListInv'
<1>1. Shape /\ SettingsTypeOK /\ Linked /\ wl \in {"none", "null", "wrapper"}
  BY DEF TypedInv, SettingsInv, WhiteListInv, WhiteListTypeOK
<1>2. wl = "wrapper" => filter = [enabled |-> settings.values["netf_enabled"],
                                  entries |-> EntriesOf(settings.values["netf_list"])]
  BY <1>1 DEF Linked
<1>3. settings.values["netf_list"] \in Seq(Networks)
  BY <1>1 DEF SettingsTypeOK, Keys, ValueType, KeyType
<1>4. /\ "never_quit" \in SetterKeys /\ "netf_enabled" \in SetterKeys
      /\ "netf_list" \in SetterKeys
  BY DEF SetterKeys
<1>5. ASSUME Unfollowed
      PROVE  wl' = wl /\ Linked'
  <2>1. UNCHANGED <<wl, filter>>
    BY <1>5 DEF Unfollowed
  <2>2. CASE OpenLog
    BY <1>1, <2>1, <2>2 DEF OpenLog, settingsVars, Linked
  <2>3. CASE \E made, copied \in BOOLEAN : New(made, copied)
    BY <1>1, <2>1, <2>3 DEF New, Linked
  <2>4. ASSUME NEW b \in BOOLEAN, NEW ok \in BOOLEAN, SetNeverQuit(b, ok)
        PROVE  Linked'
    <3>1. SetKey("never_quit", b, b, ok)
      BY <2>4 DEF SetNeverQuit
    <3>2. Follow(ok, filter)
      BY <2>1 DEF Follow
    <3>3. wl = "wrapper" => Matches(filter, "never_quit", b)
      BY <1>2 DEF Matches
    <3> QED
      BY ONLY <1>1, <1>4, <2>4, <3>1, <3>2, <3>3, FilterSetter
  <2> QED
    BY <1>5, <2>1, <2>2, <2>3, <2>4 DEF Unfollowed
<1>6. ASSUME NEW gupnp \in BOOLEAN, Fill(gupnp)
      PROVE  wl' \in {"none", "null", "wrapper"} /\ Linked'
  <2>1. /\ settings.open /\ wl = "none" /\ settings' = settings
        /\ wl' = IF gupnp THEN "wrapper" ELSE "null"
        /\ filter' = IF gupnp
                     THEN AddEntries(Enable(filter, settings.values["netf_enabled"]),
                                     settings.values["netf_list"])
                     ELSE filter
    BY <1>6 DEF Fill, WhiteListNew, settingsVars
  <2>2. filter = NoFilter
    BY <1>1, <2>1 DEF Linked
  <2>3. ASSUME NEW b, NEW list
        PROVE  AddEntries(Enable(filter, b), list) =
                   [enabled |-> b, entries |-> EntriesOf(list)]
    <3>1. Enable(filter, b) = [enabled |-> b, entries |-> {}]
      BY <2>2 DEF Enable, NoFilter
    <3> QED
      BY ONLY <3>1 DEF AddEntries
  <2> QED
    BY <2>1, <2>2, <2>3 DEF Linked
<1>7. ASSUME NEW b \in BOOLEAN, NEW ok \in BOOLEAN, ChangeEnabled(b, ok)
      PROVE  wl' = wl /\ Linked'
  <2>1. SetKey("netf_enabled", b, b, ok) /\ Follow(ok, Enable(filter, b))
    BY <1>7 DEF ChangeEnabled, SetWhiteListEnabled
  <2>2. wl = "wrapper" => Matches(Enable(filter, b), "netf_enabled", b)
    BY <1>2 DEF Enable, Matches
  <2>3. Linked'
    BY ONLY <1>1, <1>4, <1>7, <2>1, <2>2, FilterSetter
  <2> QED
    BY <2>1, <2>3 DEF Follow
<1>8. ASSUME NEW list, NEW ok \in BOOLEAN, NEW f, SetWhiteListEntries(list, ok), Follow(ok, f),
             wl = "wrapper" => Matches(f, "netf_list", list)
      PROVE  wl' = wl /\ Linked'
  <2>1. SetKey("netf_list", Shown("netf_list", list), list, ok)
    BY <1>8 DEF SetWhiteListEntries
  <2>2. Linked'
    BY ONLY <1>1, <1>4, <1>8, <2>1, FilterSetter
  <2> QED
    BY <1>8, <2>2 DEF Follow
<1>9. ASSUME NEW list \in Lists, NEW ok \in BOOLEAN, Replace(list, ok)
      PROVE  wl' = wl /\ Linked'
  <2>1. SetWhiteListEntries(list, ok) /\ Follow(ok, AddEntries(Clear(filter), list))
    BY <1>9 DEF Replace
  <2>2. ASSUME wl = "wrapper" PROVE Matches(AddEntries(Clear(filter), list), "netf_list", list)
    <3>1. Clear(filter) = [enabled |-> settings.values["netf_enabled"], entries |-> {}]
      BY <1>2, <2>2 DEF Clear
    <3> QED
      BY ONLY <3>1 DEF AddEntries, Matches
  <2> QED
    BY <1>8, <2>1, <2>2
<1>10. ASSUME NEW list \in Lists, NEW ok \in BOOLEAN, Allow(list, ok)
       PROVE  wl' = wl /\ Linked'
  <2> DEFINE all == settings.values["netf_list"] \o list
  <2>1. SetWhiteListEntries(all, ok) /\ Follow(ok, AddEntries(filter, list))
    BY <1>10 DEF Allow
  <2>2. EntriesOf(all) = EntriesOf(settings.values["netf_list"]) \cup EntriesOf(list)
    <3>1. list \in Seq(Networks)
      BY SettingsAssumption
    <3> QED
      BY <1>3, <3>1, EntriesConcat
  <2> HIDE DEF all
  <2>3. ASSUME wl = "wrapper" PROVE Matches(AddEntries(filter, list), "netf_list", all)
    BY ONLY <1>2, <2>2, <2>3 DEF AddEntries, Matches
  <2> QED
    BY <1>8, <2>1, <2>3
<1>11. ASSUME NEW e \in Entries, NEW ok \in BOOLEAN, Revoke(e, ok)
       PROVE  wl' = wl /\ Linked'
  <2> DEFINE kept == Without(settings.values["netf_list"], e)
  <2>1. SetWhiteListEntries(kept, ok) /\ Follow(ok, RemoveEntries(filter, <<e>>))
    BY <1>11 DEF Revoke
  <2>2. EntriesOf(kept) = EntriesOf(settings.values["netf_list"]) \ {e}
    BY <1>3, WithoutProperties
  <2>3. EntriesOf(<<e>>) = {e}
    BY DEF EntriesOf
  <2> HIDE DEF kept
  <2>4. ASSUME wl = "wrapper" PROVE Matches(RemoveEntries(filter, <<e>>), "netf_list", kept)
    BY ONLY <1>2, <2>2, <2>3, <2>4 DEF RemoveEntries, Matches
  <2> QED
    BY <1>8, <2>1, <2>4
<1>12. ASSUME WhiteListDelete
       PROVE  wl' \in {"none", "null", "wrapper"} /\ Linked'
  BY <1>12 DEF WhiteListDelete, Linked
<1>13. ASSUME UNCHANGED allWhiteListVars
       PROVE  wl' = wl /\ Linked'
  BY <1>1, <1>13 DEF allWhiteListVars, Linked
<1>14. wl' \in {"none", "null", "wrapper"} /\ Linked'
  BY ONLY <1>1, <1>5, <1>6, <1>7, <1>9, <1>10, <1>11, <1>12, <1>13,
     [WhiteListNext]_allWhiteListVars DEF WhiteListNext
<1>15. SettingsTypeOK'
  BY DEF TypedInv
<1>16. (SettingsTypeOK /\ wl \in {"none", "null", "wrapper"} /\ Linked)'
  BY ONLY <1>14, <1>15
<1>17. WhiteListTypeOK'
  BY ONLY <1>16, FilterTyped, PTL
<1> QED
  BY <1>14, <1>17 DEF WhiteListInv

LEMMA WhiteListInvariant == WhiteListSpec => []WhiteListInv
<1>1. WhiteListInit => WhiteListInv
  <2> SUFFICES ASSUME WhiteListInit PROVE WhiteListInv
    OBVIOUS
  <2>1. SettingsTypeOK /\ wl = "none" /\ filter = NoFilter
    BY TypedInitStep DEF WhiteListInit, TypedInv
  <2>2. Linked
    BY <2>1 DEF Linked
  <2> QED
    BY <2>1, <2>2, FilterTyped DEF WhiteListInv
<1>2. TypedInv /\ TypedInv' /\ WhiteListInv /\ [WhiteListNext]_allWhiteListVars => WhiteListInv'
  BY WhiteListStep
<1> QED
  BY <1>1, <1>2, TypedInvariant, PTL DEF WhiteListSpec

(* The settings, their keyfile and the white list have their types:        *)
(* a port fits in a guint, and the lists computed from lists are lists.    *)
THEOREM WhiteListTypeCorrect == WhiteListSpec => []WhiteListTypeOK
<1>1. WhiteListInv => WhiteListTypeOK
  BY DEF WhiteListInv
<1> QED
  BY <1>1, WhiteListInvariant, PTL

(* The networks let through are those shown and, if the key is as it was   *)
(* saved, those of the next start, whatever lists were set, joined and     *)
(* shortened, and whichever saves failed.                                  *)
THEOREM FilterSurvives == WhiteListSpec => []FilterSurvivesRestart
<1>1. TypedInv /\ WhiteListInv => FilterSurvivesRestart
  <2> SUFFICES ASSUME TypedInv, WhiteListInv, wl = "wrapper"
               PROVE  FilterSurvivesRestart
    BY DEF FilterSurvivesRestart
  <2> DEFINE file == ReadKeys(Default, disk[settings.path].keys)
             Kept(k) == Loaded /\ expected[k] = {settings.values[k]}
  <2>1. filter = [enabled |-> settings.values["netf_enabled"],
                  entries |-> EntriesOf(settings.values["netf_list"])]
    BY DEF WhiteListInv, Linked
  <2>2. settings.values["netf_list"] \in Seq(Networks)
    BY DEF TypedInv, SettingsTypeOK, Keys, ValueType, KeyType
  <2>3. ASSUME NEW k \in Keys, Kept(k)
        PROVE  Same(k, file[k], settings.values[k])
    <3>1. settings.open
      BY DEF WhiteListInv, Linked
    <3>2. settings.path = PathOf(disk)
      BY <3>1 DEF TypedInv, SettingsInv, InMemory
    <3>3. Content(disk) = disk[settings.path].keys
      BY <2>3, <3>2 DEF Content, Loaded
    <3>4. \E v \in expected[k] : Same(k, ReadKeys(Default, Content(disk))[k], v)
      BY <2>3 DEF TypedInv, SettingsInv, Stored
    <3> QED
      BY <2>3, <3>3, <3>4
  <2>4. "netf_enabled" \in Keys /\ "netf_list" \in Keys
    BY DEF Keys
  <2>5. Kept("netf_enabled") => file["netf_enabled"] = settings.values["netf_enabled"]
    BY <2>3, <2>4 DEF Same, Shown
  <2>6. ASSUME Kept("netf_list")
        PROVE  EntriesOf(file["netf_list"]) \ {EmptyEntry} =
                   EntriesOf(settings.values["netf_list"]) \ {EmptyEntry}
    <3>1. \/ file["netf_list"] = settings.values["netf_list"]
          \/ file["netf_list"] = Without(settings.values["netf_list"], EmptyEntry)
      BY <2>3, <2>4, <2>6 DEF Same, Shown
    <3>2. EntriesOf(Without(settings.values["netf_list"], EmptyEntry)) =
              EntriesOf(settings.values["netf_list"]) \ {EmptyEntry}
      BY <2>2, WithoutProperties
    <3> HIDE DEF file
    <3> QED
      BY <3>1, <3>2
  <2> QED
    BY <2>1, <2>5, <2>6 DEF FilterSurvivesRestart
<1> QED
  BY <1>1, TypedInvariant, WhiteListInvariant, PTL
=============================================================================
