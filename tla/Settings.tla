------------------------------ MODULE Settings ------------------------------
(***************************************************************************)
(* The settings (settings.c): the configuration file chosen at start, the  *)
(* keyfile read from it, the values the accessors show, and the setters    *)
(* that save the keyfile, over several starts of the daemon.  The log is   *)
(* that of Log: it is opened before the settings and closed after them.    *)
(***************************************************************************)
EXTENDS Log, Integers, Sequences

CONSTANTS
    EmptyEntry,   \* the empty string, as an entry of the white list
    Entries,      \* other entries of the white list
    Lists,        \* values given to dleyna_settings_set_white_list_entries
    Files,        \* contents of the configuration files before the first start
    Default,      \* the values of prv_init_default
    MaxGuint,     \* G_MAXUINT
    MaxEdits      \* bound on the changes that a user makes to the files

Keys == {"never_quit", "connector_name", "port", "push_host_port", "log_type",
         "log_level", "netf_enabled", "netf_list"}

Paths == {"local", "system"}

Networks == Entries \cup {EmptyEntry}

(* What GLib gives back for a key of the keyfile.                          *)
KeyType(k) ==
    CASE k \in {"never_quit", "netf_enabled"} -> BOOLEAN
      [] k \in {"port", "push_host_port"} -> Nat
      [] k = "log_type" -> Int
      [] k = "log_level" -> Seq(Int)
      [] k = "netf_list" -> Seq(Networks)
      [] OTHER -> STRING

(* What the settings keep of it.                                           *)
ValueType(k) ==
    CASE k \in {"port", "push_host_port"} -> 0..MaxGuint
      [] k = "log_type" -> LogTypes
      [] k = "log_level" -> SUBSET Levels
      [] OTHER -> KeyType(k)

(* A key is absent or cannot be parsed, <<>>, or has a value, <<value>>.   *)
Keyfile(f) ==
    /\ DOMAIN f = Keys
    /\ \A k \in Keys : f[k] \in Seq(KeyType(k)) /\ Len(f[k]) <= 1

(* DLEYNA_LOG_TYPE and DLEYNA_LOG_LEVEL are defaults too.                  *)
ASSUME SettingsAssumption ==
    /\ Lists \subseteq Seq(Networks)
    /\ DOMAIN Default = Keys /\ \A k \in Keys : Default[k] \in ValueType(k)
    /\ Default["log_type"] = CompiledType
    /\ Default["log_level"] = Compiled
    /\ \A f \in Files : Keyfile(f)
    /\ MaxGuint \in Nat /\ MaxEdits \in Nat

VARIABLES
    paths,     \* the directories that are configured
    localDir,  \* does the local directory exist?
    disk,      \* the files
    settings,  \* the dleyna_settings_t
    asked,     \* history: what the daemon was last asked to set, by key
    expected,  \* history: what the next start is to read, by key
    edits      \* changes made by a user so far

settingsVars == <<paths, localDir, disk, settings, asked, expected, edits>>

allSettingsVars == <<context, sysmask, handler, before, selected, output,
                     aborted, paths, localDir, disk, settings, asked, expected,
                     edits>>

NoKeys == [k \in Keys |-> <<>>]

NoFile == [state |-> "absent", keys |-> NoKeys]

(* path is file_path, and keys the keyfile, if one was loaded.             *)
NoSettings == [open |-> FALSE, path |-> "none", keys |-> NoKeys, values |-> Default]

Loaded == settings.path # "none"

(* The histories hold at most one value for a key.                         *)
NoValues == [k \in Keys |-> {}]

SettingsTypeOK ==
    /\ LogTypeOK
    /\ paths \subseteq Paths
    /\ localDir \in BOOLEAN
    /\ \A p \in Paths : /\ disk[p].state \in {"absent", "malformed", "good"}
                        /\ Keyfile(disk[p].keys)
    /\ settings.open \in BOOLEAN
    /\ settings.path \in paths \cup {"none"}
    /\ Keyfile(settings.keys)
    /\ DOMAIN settings.values = Keys
    /\ \A k \in Keys : settings.values[k] \in ValueType(k)
    /\ edits \in 0..MaxEdits

SettingsInit ==
    /\ LogInit
    /\ paths \in SUBSET Paths
    /\ localDir \in BOOLEAN
    /\ disk \in [Paths -> {NoFile, [NoFile EXCEPT !.state = "malformed"]}
                            \cup [state : {"good"}, keys : Files]]
    /\ disk["local"] # NoFile => localDir
    /\ localDir => "local" \in paths     \* what no path leads to is left out
    /\ \A p \in Paths \ paths : disk[p] = NoFile
    /\ settings = NoSettings
    /\ asked = NoValues /\ expected = NoValues
    /\ edits = 0

-----------------------------------------------------------------------------
(* prv_check_local_keyfile copies the system's file, after it made the     *)
(* local directory if there is none; either may fail.                      *)
Copies == paths = Paths /\ disk["local"] = NoFile

(* prv_load_keyfile.                                                       *)
Loads(d, p) == p \in paths /\ d[p].state = "good"

(* The file that prv_keyfile_init loads.                                   *)
PathOf(d) ==
    IF Loads(d, "local") THEN "local" ELSE IF Loads(d, "system") THEN "system" ELSE "none"

LevelArray == <<"error", "critical", "warning", "message", "info", "debug">>

(* The levels that one number stands for.                                  *)
LevelsOf(n) ==
    CASE n = 0 -> {}
      [] n = 7 -> {"error", "critical", "info"}
      [] n = 8 -> Levels
      [] OTHER -> {LevelArray[n]}

(* Slip: the loop goes on after a single value.                            *)
ToLogLevelAll(list) ==
    LET scan[i \in 0..Len(list)] ==
            IF i = 0 THEN {}
            ELSE IF list[i] \in 1..6 THEN scan[i - 1] \cup LevelsOf(list[i])
            ELSE IF list[i] \in {0, 7, 8} THEN LevelsOf(list[i])
            ELSE scan[i - 1]
    IN  scan[Len(list)]

(* The loop of prv_to_log_level: what one number adds, until the loop is   *)
(* left at the first single value.                                         *)
NoLevels == [levels |-> {}, left |-> FALSE]

TakeLevel(s, n) ==
    IF s.left \/ n \notin 0..8 THEN s
    ELSE IF n \in 1..6 THEN [s EXCEPT !.levels = @ \cup LevelsOf(n)]
    ELSE [levels |-> LevelsOf(n), left |-> TRUE]

(* prv_to_log_level: scan[i] is the state of the loop after i numbers.     *)
ToLogLevel(list) ==
    LET scan[i \in 0..Len(list)] ==
            IF i = 0 THEN NoLevels ELSE TakeLevel(scan[i - 1], list[i])
    IN  scan[Len(list)].levels

(* prv_to_log_type.                                                        *)
ToLogType(n) == IF n = 1 THEN "glib" ELSE "syslog"

(* Slip: the 64 bits of the keyfile are kept.                              *)
GuintWide(v) == v

(* A cast to guint.                                                        *)
Guint(v) == v % (MaxGuint + 1)

(* A value of the keyfile as the settings keep it.                         *)
Convert(k, v) ==
    CASE k \in {"port", "push_host_port"} -> Guint(v)
      [] k = "log_type" -> ToLogType(v)
      [] k = "log_level" -> ToLogLevel(v)
      [] OTHER -> v

(* prv_read_keys: what is absent or invalid keeps its value.               *)
ReadKeys(values, keys) ==
    [k \in Keys |-> IF keys[k] = <<>> THEN values[k] ELSE Convert(k, keys[k][1])]

(* A list without the entries that are e; kept[i] is the list after i of   *)
(* them.  prv_filter_null_str is this loop for the empty entry.            *)
Without(list, e) ==
    LET kept[i \in 0..Len(list)] ==
            IF i = 0 THEN <<>>
            ELSE IF list[i] = e THEN kept[i - 1] ELSE Append(kept[i - 1], list[i])
    IN  kept[Len(list)]

(* An empty entry of the white list is not written to the file.            *)
Shown(k, v) == IF k = "netf_list" THEN Without(v, EmptyEntry) ELSE v

(* dleyna_settings_new, with the log told of the type and level read.      *)
New(made, copied) ==
    LET d == IF copied THEN [disk EXCEPT !["local"] = disk["system"]] ELSE disk
        p == PathOf(d)
        values == IF p = "none" THEN Default ELSE ReadKeys(Default, d[p].keys)
    IN  /\ handler = "prv_handler" /\ ~settings.open
        /\ made => Copies /\ ~localDir
        /\ copied => Copies /\ (localDir \/ made) /\ disk["system"] # NoFile
        /\ localDir' = (localDir \/ made)
        /\ disk' = d
        /\ settings' = [open |-> TRUE, path |-> p, values |-> values,
                        keys |-> IF p = "none" THEN NoKeys ELSE d[p].keys]
        /\ expected' = [k \in Keys |-> IF expected[k] = {} THEN {values[k]}
                                                            ELSE expected[k]]
        /\ IF p = "none" THEN UNCHANGED logVars
           ELSE UpdateTypeLevel(values["log_type"], values["log_level"])
        /\ UNCHANGED <<paths, asked, edits>>

(* Slip: what is saved is the local file, whichever was read.              *)
SavedLocally(d, s, ok) ==
    IF s.path # "none" /\ ok THEN [d EXCEPT !["local"].keys = s.keys] ELSE d

(* prv_save_settings_to_file; g_file_set_contents replaces all of the file *)
(* or nothing.  Without a keyfile GLib refuses both calls, and no error is *)
(* reported.                                                               *)
Saved(d, s, ok) ==
    IF s.path # "none" /\ ok THEN [d EXCEPT ![s.path].keys = s.keys] ELSE d

(* Slip: the error of the save is not looked at.                           *)
AppliedAnyway(s, k, v, ok) == [s EXCEPT !.values[k] = v]

(* The accessors show the new value if it was saved.                       *)
Applied(s, k, v, ok) == IF ok THEN [s EXCEPT !.values[k] = v] ELSE s

(* A setter: the keyfile is changed, and saved, before the value that the  *)
(* accessors show.                                                         *)
SetKey(k, written, v, ok) ==
    LET s == [settings EXCEPT !.keys[k] = IF Loaded THEN <<written>> ELSE <<>>]
        a == [asked EXCEPT ![k] = {v}]
    IN  /\ settings.open
        /\ ~Loaded => ok
        /\ disk' = Saved(disk, s, ok)
        /\ settings' = Applied(s, k, v, ok)
        /\ asked' = a
        /\ expected' = IF Loaded /\ ok
                        THEN [j \in Keys |-> IF a[j] = {} THEN expected[j] ELSE a[j]]
                        ELSE expected
        /\ UNCHANGED <<paths, localDir, edits>>
        /\ UNCHANGED logVars

(* dleyna_settings_set_never_quit.                                         *)
SetNeverQuit(b, ok) == SetKey("never_quit", b, b, ok)

(* dleyna_settings_set_white_list_enabled.                                 *)
SetWhiteListEnabled(b, ok) == SetKey("netf_enabled", b, b, ok)

(* dleyna_settings_set_white_list_entries: prv_filter_null_str drops the   *)
(* empty entries from what is written.                                     *)
SetWhiteListEntries(list, ok) == SetKey("netf_list", Shown("netf_list", list), list, ok)

(* dleyna_settings_delete, and the end of the log after it.                *)
Delete ==
    /\ settings.open
    /\ settings' = NoSettings
    /\ asked' = NoValues
    /\ Finalize
    /\ UNCHANGED <<paths, localDir, disk, expected, edits>>

(* A user changes a key of a file that exists.                             *)
Edit(p, k, f) ==
    /\ edits < MaxEdits
    /\ disk[p].state = "good"
    /\ disk' = [disk EXCEPT ![p].keys[k] = f[k]]
    /\ disk' # disk
    /\ edits' = edits + 1
    /\ expected' = [expected EXCEPT ![k] = {}]
    /\ UNCHANGED <<paths, localDir, settings, asked>>
    /\ UNCHANGED logVars

(* The beginning of dleyna_main_loop_start.                                *)
OpenLog ==
    /\ ~settings.open
    /\ Initialise
    /\ UNCHANGED settingsVars

SettingsNext ==
    \/ OpenLog
    \/ \E made, copied \in BOOLEAN : New(made, copied)
    \/ \E b, ok \in BOOLEAN : SetNeverQuit(b, ok) \/ SetWhiteListEnabled(b, ok)
    \/ \E list \in Lists, ok \in BOOLEAN : SetWhiteListEntries(list, ok)
    \/ Delete
    \/ \E p \in Paths, k \in Keys, f \in Files : Edit(p, k, f)

SettingsSpec == SettingsInit /\ [][SettingsNext]_allSettingsVars

-----------------------------------------------------------------------------
(* settings.c:215: "Priority is single value (0,7,8) over multi value      *)
(* (1..6)", "Priority for single values is first found"; all other values  *)
(* are skipped.                                                            *)
SingleLevelsWin ==
    Loaded /\ settings.keys["log_level"] # <<>> =>
        LET list == settings.keys["log_level"][1]
            single == {i \in DOMAIN list : list[i] \in {0, 7, 8}}
            first == CHOOSE i \in single : \A j \in single : i <= j
        IN  settings.values["log_level"] =
                IF single # {} THEN LevelsOf(list[first])
                ELSE UNION {LevelsOf(n) : n \in {list[i] : i \in DOMAIN list} \cap 1..6}

(* A list as it was set, or as the file gives it back.                     *)
Same(k, read, v) == read = v \/ read = Shown(k, v)

(* At the last save that did not fail, each key had a value that it was    *)
(* last set to, by that setter or by one whose own save failed: whichever  *)
(* of the two files was used, made or copied since, that value is what the *)
(* next start reads.  A daemon that found no file saves nothing, and the   *)
(* next one reads what it read.                                            *)
RestartKeepsSettings ==
    [][~settings.open /\ settings'.open =>
          \A k \in Keys : expected[k] # {} =>
              \E v \in expected[k] : Same(k, settings'.values[k], v)]_allSettingsVars

(* The accessors change only to what the file then holds.                  *)
AccessorsFollowFile ==
    [][settings'.path # "none" =>
          \A k \in Keys :
              settings'.values[k] # settings.values[k] =>
                  Same(k, ReadKeys(Default, disk'[settings'.path].keys)[k],
                       settings'.values[k])]_allSettingsVars

(* The daemon logs as its settings say, and as it was compiled if it found *)
(* no file; DLEYNA_LOG_LEVEL and DLEYNA_LOG_TYPE are the defaults of both. *)
LogFollowsSettings ==
    settings.open =>
        /\ context.type = settings.values["log_type"]
        /\ context.mask = settings.values["log_level"] \cap Compiled

(* doc/logging.txt:31: "dLeyna components monitor these configuration      *)
(* files.  Any changes on it are applied immediately".  So a key that a    *)
(* user changed is not changed back by a setter of another.                *)
EditsKept ==
    [][\A p \in Paths, k \in Keys :
          settings.open /\ expected[k] = {} /\ expected'[k] = {} /\ edits' = edits
          => disk'[p].keys[k] = disk[p].keys[k]]_allSettingsVars
=============================================================================
