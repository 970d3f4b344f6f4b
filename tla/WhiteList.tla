----------------------------- MODULE WhiteList -----------------------------
(***************************************************************************)
(* The white list of networks (white-list.c), a wrapper of GUPnP's, beside *)
(* the settings.  No code of the library calls both: Fill and the actions  *)
(* with Follow are an assumed control point, which fills the white list    *)
(* from the settings when it starts, and then calls the setter first and   *)
(* the white list if the setter succeeded.                                 *)
(*                                                                         *)
(* The functions look for a NULL in the wrapper, not for a NULL wrapper:   *)
(* where GUPnP has no white list, dleyna_white_list_new returns NULL, and  *)
(* the first call on it ends the process (lines 80, 95, 115, 130).         *)
(***************************************************************************)
EXTENDS Settings

CONSTANT MaxEntries    \* bound on the length of the list in the settings

ASSUME EntriesAssumption == MaxEntries \in Nat

VARIABLES
    wl,      \* none yet, a dleyna_white_list_t, or NULL: the end
    filter   \* the GUPnPWhiteList: enabled, and entries without duplicates

allWhiteListVars == <<context, sysmask, handler, before, selected, output, aborted,
                      paths, localDir, disk, settings, asked, expected, edits,
                      wl, filter>>

NoFilter == [enabled |-> FALSE, entries |-> {}]

WhiteListTypeOK ==
    /\ SettingsTypeOK
    /\ wl \in {"none", "null", "wrapper"}
    /\ filter \in [enabled : BOOLEAN, entries : SUBSET Networks]

WhiteListInit == SettingsInit /\ wl = "none" /\ filter = NoFilter

EntriesOf(list) == {list[i] : i \in DOMAIN list}

(* dleyna_white_list_enable.                                               *)
Enable(f, enabled) == [f EXCEPT !.enabled = enabled]

(* Slip: only the first entry is added.                                    *)
AddFirstEntry(f, list) ==
    [f EXCEPT !.entries = IF list = <<>> THEN @ ELSE @ \cup {Head(list)}]

(* dleyna_white_list_add_entries.                                          *)
AddEntries(f, list) == [f EXCEPT !.entries = @ \cup EntriesOf(list)]

(* dleyna_white_list_remove_entries.                                       *)
RemoveEntries(f, list) == [f EXCEPT !.entries = @ \ EntriesOf(list)]

(* dleyna_white_list_clear.                                                *)
Clear(f) == [f EXCEPT !.entries = {}]

-----------------------------------------------------------------------------
(* dleyna_white_list_new, of no white list if GUPnP has none.              *)
WhiteListNew(gupnp) == wl' = IF gupnp THEN "wrapper" ELSE "null"

(* A control point makes its white list and gives it what the settings     *)
(* hold.  If it got NULL, dleyna_white_list_enable reads through it: with  *)
(* wl = "null" no step follows.                                            *)
Fill(gupnp) ==
    /\ settings.open /\ wl = "none"
    /\ WhiteListNew(gupnp)
    /\ filter' = IF gupnp
                 THEN AddEntries(Enable(filter, settings.values["netf_enabled"]),
                                 settings.values["netf_list"])
                 ELSE filter
    /\ UNCHANGED settingsVars /\ UNCHANGED logVars

(* What the control point does to its white list, if it has one already,   *)
(* once a setter returned.                                                 *)
Follow(ok, f) ==
    /\ filter' = IF ok /\ wl = "wrapper" THEN f ELSE filter
    /\ UNCHANGED wl

ChangeEnabled(b, ok) == SetWhiteListEnabled(b, ok) /\ Follow(ok, Enable(filter, b))

Replace(list, ok) ==
    SetWhiteListEntries(list, ok) /\ Follow(ok, AddEntries(Clear(filter), list))

Allow(list, ok) ==
    LET all == settings.values["netf_list"] \o list
    IN  /\ Len(all) <= MaxEntries
        /\ SetWhiteListEntries(all, ok)
        /\ Follow(ok, AddEntries(filter, list))

Revoke(e, ok) ==
    LET kept == Without(settings.values["netf_list"], e)
    IN  SetWhiteListEntries(kept, ok) /\ Follow(ok, RemoveEntries(filter, <<e>>))

(* dleyna_white_list_delete, before the process ends: the next one begins  *)
(* with another white list of GUPnP.                                       *)
WhiteListDelete == Delete /\ wl' = "none" /\ filter' = NoFilter

(* Steps of the settings that the white list does not follow; a user's     *)
(* changes of the files are in SettingsSpec alone.                         *)
Unfollowed ==
    /\ \/ OpenLog
       \/ \E made, copied \in BOOLEAN : New(made, copied)
       \/ \E b, ok \in BOOLEAN : SetNeverQuit(b, ok)
    /\ UNCHANGED <<wl, filter>>

WhiteListNext ==
    /\ wl # "null"
    /\ \/ Unfollowed
       \/ \E gupnp \in BOOLEAN : Fill(gupnp)
       \/ \E b, ok \in BOOLEAN : ChangeEnabled(b, ok)
       \/ \E list \in Lists, ok \in BOOLEAN : Replace(list, ok) \/ Allow(list, ok)
       \/ \E e \in Entries, ok \in BOOLEAN : Revoke(e, ok)
       \/ WhiteListDelete

WhiteListSpec == WhiteListInit /\ [][WhiteListNext]_allWhiteListVars

-----------------------------------------------------------------------------
(* Under a control point that keeps the order of Fill and Follow, and      *)
(* where GUPnP has a white list, the networks that it lets through are     *)
(* those that the accessors show and, but for a key whose save failed or   *)
(* that a user changed, those that the next start will let through: the    *)
(* sets that white-list.c computes entry by entry stay the entries of the  *)
(* lists that settings.c stores whole.                                     *)
FilterSurvivesRestart ==
    LET file == ReadKeys(Default, disk[settings.path].keys)
        networks == filter.entries \ {EmptyEntry}
        Kept(k) == Loaded /\ expected[k] = {settings.values[k]}
    IN  wl = "wrapper" =>
            /\ filter.enabled = settings.values["netf_enabled"]
            /\ networks = EntriesOf(settings.values["netf_list"]) \ {EmptyEntry}
            /\ Kept("netf_list") => networks = EntriesOf(file["netf_list"]) \ {EmptyEntry}
            /\ Kept("netf_enabled") => filter.enabled = file["netf_enabled"]
=============================================================================
