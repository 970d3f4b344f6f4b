-------------------------------- MODULE Log --------------------------------
(***************************************************************************)
(* The log (log.c, log.h): which messages of the daemon reach syslog or    *)
(* GLib, given the levels compiled in and those asked for at run time, and *)
(* what of the process the log changes and gives back.  Masks and flags    *)
(* are the sets of the levels whose bits are set.                          *)
(***************************************************************************)
EXTENDS Naturals

CONSTANTS
    Compiled,      \* DLEYNA_LOG_LEVEL: the levels compiled in
    CompiledType,  \* DLEYNA_LOG_TYPE
    Fatal,         \* the levels that GLib makes fatal
    Requests,      \* sets of levels that are asked for at run time
    RequestTypes   \* types that are asked for at run time

Levels == {"error", "critical", "warning", "message", "info", "debug"}

(* DLEYNA_LOG_TYPE_FILE prints nothing, and no setting leads to it.        *)
LogTypes == {"syslog", "glib"}

(* Errors are fatal to GLib, other levels by G_DEBUG=fatal-warnings.       *)
ASSUME LogAssumption ==
    /\ Compiled \subseteq Levels
    /\ CompiledType \in LogTypes
    /\ Fatal \subseteq {"error", "critical", "warning"}
    /\ Requests \subseteq SUBSET Levels
    /\ RequestTypes \subseteq LogTypes

VARIABLES
    context,   \* s_log_context
    sysmask,   \* the process's syslog mask
    handler,   \* the process's default GLib handler
    before,    \* history: mask and handler that the process began with
    selected,  \* history: the levels that should be printed
    output,    \* history: the last message, and whether it was handed to
               \* syslog's output or to GLib's own handler
    aborted    \* GLib ended the process at a fatal message

logVars == <<context, sysmask, handler, before, selected, output, aborted>>

Context == [mask : SUBSET Levels, flags : SUBSET (Levels \cup {"recursion", "fatal"}),
            type : LogTypes, oldMask : SUBSET Levels,
            oldHandler : {"none", "glib", "program"}]

Cleared == [mask |-> {}, flags |-> {}, type |-> "syslog", oldMask |-> {},
            oldHandler |-> "none"]

Nothing == [by |-> "none", level |-> "debug", chosen |-> FALSE, printed |-> FALSE]

LogTypeOK ==
    /\ context \in Context
    /\ sysmask \in SUBSET Levels
    /\ handler \in {"glib", "program", "prv_handler"}
    /\ before \in [mask : SUBSET Levels, handler : {"glib", "program"}]
    /\ selected \in SUBSET Levels
    /\ output \in [by : {"none", "own", "update", "other"}, level : Levels,
                   chosen : BOOLEAN, printed : BOOLEAN]
    /\ aborted \in BOOLEAN

LogInit ==
    /\ before \in {[mask |-> Levels, handler |-> "glib"],
                   [mask |-> {"error", "info"}, handler |-> "program"]}
    /\ context = Cleared
    /\ sysmask = before.mask /\ handler = before.handler
    /\ selected = {}
    /\ output = Nothing
    /\ aborted = FALSE

-----------------------------------------------------------------------------
(* prv_get_mf: flags that name a level also let through what GLib marks as *)
(* recursive or fatal.                                                     *)
Flags(levels) == IF levels = {} THEN {} ELSE levels \cup {"recursion", "fatal"}

(* setlogmask: a mask of 0 leaves the mask of the process as it is.        *)
SetLogMask(old, new) == IF new = {} THEN old ELSE new

(* Slip: the levels are added to those selected so far.                    *)
SelectAdds(c, type, levels) ==
    [c EXCEPT !.type = type, !.mask = c.mask \cup (levels \cap Compiled),
              !.flags = c.flags \cup (Flags(levels) \cap Flags(Compiled))]

(* The context that prv_get_mf and the intersection with what is compiled  *)
(* in give.                                                                *)
Select(c, type, levels) ==
    [c EXCEPT !.type = type, !.mask = levels \cap Compiled,
              !.flags = Flags(levels) \cap Flags(Compiled)]

(* g_logv and then prv_handler, or the handler of the process: messages of *)
(* another domain are dropped.                                             *)
Handled(c, h, own, level) ==
    IF h = "prv_handler"
    THEN own /\ ({level} \cup (IF level \in Fatal THEN {"fatal"} ELSE {})) \cap c.flags # {}
    ELSE TRUE

(* Slip: syslog is called although no level is selected.                   *)
TracedUnmasked(c, m, h, level) ==
    IF c.type = "syslog" THEN level \in m
    ELSE c.flags # {} /\ Handled(c, h, TRUE, level)

(* dleyna_log_trace: is the message printed?                               *)
Traced(c, m, h, level) ==
    IF c.type = "syslog" THEN c.mask # {} /\ level \in m
    ELSE c.flags # {} /\ Handled(c, h, TRUE, level)

(* The message of a DLEYNA_LOG macro, none at all if its level is not      *)
(* compiled in; whether the level is in sel is kept for the properties.    *)
Message(by, c, m, h, level, sel) ==
    IF level \in Compiled
    THEN [by |-> by, level |-> level, chosen |-> level \in sel,
          printed |-> Traced(c, m, h, level)]
    ELSE Nothing

-----------------------------------------------------------------------------
(* Slip: the old mask is read after it was replaced.                       *)
InitialiseLate ==
    LET c == [Select(Cleared, CompiledType, Compiled)
                EXCEPT !.oldMask = {"info"}, !.oldHandler = handler]
    IN  /\ handler # "prv_handler"
        /\ context' = c
        /\ sysmask' = SetLogMask({"info"}, c.mask)
        /\ handler' = "prv_handler"
        /\ selected' = Compiled
        /\ output' = Nothing
        /\ UNCHANGED <<before, aborted>>

(* dleyna_log_init.  The version goes to syslog whatever the levels, and   *)
(* once more to another log.                                               *)
Initialise ==
    LET c == [Select(Cleared, CompiledType, Compiled)
                EXCEPT !.oldMask = sysmask, !.oldHandler = handler]
    IN  /\ handler # "prv_handler"
        /\ context' = c
        /\ sysmask' = SetLogMask({"info"}, c.mask)
        /\ handler' = "prv_handler"
        /\ selected' = Compiled
        /\ output' = IF CompiledType # "syslog"
                     THEN Message("own", c, sysmask', handler', "info", Compiled)
                     ELSE Nothing
        /\ UNCHANGED <<before, aborted>>

(* dleyna_log_update_type_level.  Its own message is sent after the        *)
(* context changed, and before setlogmask.                                 *)
UpdateTypeLevel(type, levels) ==
    LET c == Select(context, type, levels)
    IN  /\ context' = c
        /\ sysmask' = SetLogMask(sysmask, c.mask)
        /\ selected' = levels \cap Compiled
        /\ output' = Message("update", c, sysmask, handler, "info", selected')
        /\ UNCHANGED <<handler, before, aborted>>

(* A DLEYNA_LOG macro anywhere in the daemon.                              *)
Trace(level) ==
    /\ level \in Compiled
    /\ output' = Message("own", context, sysmask, handler, level, selected)
    /\ aborted' = (context.type = "glib" /\ context.flags # {} /\ level \in Fatal)
    /\ UNCHANGED <<context, sysmask, handler, before, selected>>

(* A message that a library sends to GLib's log.                           *)
OtherMessage(level) ==
    /\ output' = [by |-> "other", level |-> level, chosen |-> FALSE,
                  printed |-> Handled(context, handler, FALSE, level)]
    /\ aborted' = (level \in Fatal)
    /\ UNCHANGED <<context, sysmask, handler, before, selected>>

(* Slip: the context is cleared before the old handler is taken from it.   *)
FinalizeCleared ==
    /\ handler = "prv_handler"
    /\ context' = Cleared
    /\ sysmask' = SetLogMask({"info"}, context.oldMask)
    /\ handler' = context'.oldHandler
    /\ selected' = {}
    /\ output' = Nothing
    /\ UNCHANGED <<before, aborted>>

(* dleyna_log_finalize.                                                    *)
Finalize ==
    /\ handler = "prv_handler"
    /\ context' = Cleared
    /\ sysmask' = SetLogMask({"info"}, context.oldMask)
    /\ handler' = context.oldHandler
    /\ selected' = {}
    /\ output' = IF context.type # "syslog"
                 THEN Message("own", context, {"info"}, handler, "info", selected)
                 ELSE Nothing
    /\ UNCHANGED <<before, aborted>>

LogNext ==
    /\ ~aborted
    /\ \/ Initialise
       \/ /\ handler = "prv_handler"
          /\ \E type \in RequestTypes, levels \in Requests : UpdateTypeLevel(type, levels)
       \/ \E level \in Levels : Trace(level) \/ OtherMessage(level)
       \/ Finalize

LogSpec == LogInit /\ [][LogNext]_logVars

-----------------------------------------------------------------------------
(* A message of the daemon is printed if and only if its level is asked    *)
(* for and compiled in, whatever sequence of settings led there, and       *)
(* though setlogmask cannot clear the mask of the process; but GLib's log  *)
(* also prints a message that it makes fatal, unless the log is disabled.  *)
SelectedPrinted ==
    output.by = "own" =>
        (output.printed <=>
            \/ output.chosen
            \/ context.type = "glib" /\ context.flags # {} /\ output.level \in Fatal)

(* doc/logging.txt:77: "log-level=2: Only critical messages will be        *)
(* logged".                                                                *)
OnlySelectedPrinted ==
    output.printed /\ output.by # "other" => output.chosen

(* When the log is not in use, the process has the mask and the handler    *)
(* with which it began: however often it is opened and closed.             *)
GivesBack ==
    handler # "prv_handler" => sysmask = before.mask /\ handler = before.handler
=============================================================================
