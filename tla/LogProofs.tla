----------------------------- MODULE LogProofs -----------------------------
(* What holds of the log whatever is compiled in and asked for.            *)
EXTENDS Log, TLAPS

(* While the log is not in use, the process is as it began.                *)
Idle ==
    handler # "prv_handler" =>
        /\ context = Cleared /\ selected = {}
        /\ sysmask = before.mask /\ handler = before.handler

(* While it is in use, mask and flags say what was selected, and the mask  *)
(* of the process does where the context has one.                          *)
InUse ==
    handler = "prv_handler" =>
        /\ context.oldMask = before.mask /\ context.oldHandler = before.handler
        /\ context.mask = selected
        /\ context.mask # {} => sysmask = context.mask
        /\ \A level \in Compiled : level \in context.flags <=> level \in selected
        /\ context.flags # {} => "fatal" \in context.flags

LogInv == LogTypeOK /\ before.mask # {} /\ Idle /\ InUse /\ SelectedPrinted

USE DEF LogTypes

(* Selecting levels.                                                       *)
LEMMA SelectProperties ==
    ASSUME NEW c \in Context, NEW type \in LogTypes, NEW levels
    PROVE  LET r == Select(c, type, levels)
           IN  /\ r \in Context
               /\ r.type = type /\ r.mask = levels \cap Compiled
               /\ r.oldMask = c.oldMask /\ r.oldHandler = c.oldHandler
               /\ \A level \in Compiled : level \in r.flags <=> level \in levels \cap Compiled
               /\ r.flags # {} => "fatal" \in r.flags
<1> DEFINE s == Select(c, type, levels)
           F == Flags(levels) \cap Flags(Compiled)
<1>1. Compiled \subseteq Levels
  BY LogAssumption
<1>2. F \subseteq Levels \cup {"recursion", "fatal"}
  BY <1>1 DEF Flags
<1>3. \A level \in Compiled : level \in F <=> level \in levels \cap Compiled
  BY <1>1 DEF Flags, Levels
<1>4. F # {} => "fatal" \in F
  BY DEF Flags
<1> HIDE DEF F
<1>5. s = [c EXCEPT !.type = type, !.mask = levels \cap Compiled, !.flags = F]
  BY DEF Select, F
<1>6. levels \cap Compiled \in SUBSET Levels
  BY <1>1
<1> HIDE DEF s
<1>7. s \in Context
  BY <1>2, <1>5, <1>6 DEF Context
<1>8. /\ s.type = type /\ s.mask = levels \cap Compiled /\ s.flags = F
      /\ s.oldMask = c.oldMask /\ s.oldHandler = c.oldHandler
  BY <1>5 DEF Context
<1>9. /\ \A level \in Compiled : level \in s.flags <=> level \in levels \cap Compiled
      /\ s.flags # {} => "fatal" \in s.flags
  BY <1>3, <1>4, <1>8
<1> QED
  BY <1>7, <1>8, <1>9 DEF s

(* A message of a level that is compiled in, while the log is in use.      *)
LEMMA MessageProperties ==
    ASSUME NEW c \in Context, NEW m, NEW level \in Levels, NEW by, NEW sel,
           c.mask = sel, c.mask # {} => m = c.mask,
           \A l \in Compiled : l \in c.flags <=> l \in sel,
           c.flags # {} => "fatal" \in c.flags
    PROVE  LET o == Message(by, c, m, "prv_handler", level, sel)
           IN  o.by = "own" =>
                   (o.printed <=>
                       \/ o.chosen
                       \/ c.type = "glib" /\ c.flags # {} /\ o.level \in Fatal)
<1> SUFFICES ASSUME level \in Compiled
             PROVE  Traced(c, m, "prv_handler", level) <=>
                        \/ level \in sel
                        \/ c.type = "glib" /\ c.flags # {} /\ level \in Fatal
  BY DEF Message, Nothing
<1>1. CASE c.type = "syslog"
  BY <1>1 DEF Traced
<1>2. CASE c.type = "glib"
  <2>1. Traced(c, m, "prv_handler", level) <=>
            c.flags # {} /\ ({level} \cup (IF level \in Fatal THEN {"fatal"} ELSE {}))
                                \cap c.flags # {}
    BY <1>2 DEF Traced, Handled
  <2>2. CASE level \in Fatal
    BY <1>2, <2>1, <2>2
  <2>3. CASE level \notin Fatal
    BY <1>2, <2>1, <2>3
  <2> QED
    BY <2>2, <2>3
<1> QED
  BY <1>1, <1>2 DEF Context

(* A message has its type, and the level "info" is one.                    *)
LEMMA MessageTyped ==
    ASSUME NEW by \in {"none", "own", "update", "other"}, NEW c, NEW m, NEW h,
           NEW level \in Levels, NEW sel
    PROVE  Message(by, c, m, h, level, sel) \in
               [by : {"none", "own", "update", "other"}, level : Levels,
                chosen : BOOLEAN, printed : BOOLEAN]
<1>1. Traced(c, m, h, level) \in BOOLEAN
  BY DEF Traced, Handled
<1>2. "debug" \in Levels
  BY DEF Levels
<1> QED
  BY <1>1, <1>2 DEF Message, Nothing

-----------------------------------------------------------------------------
(* The parts of the type.                                                  *)
LEMMA TypeParts ==
    ASSUME LogTypeOK
    PROVE  /\ context \in Context /\ sysmask \in SUBSET Levels
           /\ handler \in {"glib", "program", "prv_handler"}
           /\ before \in [mask : SUBSET Levels, handler : {"glib", "program"}]
           /\ selected \in SUBSET Levels
           /\ aborted \in BOOLEAN
BY DEF LogTypeOK

(* A process in which the log was never opened, and a cleared context.     *)
LEMMA InitStep == LogInit => LogInv
<1> SUFFICES ASSUME LogInit PROVE LogInv
  OBVIOUS
<1>1. /\ before \in [mask : SUBSET Levels, handler : {"glib", "program"}]
      /\ before.mask # {}
  BY DEF LogInit, Levels
<1>2. /\ context = Cleared /\ selected = {} /\ aborted = FALSE
      /\ output = Nothing /\ sysmask = before.mask /\ handler = before.handler
  BY DEF LogInit
<1>3. Cleared \in Context
  BY DEF Cleared, Context
<1>4. Nothing \in [by : {"none", "own", "update", "other"}, level : Levels,
                   chosen : BOOLEAN, printed : BOOLEAN]
  BY DEF Nothing, Levels
<1>5. LogTypeOK
  BY <1>1, <1>2, <1>3, <1>4 DEF LogTypeOK
<1>6. Idle /\ InUse
  BY <1>1, <1>2 DEF Idle, InUse
<1>7. SelectedPrinted
  BY <1>2 DEF SelectedPrinted, Nothing
<1> QED
  BY <1>1, <1>5, <1>6, <1>7 DEF LogInv

(* Opening the log keeps what the process had in the context.              *)
LEMMA InitialiseStep ==
    ASSUME LogInv, Initialise
    PROVE  LogInv'
<1> DEFINE s == Select(Cleared, CompiledType, Compiled)
           c == [s EXCEPT !.oldMask = sysmask, !.oldHandler = handler]
<1>1. /\ LogTypeOK /\ before.mask # {} /\ Idle
      /\ CompiledType \in LogTypes /\ Compiled \in SUBSET Levels
  BY LogAssumption DEF LogInv
<1>2. /\ handler # "prv_handler" /\ handler' = "prv_handler"
      /\ context' = c
      /\ sysmask' = SetLogMask({"info"}, c.mask)
      /\ selected' = Compiled
      /\ output' = IF CompiledType # "syslog"
                   THEN Message("own", c, sysmask', "prv_handler", "info", Compiled)
                   ELSE Nothing
      /\ before' = before /\ aborted' = aborted
  BY DEF Initialise
<1>3. Cleared \in Context
  BY DEF Cleared, Context
<1>4. /\ s \in Context /\ s.mask = Compiled
      /\ \A level \in Compiled : level \in s.flags <=> level \in Compiled
      /\ s.flags # {} => "fatal" \in s.flags
  <2>1. /\ s \in Context /\ s.mask = Compiled \cap Compiled
        /\ \A level \in Compiled : level \in s.flags <=> level \in Compiled \cap Compiled
        /\ s.flags # {} => "fatal" \in s.flags
    BY ONLY <1>1, <1>3, SelectProperties
  <2> HIDE DEF s
  <2> QED
    BY <2>1
<1>5. sysmask = before.mask /\ handler = before.handler /\ handler \in {"glib", "program"}
  BY <1>1, <1>2, TypeParts DEF Idle
<1> HIDE DEF s
<1>6. c \in Context
  BY <1>1, <1>4, <1>5, TypeParts DEF Context
<1>7. /\ c.mask = Compiled /\ c.oldMask = before.mask /\ c.oldHandler = before.handler
      /\ c.flags = s.flags
  BY <1>4, <1>5 DEF Context
<1> HIDE DEF c
<1>8. c.mask # {} => sysmask' = c.mask
  BY <1>2 DEF SetLogMask
<1>9. /\ sysmask' \in SUBSET Levels
  BY <1>1, <1>2, <1>7 DEF SetLogMask, Levels
<1>10. "info" \in Levels
  BY DEF Levels
<1>11. output' \in [by : {"none", "own", "update", "other"}, level : Levels,
                    chosen : BOOLEAN, printed : BOOLEAN]
  BY <1>2, <1>10, MessageTyped DEF Nothing, Levels
<1>12. LogTypeOK'
  BY <1>1, <1>2, <1>6, <1>9, <1>11, TypeParts DEF LogTypeOK
<1>13. Idle' /\ InUse'
  BY <1>2, <1>4, <1>7, <1>8 DEF Idle, InUse
<1>14. SelectedPrinted'
  <2> DEFINE o == Message("own", c, sysmask', "prv_handler", "info", Compiled)
  <2>1. o.by = "own" =>
            (o.printed <=> \/ o.chosen
                           \/ c.type = "glib" /\ c.flags # {} /\ o.level \in Fatal)
    BY <1>4, <1>6, <1>7, <1>8, <1>10, MessageProperties
  <2> HIDE DEF o
  <2>2. output' = o \/ output' = Nothing
    BY <1>2 DEF o
  <2> QED
    BY <1>2, <2>1, <2>2 DEF SelectedPrinted, Nothing
<1> QED
  BY <1>1, <1>2, <1>12, <1>13, <1>14 DEF LogInv

(* New levels replace the old ones, though a mask of 0 stays as it was.    *)
LEMMA UpdateStep ==
    ASSUME LogInv, NEW type \in LogTypes, NEW levels,
           handler = "prv_handler", UpdateTypeLevel(type, levels)
    PROVE  LogInv'
<1> DEFINE c == Select(context, type, levels)
           sel == levels \cap Compiled
           o == Message("update", c, sysmask, handler, "info", sel)
<1>1. LogTypeOK /\ before.mask # {} /\ Compiled \in SUBSET Levels
  BY LogAssumption DEF LogInv
<1>2. context \in Context /\ sysmask \in SUBSET Levels
  BY <1>1, TypeParts
<1>3. /\ context.oldMask = before.mask /\ context.oldHandler = before.handler
  BY DEF LogInv, InUse
<1>4. /\ context' = c
      /\ sysmask' = SetLogMask(sysmask, c.mask)
      /\ selected' = sel
      /\ output' = o
      /\ handler' = handler /\ before' = before /\ aborted' = aborted
  BY DEF UpdateTypeLevel
<1>5. /\ c \in Context /\ c.mask = sel
      /\ c.oldMask = context.oldMask /\ c.oldHandler = context.oldHandler
      /\ \A level \in Compiled : level \in c.flags <=> level \in sel
      /\ c.flags # {} => "fatal" \in c.flags
  BY ONLY <1>2, SelectProperties, type \in LogTypes
<1> HIDE DEF c
<1>6. sel \in SUBSET Levels
  BY <1>1
<1>7. o \in [by : {"none", "own", "update", "other"}, level : Levels,
             chosen : BOOLEAN, printed : BOOLEAN]
  <2>1. "info" \in Levels
    BY DEF Levels
  <2> QED
    BY ONLY <2>1, MessageTyped
<1>8. o.by # "own"
  BY DEF Message, Nothing
<1> HIDE DEF sel, o
<1>9. sysmask' \in SUBSET Levels /\ (c.mask # {} => sysmask' = c.mask)
  BY <1>2, <1>4, <1>5, <1>6 DEF SetLogMask
<1>10. LogTypeOK'
  BY <1>1, <1>4, <1>5, <1>6, <1>7, <1>9, TypeParts DEF LogTypeOK
<1>11. Idle' /\ InUse'
  BY <1>3, <1>4, <1>5, <1>9 DEF Idle, InUse
<1>12. SelectedPrinted'
  BY <1>4, <1>8 DEF SelectedPrinted
<1> QED
  BY <1>1, <1>4, <1>10, <1>11, <1>12 DEF LogInv

(* A message of the daemon, before, while and after the log is in use.     *)
LEMMA TraceStep ==
    ASSUME LogInv, NEW level \in Levels, Trace(level)
    PROVE  LogInv'
<1> DEFINE o == Message("own", context, sysmask, handler, level, selected)
<1>1. LogTypeOK /\ before.mask # {} /\ Idle /\ InUse
  BY DEF LogInv
<1>2. /\ level \in Compiled /\ output' = o
      /\ aborted' \in BOOLEAN
      /\ UNCHANGED <<context, sysmask, handler, before, selected>>
  BY DEF Trace
<1>3. o \in [by : {"none", "own", "update", "other"}, level : Levels,
             chosen : BOOLEAN, printed : BOOLEAN]
  BY MessageTyped
<1>4. o.by = "own" =>
          (o.printed <=> \/ o.chosen
                         \/ context.type = "glib" /\ context.flags # {} /\ o.level \in Fatal)
  <2>1. CASE handler = "prv_handler"
    <3>1. /\ context.mask = selected
          /\ context.mask # {} => sysmask = context.mask
          /\ \A l \in Compiled : l \in context.flags <=> l \in selected
          /\ context.flags # {} => "fatal" \in context.flags
      BY <1>1, <2>1 DEF InUse
    <3> QED
      BY ONLY <1>1, <2>1, <3>1, TypeParts, MessageProperties, level \in Levels
  <2>2. CASE handler # "prv_handler"
    BY <1>1, <1>2, <2>2 DEF Idle, Cleared, Message, Traced
  <2> QED
    BY <2>1, <2>2
<1> HIDE DEF o
<1>5. LogTypeOK'
  BY <1>1, <1>2, <1>3, TypeParts DEF LogTypeOK
<1>6. Idle' /\ InUse'
  BY <1>1, <1>2 DEF Idle, InUse
<1>7. SelectedPrinted'
  BY <1>2, <1>4 DEF SelectedPrinted
<1> QED
  BY <1>1, <1>2, <1>5, <1>6, <1>7 DEF LogInv

(* A message of another library is none of the daemon's.                   *)
LEMMA OtherStep ==
    ASSUME LogInv, NEW level \in Levels, OtherMessage(level)
    PROVE  LogInv'
<1>1. LogTypeOK /\ before.mask # {} /\ Idle /\ InUse
  BY DEF LogInv
<1>2. /\ aborted' \in BOOLEAN /\ output'.by # "own"
      /\ UNCHANGED <<context, sysmask, handler, before, selected>>
  BY DEF OtherMessage
<1>3. Handled(context, handler, FALSE, level) \in BOOLEAN
  BY DEF Handled
<1>4. output' \in [by : {"none", "own", "update", "other"}, level : Levels,
                   chosen : BOOLEAN, printed : BOOLEAN]
  BY <1>3 DEF OtherMessage
<1>5. LogTypeOK'
  BY <1>1, <1>2, <1>4, TypeParts DEF LogTypeOK
<1>6. Idle' /\ InUse'
  BY <1>1, <1>2 DEF Idle, InUse
<1>7. SelectedPrinted'
  BY <1>2 DEF SelectedPrinted
<1> QED
  BY <1>1, <1>2, <1>5, <1>6, <1>7 DEF LogInv

(* Closing the log gives the process its mask, which is not empty, and its *)
(* handler.                                                                *)
LEMMA FinalizeStep ==
    ASSUME LogInv, Finalize
    PROVE  LogInv'
<1> DEFINE o == Message("own", context, {"info"}, handler, "info", selected)
<1>1. LogTypeOK /\ before.mask # {} /\ InUse
  BY DEF LogInv
<1>2. /\ handler = "prv_handler" /\ handler' = context.oldHandler
      /\ context' = Cleared
      /\ sysmask' = SetLogMask({"info"}, context.oldMask)
      /\ selected' = {}
      /\ output' = IF context.type # "syslog" THEN o ELSE Nothing
      /\ before' = before /\ aborted' = aborted
  BY DEF Finalize
<1>3. /\ context \in Context
      /\ before \in [mask : SUBSET Levels, handler : {"glib", "program"}]
  BY <1>1, TypeParts
<1>4. sysmask' = before.mask /\ handler' = before.handler
  BY <1>1, <1>2 DEF InUse, SetLogMask
<1>5. o \in [by : {"none", "own", "update", "other"}, level : Levels,
             chosen : BOOLEAN, printed : BOOLEAN]
  <2>1. "info" \in Levels
    BY DEF Levels
  <2> QED
    BY ONLY <2>1, MessageTyped
<1>6. context.type # "syslog" /\ o.by = "own" => (o.printed <=> o.chosen)
  <2> SUFFICES ASSUME context.type = "glib", "info" \in Compiled
               PROVE  Traced(context, {"info"}, handler, "info") <=> "info" \in selected
    BY <1>3 DEF Context, Message, Nothing
  <2>1. "info" \notin Fatal
    BY LogAssumption
  <2>2. "info" \in context.flags <=> "info" \in selected
    BY <1>1, <1>2 DEF InUse
  <2>3. Handled(context, handler, TRUE, "info") <=> "info" \in context.flags
    BY <1>2, <2>1 DEF Handled
  <2> QED
    BY <2>2, <2>3 DEF Traced
<1> HIDE DEF o
<1>7. output' = Nothing \/ (output' = o /\ context.type # "syslog")
  BY <1>2
<1>8. Cleared \in Context
  BY DEF Cleared, Context
<1>9. Nothing \in [by : {"none", "own", "update", "other"}, level : Levels,
                   chosen : BOOLEAN, printed : BOOLEAN]
  BY DEF Nothing, Levels
<1>10. LogTypeOK'
  BY <1>1, <1>2, <1>3, <1>4, <1>5, <1>7, <1>8, <1>9, TypeParts DEF LogTypeOK
<1>11. Idle' /\ InUse'
  BY <1>2, <1>3, <1>4 DEF Idle, InUse
<1>12. SelectedPrinted'
  BY <1>2, <1>6, <1>7 DEF SelectedPrinted, Nothing, Cleared
<1> QED
  BY <1>1, <1>2, <1>10, <1>11, <1>12 DEF LogInv

(* LogInv is inductive.                                                    *)
LEMMA LogInvariant == LogSpec => []LogInv
<1>1. LogInv /\ [LogNext]_logVars => LogInv'
  <2> SUFFICES ASSUME LogInv, [LogNext]_logVars
               PROVE  LogInv'
    OBVIOUS
  <2>1. CASE Initialise
    BY <2>1, InitialiseStep
  <2>2. ASSUME NEW type \in RequestTypes, NEW levels \in Requests,
               handler = "prv_handler", UpdateTypeLevel(type, levels)
        PROVE  LogInv'
    <3>1. type \in LogTypes
      BY LogAssumption
    <3> QED
      BY <2>2, <3>1, UpdateStep
  <2>3. ASSUME NEW level \in Levels, Trace(level)
        PROVE  LogInv'
    BY <2>3, TraceStep
  <2>4. ASSUME NEW level \in Levels, OtherMessage(level)
        PROVE  LogInv'
    BY <2>4, OtherStep
  <2>5. CASE Finalize
    BY <2>5, FinalizeStep
  <2>6. CASE UNCHANGED logVars
    BY <2>6 DEF logVars, LogInv, LogTypeOK, Idle, InUse, SelectedPrinted
  <2> QED
    BY <2>1, <2>2, <2>3, <2>4, <2>5, <2>6 DEF LogNext
<1> QED
  BY <1>1, InitStep, PTL DEF LogSpec

(* Every variable of the log keeps its type.                               *)
THEOREM LogTypeCorrect == LogSpec => []LogTypeOK
<1>1. LogInv => LogTypeOK
  BY DEF LogInv
<1> QED
  BY <1>1, LogInvariant, PTL

(* Whatever was compiled in, and whatever sequence of types and levels was *)
(* asked for, the daemon prints the messages of these levels and no other  *)
(* but GLib's fatal ones.                                                  *)
THEOREM LogPrintsSelected == LogSpec => []SelectedPrinted
<1>1. LogInv => SelectedPrinted
  BY DEF LogInv
<1> QED
  BY <1>1, LogInvariant, PTL

(* The process has its own mask and handler back when the log is closed,   *)
(* however often it was opened.                                            *)
THEOREM LogGivesBack == LogSpec => []GivesBack
<1>1. LogInv => GivesBack
  BY DEF LogInv, Idle, GivesBack
<1> QED
  BY <1>1, LogInvariant, PTL
=============================================================================
