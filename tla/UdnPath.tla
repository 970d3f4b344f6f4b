------------------------------ MODULE UdnPath ------------------------------
(***************************************************************************)
(* dleyna_core_prv_convert_udn_to_path (core.c): the loop that turns the   *)
(* UDN of a device into an element of a D-Bus path.  Characters are bytes. *)
(* The result is written into dest_len + 1 bytes, the last one for the     *)
(* NUL; what a program does that writes beyond them is undefined, so that  *)
(* the model stops there.                                                  *)
(***************************************************************************)
EXTENDS Integers, Sequences

CONSTANTS
    Udns,        \* the strings to convert
    Limit,       \* G_MAXUINT32 / 2
    SignedChar   \* is char a signed type in this build?

ASSUME UdnAssumption ==
    /\ Udns \subseteq Seq(1..255)
    /\ Limit \in Nat
    /\ SignedChar \in BOOLEAN

VARIABLES
    udn,    \* the UDN
    pos,    \* how many of its characters were read
    path,   \* the result so far: i is its length
    overrun,\* a byte beyond those of uuid was written
    done    \* the loop was left

udnVars == <<udn, pos, path, overrun, done>>

UdnTypeOK ==
    /\ udn \in Udns
    /\ pos \in 0..Len(udn)
    /\ path \in Seq(1..255)
    /\ overrun \in BOOLEAN
    /\ done \in BOOLEAN

UdnInit == udn \in Udns /\ pos = 0 /\ path = <<>> /\ overrun = FALSE /\ done = FALSE

(* Slip: no space is reserved for escapes.                                 *)
DestLenShort == IF Len(udn) < Limit THEN Len(udn) ELSE Limit

(* dest_len.                                                               *)
DestLen == IF 3 * Len(udn) < Limit THEN 3 * Len(udn) ELSE Limit

Underscore == 95

(* Slip: a character of a UDN is taken for one of a path.                  *)
KeptDash(c) == c \in (48..57) \cup (65..90) \cup (97..122) \cup {Underscore, 45}

(* g_ascii_isalnum or '_'.                                                 *)
Kept(c) == c \in (48..57) \cup (65..90) \cup (97..122) \cup {Underscore}

Digit(n) == IF n < 10 THEN 48 + n ELSE 87 + n

(* Slips: the escape is four characters long, or made of the values of     *)
(* the digits.                                                             *)
EscapedLong(c) == <<Underscore, 48, Digit(c \div 16), Digit(c % 16)>>

EscapedRaw(c) == <<Underscore, c \div 16, c % 16>>

(* "_%02x": a char above 127 that is negative is printed as an int.        *)
Escaped(c) ==
    IF SignedChar /\ c > 127
    THEN <<Underscore, 102, 102, 102, 102, 102, 102, Digit(c \div 16), Digit(c % 16)>>
    ELSE <<Underscore, Digit(c \div 16), Digit(c % 16)>>

Converted(c) == IF Kept(c) THEN <<c>> ELSE Escaped(c)

(* Where a turn of the loop begins.                                        *)
Looping == ~done /\ ~overrun /\ pos < Len(udn) /\ Len(path) < DestLen

(* What is written by a turn that begins now, and the NUL after it, stays  *)
(* within uuid.                                                            *)
Fits == Len(path) + Len(Converted(udn[pos + 1])) <= DestLen

(* One turn of the loop.                                                   *)
Turn ==
    /\ Looping /\ Fits
    /\ path' = path \o Converted(udn[pos + 1])
    /\ pos' = pos + 1
    /\ UNCHANGED <<udn, overrun, done>>

(* g_snprintf is given dest_len + 1 wherever it begins, not what is left   *)
(* of uuid, and adds to i what it would have written: at the latest the    *)
(* NUL of line 70 is out of bounds.                                        *)
TurnBeyond ==
    /\ Looping /\ ~Fits
    /\ overrun' = TRUE
    /\ UNCHANGED <<udn, pos, path, done>>

Leave ==
    /\ ~done /\ ~overrun /\ ~Looping
    /\ done' = TRUE
    /\ UNCHANGED <<udn, pos, path, overrun>>

UdnNext == Turn \/ TurnBeyond \/ Leave

UdnSpec == UdnInit /\ [][UdnNext]_udnVars

-----------------------------------------------------------------------------
(* core.c:34, "This function will generate a valid dbus path": every       *)
(* character may stand in one.                                             *)
ValidPath ==
    \A i \in 1..Len(path) :
        path[i] \in (48..57) \cup (65..90) \cup (97..122) \cup {95}

(* The UDNs whose escapes have the three characters that are counted for   *)
(* them: no escape is sign-extended.                                       *)
Regular(u) == SignedChar => \A i \in 1..Len(u) : u[i] <= 127

(* The UDNs whose conversion is not cut at the limit.                      *)
Whole(u) == 3 * Len(u) <= Limit

(* core.c:46, "The max size of the converted UDN can be 3 times the        *)
(* original size (if all char are not dbus compliant)": the space that is  *)
(* reserved for the result, dest_len + 1 bytes, is enough.                 *)
NeverOverruns == ~overrun

(* What is true of it: the space is enough for a UDN that need not be cut, *)
(* if no character of it is negative.                                      *)
SpaceSuffices == Regular(udn) /\ Whole(udn) => ~overrun

Value(d) == IF d < 58 THEN d - 48 ELSE d - 87

(* One character of a path: an escape is read at its '_', and its digits   *)
(* are passed over.                                                        *)
ReadOne(p, i, r) ==
    IF r.skip > 0 THEN [r EXCEPT !.skip = @ - 1]
    ELSE IF p[i] # Underscore THEN [out |-> r.out \o <<p[i]>>, skip |-> 0]
    ELSE [out |-> r.out \o <<IF i + 2 > Len(p) THEN 0
                             ELSE 16 * Value(p[i + 1]) + Value(p[i + 2])>>,
          skip |-> 2]

Nothing == [out |-> <<>>, skip |-> 0]

Decode(p) ==
    LET read[i \in 0..Len(p)] == IF i = 0 THEN Nothing ELSE ReadOne(p, i, read[i - 1])
    IN  read[Len(p)].out

(* Two devices do not share a path: what was converted of a regular UDN    *)
(* without a '_' of its own can be read from the path, cut at the limit or *)
(* not, and all of a UDN is converted that is sure to fit.                 *)
Reversible ==
    Regular(udn) =>
        /\ (\A i \in 1..Len(udn) : udn[i] # Underscore) => Decode(path) = SubSeq(udn, 1, pos)
        /\ done /\ Whole(udn) => pos = Len(udn)
=============================================================================
