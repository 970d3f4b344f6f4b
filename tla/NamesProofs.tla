---------------------------- MODULE NamesProofs ----------------------------
(***************************************************************************)
(* What holds of the names that the library makes: of the path of every    *)
(* UDN, however long, and of the sources of any number of chains.          *)
(***************************************************************************)
EXTENDS UdnPath, ChainSources, Induction, SequenceTheorems

-----------------------------------------------------------------------------
(***************************************************************************)
(* UDNs: reading a path.                                                   *)
(***************************************************************************)
Readings == [out : Seq(Int), skip : 0..2]

(* The elements of a sequence.                                             *)
LEMMA Elements ==
    ASSUME NEW S, NEW s \in Seq(S)
    PROVE  Len(s) \in Nat /\ \A i \in 1..Len(s) : s[i] \in S
<1>1. Len(s) \in Nat /\ s \in [1..Len(s) -> S]
  BY LenProperties
<1> QED
  BY <1>1

(* What is read is a sequence of numbers.                                  *)
LEMMA ReadOneTyped ==
    ASSUME NEW p \in Seq(1..255), NEW i \in 1..Len(p), NEW r \in Readings
    PROVE  ReadOne(p, i, r) \in Readings
<1>1. Len(p) \in Nat /\ \A j \in 1..Len(p) : p[j] \in Int
  <2>1. Len(p) \in Nat /\ p \in [1..Len(p) -> 1..255]
    BY LenProperties
  <2>2. 1..255 \subseteq Int
    OBVIOUS
  <2>3. p \in [1..Len(p) -> Int]
    BY <2>1, <2>2
  <2> QED
    BY <2>1, <2>3
<1>2. r.out \in Seq(Int) /\ r.skip \in 0..2 /\ r = [out |-> r.out, skip |-> r.skip]
  BY DEF Readings
<1>3. \A x \in Int : r.out \o <<x>> \in Seq(Int)
  BY <1>2
<1>4. \A d \in Int : Value(d) \in Int
  BY DEF Value
<1>5. CASE r.skip > 0
  <2>1. ReadOne(p, i, r) = [out |-> r.out, skip |-> r.skip - 1]
    BY <1>2, <1>5 DEF ReadOne
  <2> QED
    BY <1>2, <1>5, <2>1 DEF Readings
<1>6. CASE ~(r.skip > 0) /\ p[i] # Underscore
  <2>1. ReadOne(p, i, r) = [out |-> r.out \o <<p[i]>>, skip |-> 0]
    BY <1>6 DEF ReadOne
  <2> QED
    BY <1>1, <1>3, <2>1 DEF Readings
<1>7. CASE ~(r.skip > 0) /\ p[i] = Underscore
  <2> DEFINE v == IF i + 2 > Len(p) THEN 0 ELSE 16 * Value(p[i + 1]) + Value(p[i + 2])
  <2>1. ReadOne(p, i, r) = [out |-> r.out \o <<v>>, skip |-> 2]
    BY <1>7 DEF ReadOne
  <2>2. v \in Int
    <3>1. CASE i + 2 > Len(p)
      BY <3>1
    <3>2. CASE ~(i + 2 > Len(p))
      <4>1. i + 1 \in 1..Len(p) /\ i + 2 \in 1..Len(p)
        BY <1>1, <3>2
      <4>2. Value(p[i + 1]) \in Int /\ Value(p[i + 2]) \in Int
        BY <1>1, <1>4, <4>1
      <4> QED
        BY <3>2, <4>2
    <3> QED
      BY <3>1, <3>2
  <2> HIDE DEF v
  <2> QED
    BY <1>3, <2>1, <2>2 DEF Readings
<1> QED
  BY <1>5, <1>6, <1>7

(* At an escape, and within one.                                           *)
LEMMA ReadEscape ==
    ASSUME NEW p, NEW i, NEW s, p[i] = Underscore, ~(i + 2 > Len(p))
    PROVE  ReadOne(p, i, [out |-> s, skip |-> 0]) =
               [out |-> s \o <<16 * Value(p[i + 1]) + Value(p[i + 2])>>, skip |-> 2]
BY DEF ReadOne

LEMMA ReadSkip ==
    ASSUME NEW p, NEW i, NEW s
    PROVE  /\ ReadOne(p, i, [out |-> s, skip |-> 2]) = [out |-> s, skip |-> 1]
           /\ ReadOne(p, i, [out |-> s, skip |-> 1]) = [out |-> s, skip |-> 0]
BY DEF ReadOne

(* What is read of p, character by character.                              *)
Reads(p, f) == f[0] = Nothing /\ \A i \in 1..Len(p) : f[i] = ReadOne(p, i, f[i - 1])

(* The recursion of Decode is one, for a path of any length.               *)
LEMMA DecodeReads ==
    ASSUME NEW p \in Seq(1..255)
    PROVE  \E f : Reads(p, f) /\ Decode(p) = f[Len(p)].out
<1> DEFINE N == Len(p)
           step == [x \in (1..N) \X Readings |-> ReadOne(p, x[1], x[2])]
<1>1. N \in Nat
  BY LenProperties
<1>2. Nothing \in Readings
  BY EmptySeq DEF Nothing, Readings
<1>3. step \in [(1..N) \X Readings -> Readings]
  BY ReadOneTyped
<1>4. PICK f \in [0..N -> Readings] : Follows(f, N, Nothing, step)
  <2> HIDE DEF N, step
  <2> QED
    BY <1>1, <1>2, <1>3, Recursion
<1>5. ASSUME NEW i \in 1..N PROVE f[i] = ReadOne(p, i, f[i - 1])
  <2>1. f[i - 1] \in Readings
    BY <1>1, <1>4
  <2>2. step[<<i, f[i - 1]>>] = ReadOne(p, i, f[i - 1])
    BY <2>1
  <2> HIDE DEF step
  <2> QED
    BY <1>4, <2>2 DEF Follows
<1> HIDE DEF step
<1>6. f = [i \in 0..N |-> IF i = 0 THEN Nothing ELSE ReadOne(p, i, f[i - 1])]
  <2> HIDE DEF N
  <2>1. ASSUME NEW i \in 0..N
        PROVE  f[i] = IF i = 0 THEN Nothing ELSE ReadOne(p, i, f[i - 1])
    BY <1>1, <1>4, <1>5 DEF Follows
  <2> QED
    BY <1>4, <2>1
<1> DEFINE read[i \in 0..N] == IF i = 0 THEN Nothing ELSE ReadOne(p, i, read[i - 1])
<1>7. read = [i \in 0..N |-> IF i = 0 THEN Nothing ELSE ReadOne(p, i, read[i - 1])]
  <2> HIDE DEF N
  <2> QED
    BY <1>6
<1>8. Decode(p) = read[N].out
  BY DEF Decode
<1>9. 0 \in 0..N /\ \A i \in 1..N : i \in 0..N /\ i # 0
  BY <1>1
<1> HIDE DEF read
<1>10. Reads(p, read)
  BY <1>7, <1>9 DEF Reads
<1> QED
  BY <1>8, <1>10

-----------------------------------------------------------------------------
(***************************************************************************)
(* UDNs: writing one.                                                      *)
(***************************************************************************)
(* The characters that may stand in a path.                                *)
PathChars == (48..57) \cup (65..90) \cup (97..122) \cup {95}

(* The characters whose escapes are three characters long.                 *)
Short(c) == SignedChar => c <= 127

(* A short escape has two digits that give back the character.             *)
LEMMA EscapedThree ==
    ASSUME NEW c \in 1..255, Short(c)
    PROVE  /\ Escaped(c) = <<Underscore, Digit(c \div 16), Digit(c % 16)>>
           /\ 16 * Value(Digit(c \div 16)) + Value(Digit(c % 16)) = c
<1>1. c \div 16 \in 0..15 /\ c % 16 \in 0..15 /\ 16 * (c \div 16) + (c % 16) = c
  OBVIOUS
<1>2. \A n \in 0..15 : Value(Digit(n)) = n
  BY DEF Digit, Value
<1>3. Escaped(c) = <<Underscore, Digit(c \div 16), Digit(c % 16)>>
  BY DEF Escaped, Short
<1> QED
  BY <1>1, <1>2, <1>3

(* What is written has only characters that may stand in a path, also when *)
(* the character is sign-extended.                                         *)
LEMMA ConvertedValid ==
    ASSUME NEW c \in 1..255
    PROVE  /\ Converted(c) \in Seq(1..255)
           /\ \A i \in 1..Len(Converted(c)) : Converted(c)[i] \in PathChars
<1> DEFINE a == Digit(c \div 16)
           b == Digit(c % 16)
           new == Converted(c)
<1>1. PathChars \subseteq 1..255 /\ Underscore \in PathChars /\ 102 \in PathChars
  BY DEF PathChars, Underscore
<1>2. a \in PathChars /\ b \in PathChars
  <2>1. c \div 16 \in 0..15 /\ c % 16 \in 0..15
    OBVIOUS
  <2>2. \A n \in 0..15 : Digit(n) \in PathChars
    BY DEF Digit, PathChars
  <2> QED
    BY <2>1, <2>2
<1> HIDE DEF a, b, new
<1>3. CASE Kept(c)
  <2>1. c \in PathChars
    BY <1>3 DEF Kept, PathChars, Underscore
  <2>2. new = <<c>>
    BY <1>3 DEF Converted, new
  <2>3. new \in Seq(1..255) /\ Len(new) = 1 /\ new[1] = c
    BY <2>2
  <2> QED
    BY <2>1, <2>3 DEF new
<1>4. CASE ~Kept(c) /\ SignedChar /\ c > 127
  <2>1. new = <<Underscore, 102, 102, 102, 102, 102, 102, a, b>>
    BY <1>4 DEF Converted, Escaped, new, a, b
  <2>2. /\ new \in Seq(1..255) /\ Len(new) = 9
        /\ new[1] = Underscore /\ new[8] = a /\ new[9] = b
        /\ \A i \in 2..7 : new[i] = 102
    BY <1>1, <1>2, <2>1
  <2>3. \A i \in 1..9 : i = 1 \/ i \in 2..7 \/ i = 8 \/ i = 9
    OBVIOUS
  <2> QED
    BY <1>1, <1>2, <2>2, <2>3 DEF new
<1>5. CASE ~Kept(c) /\ ~(SignedChar /\ c > 127)
  <2>1. new = <<Underscore, a, b>>
    BY <1>5 DEF Converted, Escaped, new, a, b
  <2>2. new \in Seq(1..255) /\ Len(new) = 3 /\ new[1] = Underscore /\ new[2] = a /\ new[3] = b
    BY <1>1, <1>2, <2>1
  <2> QED
    BY <1>1, <1>2, <2>2 DEF new
<1> QED
  BY <1>3, <1>4, <1>5

(* The piece of a path p that a character becomes, after the first m       *)
(* characters of p and up to the n-th.                                     *)
Piece(p, c, m, n) ==
    \/ Kept(c) /\ n = m + 1 /\ p[n] = c
    \/ /\ ~Kept(c) /\ n = m + 3
       /\ p[m + 1] = Underscore
       /\ p[m + 2] = Digit(c \div 16) /\ p[m + 3] = Digit(c % 16)

(* p is made of the pieces of the first k characters of u, and ends[i] is  *)
(* where the piece of the i-th one ends.                                   *)
Pieces(u, k, p, ends) ==
    /\ ends \in [0..k -> 0..Len(p)]
    /\ ends[0] = 0 /\ ends[k] = Len(p)
    /\ \A i \in 1..k : Piece(p, u[i], ends[i - 1], ends[i])

(* The invariant: the path of a regular UDN is made of the pieces of what  *)
(* was read, each three characters at most.                                *)
UdnInv ==
    /\ UdnTypeOK
    /\ \A i \in 1..Len(path) : path[i] \in PathChars
    /\ Regular(udn) => Len(path) <= 3 * pos
    /\ Regular(udn) => \E ends : Pieces(udn, pos, path, ends)
    /\ Regular(udn) /\ Whole(udn) => ~overrun
    /\ done => ~(pos < Len(udn) /\ Len(path) < DestLen)

(* The invariant holds at first, and one turn of the loop keeps it.        *)
LEMMA UdnInitStep == UdnInit => UdnInv
<1> SUFFICES ASSUME UdnInit PROVE UdnInv
  OBVIOUS
<1>1. /\ udn \in Udns /\ udn \in Seq(1..255) /\ pos = 0 /\ path = <<>>
      /\ overrun = FALSE /\ done = FALSE
  BY UdnAssumption DEF UdnInit
<1>2. Len(udn) \in Nat /\ path \in Seq(1..255) /\ Len(path) = 0
  BY <1>1, LenProperties, EmptySeq
<1>3. UdnTypeOK
  <2>1. pos \in 0..Len(udn)
    BY <1>1, <1>2
  <2> QED
    BY <1>1, <1>2, <2>1 DEF UdnTypeOK
<1>4. Len(path) <= 3 * pos
  BY <1>1, <1>2
<1>5. Pieces(udn, pos, path, [i \in 0..0 |-> 0])
  BY <1>1, <1>2 DEF Pieces
<1>6. \A i \in 1..Len(path) : path[i] \in PathChars
  BY <1>2
<1> QED
  BY <1>1, <1>3, <1>4, <1>5, <1>6 DEF UdnInv

(* The piece that one turn of the loop writes of a short character.        *)
LEMMA TurnPiece ==
    ASSUME NEW c \in 1..255, Short(c)
    PROVE  LET new == Converted(c)
           IN  \/ Kept(c) /\ Len(new) = 1 /\ new[1] = c
               \/ /\ ~Kept(c) /\ Len(new) = 3 /\ new[1] = Underscore
                  /\ new[2] = Digit(c \div 16) /\ new[3] = Digit(c % 16)
<1> DEFINE new == Converted(c)
<1>1. CASE Kept(c)
  <2>1. new = <<c>>
    BY <1>1 DEF Converted
  <2> HIDE DEF new
  <2>2. Len(new) = 1 /\ new[1] = c
    BY <2>1
  <2> QED
    BY <1>1, <2>2 DEF new
<1>2. CASE ~Kept(c)
  <2> DEFINE a == Digit(c \div 16)
             b == Digit(c % 16)
  <2>1. new = <<Underscore, a, b>>
    BY <1>2, EscapedThree DEF Converted
  <2> HIDE DEF new, a, b
  <2>2. Len(new) = 3 /\ new[1] = Underscore /\ new[2] = a /\ new[3] = b
    BY <2>1
  <2> QED
    BY <1>2, <2>2 DEF new, a, b
<1> QED
  BY <1>1, <1>2

(* The character that is read next.                                        *)
LEMMA NextCharacter ==
    ASSUME UdnInv, Looping
    PROVE  /\ Len(udn) \in Nat /\ Len(path) \in Nat /\ pos \in Nat
           /\ pos + 1 \in 1..Len(udn) /\ udn[pos + 1] \in 1..255
           /\ Regular(udn) => Short(udn[pos + 1])
<1>1. udn \in Seq(1..255) /\ path \in Seq(1..255) /\ pos \in 0..Len(udn)
  BY UdnAssumption DEF UdnInv, UdnTypeOK
<1>2. Len(udn) \in Nat /\ \A i \in 1..Len(udn) : udn[i] \in 1..255
  BY <1>1, Elements
<1>3. Len(path) \in Nat
  BY <1>1, Elements
<1>4. pos + 1 \in 1..Len(udn)
  BY <1>1, <1>2 DEF Looping
<1>5. Regular(udn) => Short(udn[pos + 1])
  BY <1>4 DEF Regular, Short
<1> QED
  BY <1>1, <1>2, <1>3, <1>4, <1>5

LEMMA TurnStep ==
    ASSUME UdnInv, Turn
    PROVE  UdnInv'
<1> DEFINE c == udn[pos + 1]
           new == Converted(c)
<1>1. udn \in Seq(1..255) /\ path \in Seq(1..255) /\ pos \in 0..Len(udn)
  BY UdnAssumption DEF UdnInv, UdnTypeOK
<1>2. Len(udn) \in Nat /\ Len(path) \in Nat
  BY NextCharacter DEF Turn
<1>3. /\ udn' = udn /\ pos' = pos + 1 /\ done' = done /\ path' = path \o new
      /\ overrun' = overrun /\ done = FALSE /\ overrun = FALSE
  BY DEF Turn, Looping, UdnInv, UdnTypeOK
<1>4. pos + 1 \in 1..Len(udn) /\ pos' \in 0..Len(udn)
  BY <1>1, <1>2, <1>3, NextCharacter DEF Turn
<1>5. c \in 1..255 /\ (Regular(udn) => Short(c))
  BY NextCharacter DEF Turn
<1> HIDE DEF c
<1>6. /\ new \in Seq(1..255) /\ Len(new) \in Nat
      /\ \A i \in 1..Len(new) : new[i] \in PathChars
      /\ Regular(udn) =>
            \/ Kept(c) /\ Len(new) = 1 /\ new[1] = c
            \/ /\ ~Kept(c) /\ Len(new) = 3 /\ new[1] = Underscore
               /\ new[2] = Digit(c \div 16) /\ new[3] = Digit(c % 16)
  BY <1>5, ConvertedValid, TurnPiece, Elements
<1> HIDE DEF new
<1>7. /\ path' \in Seq(1..255)
      /\ Len(path') = Len(path) + Len(new)
      /\ \A i \in 1..Len(path) : path'[i] = path[i]
      /\ \A i \in 1..Len(new) : path'[Len(path) + i] = new[i]
  <2>1. /\ path \o new \in Seq(1..255) /\ Len(path \o new) = Len(path) + Len(new)
        /\ \A i \in 1..(Len(path) + Len(new)) :
              (path \o new)[i] = IF i <= Len(path) THEN path[i] ELSE new[i - Len(path)]
    BY <1>1, <1>6, ConcatProperties
  <2> QED
    BY <1>2, <1>3, <1>6, <2>1
<1>8. UdnTypeOK'
  BY <1>3, <1>4, <1>7 DEF UdnInv, UdnTypeOK
<1>9. Regular(udn) => Len(path') <= 3 * pos'
  <2> SUFFICES ASSUME Regular(udn) PROVE Len(path') <= 3 * pos'
    OBVIOUS
  <2>1. Len(path) <= 3 * pos
    BY DEF UdnInv
  <2>2. Len(path') = Len(path) + Len(new) /\ pos' = pos + 1 /\ Len(new) <= 3
    <3>1. Len(new) = 1 \/ Len(new) = 3
      BY ONLY <1>6, Regular(udn)
    <3>2. \A n : n = 1 \/ n = 3 => n <= 3
      OBVIOUS
    <3>3. Len(path') = Len(path) + Len(new)
      BY ONLY <1>7
    <3>4. pos' = pos + 1
      BY ONLY <1>3
    <3> QED
      BY ONLY <3>1, <3>2, <3>3, <3>4
  <2>3. pos \in Nat /\ Len(path) \in Nat /\ Len(new) \in Nat
    BY <1>1, <1>2, <1>6
  <2>4. \A a, k, n \in Nat : a <= 3 * k /\ n <= 3 => a + n <= 3 * (k + 1)
    OBVIOUS
  <2> QED
    BY ONLY <2>1, <2>2, <2>3, <2>4
<1>10. \A i \in 1..Len(path') : path'[i] \in PathChars
  <2> SUFFICES ASSUME NEW i \in 1..Len(path') PROVE path'[i] \in PathChars
    OBVIOUS
  <2>1. CASE i <= Len(path)
    <3>1. i \in 1..Len(path) /\ path[i] \in PathChars
      BY <1>2, <1>6, <1>7, <2>1 DEF UdnInv
    <3> QED
      BY <1>7, <3>1
  <2>2. CASE ~(i <= Len(path))
    <3>1. i - Len(path) \in 1..Len(new) /\ i = Len(path) + (i - Len(path))
      BY <1>2, <1>6, <1>7, <2>2
    <3> QED
      BY <1>6, <1>7, <3>1
  <2> QED
    BY <2>1, <2>2
<1>11. Regular(udn) => \E ends : Pieces(udn', pos', path', ends)
  <2> SUFFICES ASSUME Regular(udn) PROVE \E ends : Pieces(udn', pos', path', ends)
    OBVIOUS
  <2>1. PICK ends : Pieces(udn, pos, path, ends)
    BY DEF UdnInv
  <2> DEFINE more == [i \in 0..(pos + 1) |-> IF i = pos + 1 THEN Len(path') ELSE ends[i]]
  <2>2. more \in [0..pos' -> 0..Len(path')]
    BY <1>1, <1>2, <1>3, <1>6, <1>7, <2>1 DEF Pieces
  <2>3. /\ more[0] = 0 /\ more[pos + 1] = Len(path') /\ more[pos] = Len(path)
        /\ \A i \in 0..pos : more[i] = ends[i] /\ ends[i] \in 0..Len(path)
    BY <1>1, <2>1 DEF Pieces
  <2> HIDE DEF more
  <2>4. ASSUME NEW i \in 1..pos' PROVE Piece(path', udn'[i], more[i - 1], more[i])
    <3>1. CASE i <= pos
      <4> DEFINE m == ends[i - 1]
                 n == ends[i]
      <4>1. i \in 1..pos /\ i - 1 \in 0..pos /\ i \in 0..pos
        BY <1>1, <3>1
      <4>2. more[i - 1] = m /\ more[i] = n /\ m \in Nat /\ n \in 0..Len(path)
        BY <2>3, <4>1
      <4>3. Piece(path, udn[i], m, n)
        BY <2>1, <4>1 DEF Pieces
      <4> HIDE DEF m, n
      <4>4. CASE Kept(udn[i]) /\ n = m + 1 /\ path[n] = udn[i]
        <5>1. n \in 1..Len(path) /\ path'[n] = path[n]
          BY <1>2, <1>7, <4>2, <4>4
        <5> QED
          BY <1>3, <4>2, <4>4, <5>1 DEF Piece, Kept
      <4>5. CASE /\ ~Kept(udn[i]) /\ n = m + 3 /\ path[m + 1] = Underscore
                 /\ path[m + 2] = Digit(udn[i] \div 16) /\ path[m + 3] = Digit(udn[i] % 16)
        <5>1. m + 1 \in 1..Len(path) /\ m + 2 \in 1..Len(path) /\ m + 3 \in 1..Len(path)
          BY <1>2, <4>2, <4>5
        <5>2. path'[m + 1] = path[m + 1] /\ path'[m + 2] = path[m + 2]
              /\ path'[m + 3] = path[m + 3]
          BY <1>7, <5>1
        <5> QED
          BY <1>3, <4>2, <4>5, <5>2 DEF Piece
      <4> QED
        BY <4>3, <4>4, <4>5 DEF Piece
    <3>2. CASE i = pos + 1
      <4> DEFINE m == Len(path)
      <4>1. more[i - 1] = m /\ more[i] = m + Len(new) /\ udn'[i] = c
        BY <1>1, <1>3, <1>7, <2>3, <3>2 DEF c
      <4>2. CASE Kept(c) /\ Len(new) = 1 /\ new[1] = c
        <5>1. path'[m + 1] = c
          BY <1>7, <4>2
        <5> QED
          BY <4>1, <4>2, <5>1 DEF Piece
      <4>3. CASE /\ ~Kept(c) /\ Len(new) = 3 /\ new[1] = Underscore
                 /\ new[2] = Digit(c \div 16) /\ new[3] = Digit(c % 16)
        <5>1. /\ path'[m + 1] = Underscore
              /\ path'[m + 2] = Digit(c \div 16) /\ path'[m + 3] = Digit(c % 16)
          BY <1>7, <4>3
        <5> QED
          BY <4>1, <4>3, <5>1 DEF Piece
      <4> QED
        BY <1>6, <4>2, <4>3
    <3> QED
      BY <1>1, <1>3, <3>1, <3>2
  <2>5. Pieces(udn', pos', path', more)
    BY <1>3, <2>2, <2>3, <2>4 DEF Pieces
  <2> QED
    BY <2>5
<1>12. ~done' /\ ~overrun' /\ Regular(udn)' = Regular(udn)
  BY <1>3 DEF Regular
<1> QED
  BY <1>8, <1>9, <1>10, <1>11, <1>12 DEF UdnInv

(* A turn goes beyond the space of a regular UDN only if it is cut.        *)
LEMMA TurnBeyondStep ==
    ASSUME UdnInv, TurnBeyond
    PROVE  UdnInv'
<1>1. /\ udn' = udn /\ pos' = pos /\ path' = path /\ done' = done /\ overrun' = TRUE
      /\ Looping /\ ~Fits
  BY DEF TurnBeyond
<1>2. ~(Regular(udn) /\ Whole(udn))
  <2> SUFFICES ASSUME Regular(udn), Whole(udn) PROVE FALSE
    OBVIOUS
  <2> DEFINE n == Len(Converted(udn[pos + 1]))
  <2>1. /\ Len(udn) \in Nat /\ Len(path) \in Nat /\ pos \in Nat /\ pos + 1 <= Len(udn)
        /\ udn[pos + 1] \in 1..255 /\ Short(udn[pos + 1])
    BY <1>1, NextCharacter
  <2>2. n \in {1, 3}
    BY <2>1, TurnPiece
  <2>3. Len(path) <= 3 * pos
    BY DEF UdnInv
  <2>4. DestLen = 3 * Len(udn)
    BY <2>1, UdnAssumption DEF DestLen, Whole
  <2>5. ~(Len(path) + n <= DestLen)
    BY <1>1 DEF Fits
  <2> HIDE DEF n
  <2> QED
    BY <2>1, <2>2, <2>3, <2>4, <2>5
<1> QED
  BY <1>1, <1>2 DEF UdnInv, UdnTypeOK, Regular, Whole, DestLen, Pieces

(* The conversion of any UDN keeps the invariant.                          *)
LEMMA UdnInvariant == UdnSpec => []UdnInv
<1>1. UdnInv /\ [UdnNext]_udnVars => UdnInv'
  <2> SUFFICES ASSUME UdnInv, [UdnNext]_udnVars PROVE UdnInv'
    OBVIOUS
  <2>1. CASE Turn
    BY <2>1, TurnStep
  <2>2. CASE TurnBeyond
    BY <2>2, TurnBeyondStep
  <2>3. CASE Leave
    BY <2>3 DEF Leave, Looping, UdnInv, UdnTypeOK, DestLen, Regular, Whole
  <2>4. CASE UNCHANGED udnVars
    BY <2>4 DEF udnVars, UdnInv, UdnTypeOK, DestLen, Regular, Whole
  <2> QED
    BY <2>1, <2>2, <2>3, <2>4 DEF UdnNext
<1> QED
  BY <1>1, UdnInitStep, PTL DEF UdnSpec

(* A path whose UDN has no '_' is read as it was written, piece by piece.  *)
LEMMA DecodeGivesBack ==
    ASSUME NEW u \in Seq(1..255), NEW k \in 0..Len(u), NEW p \in Seq(1..255), NEW ends,
           Pieces(u, k, p, ends), Regular(u), \A i \in 1..Len(u) : u[i] # Underscore
    PROVE  Decode(p) = SubSeq(u, 1, k)
<1>1. PICK f : Reads(p, f) /\ Decode(p) = f[Len(p)].out
  BY DecodeReads
<1>2. /\ Len(u) \in Nat /\ Len(p) \in Nat
      /\ \A i \in 1..Len(u) : u[i] \in 1..255 /\ Short(u[i])
  <2>1. Len(p) \in Nat
    BY Elements
  <2>2. Len(u) \in Nat /\ \A i \in 1..Len(u) : u[i] \in 1..255
    BY Elements
  <2>3. \A i \in 1..Len(u) : Short(u[i])
    BY DEF Regular, Short
  <2> QED
    BY <2>1, <2>2, <2>3
<1> DEFINE Back(i) == f[ends[i]] = [out |-> SubSeq(u, 1, i), skip |-> 0]
           S == {i \in 0..k : Back(i)}
<1>3. 0 \in S
  <2>1. ends[0] = 0 /\ f[0] = Nothing
    BY <1>1 DEF Pieces, Reads
  <2>2. SubSeq(u, 1, 0) = <<>>
    BY SubSeqEmpty
  <2> QED
    BY <2>1, <2>2 DEF Nothing
<1>4. ASSUME NEW i \in 1..k, i - 1 \in S PROVE i \in S
  <2> DEFINE c == u[i]
             m == ends[i - 1]
             n == ends[i]
             r == SubSeq(u, 1, i - 1)
  <2>1. i \in 1..Len(u) /\ i - 1 \in 0..k /\ i \in 0..k
    BY <1>2
  <2>2. c \in 1..255 /\ Short(c) /\ c # Underscore
    BY <1>2, <2>1
  <2>3. m \in 0..Len(p) /\ n \in 0..Len(p) /\ Piece(p, c, m, n)
    BY <2>1 DEF Pieces
  <2>4. f[m] = [out |-> r, skip |-> 0]
    BY <1>4
  <2>5. SubSeq(u, 1, i) = r \o <<c>>
    <3>1. 1 \in 1..Len(u) /\ i \in 1..Len(u)
      BY <1>2, <2>1
    <3> QED
      BY <3>1, SubSeqRecursiveSecond
  <2> HIDE DEF c, m, n, r
  <2>6. f[n] = [out |-> r \o <<c>>, skip |-> 0]
    <3>1. CASE Kept(c) /\ n = m + 1 /\ p[n] = c
      <4>1. n \in 1..Len(p) /\ n - 1 = m
        BY <1>2, <2>3, <3>1
      <4>2. f[n] = ReadOne(p, n, f[m])
        BY <1>1, <4>1 DEF Reads
      <4> QED
        BY <2>2, <2>4, <3>1, <4>2 DEF ReadOne
    <3>2. CASE /\ ~Kept(c) /\ n = m + 3 /\ p[m + 1] = Underscore
               /\ p[m + 2] = Digit(c \div 16) /\ p[m + 3] = Digit(c % 16)
      <4>1. /\ m + 1 \in 1..Len(p) /\ m + 2 \in 1..Len(p) /\ m + 3 \in 1..Len(p)
            /\ (m + 1) - 1 = m /\ (m + 2) - 1 = m + 1 /\ (m + 3) - 1 = m + 2
            /\ (m + 1) + 1 = m + 2 /\ (m + 1) + 2 = m + 3 /\ ~((m + 1) + 2 > Len(p))
        BY <1>2, <2>3, <3>2
      <4>2. f[m + 1] = ReadOne(p, m + 1, f[m])
        BY <1>1, <4>1 DEF Reads
      <4>3. f[m + 2] = ReadOne(p, m + 2, f[m + 1])
        BY <1>1, <4>1 DEF Reads
      <4>4. f[m + 3] = ReadOne(p, m + 3, f[m + 2])
        BY <1>1, <4>1 DEF Reads
      <4>5. 16 * Value(p[m + 2]) + Value(p[m + 3]) = c
        BY <2>2, <3>2, EscapedThree
      <4>6. f[m + 1] = [out |-> r \o <<c>>, skip |-> 2]
        <5> DEFINE v == 16 * Value(p[(m + 1) + 1]) + Value(p[(m + 1) + 2])
        <5>1. ReadOne(p, m + 1, [out |-> r, skip |-> 0]) = [out |-> r \o <<v>>, skip |-> 2]
          BY <3>2, <4>1, ReadEscape
        <5>2. v = c
          BY <4>1, <4>5
        <5> HIDE DEF v
        <5> QED
          BY <2>4, <4>2, <5>1, <5>2
      <4>7. f[m + 2] = [out |-> r \o <<c>>, skip |-> 1]
        BY <4>3, <4>6, ReadSkip
      <4>8. f[m + 3] = [out |-> r \o <<c>>, skip |-> 0]
        BY <4>4, <4>7, ReadSkip
      <4> QED
        BY <3>2, <4>8
    <3> QED
      BY <2>3, <3>1, <3>2 DEF Piece
  <2>7. Back(i)
    BY <2>5, <2>6 DEF n
  <2> QED
    BY <2>1, <2>7
<1>5. k \in S
  <2>1. 0..k \subseteq S
    <3>1. k \in Nat
      BY <1>2
    <3> HIDE DEF S
    <3> QED
      BY <1>3, <1>4, <3>1, IntervalInduction
  <2> QED
    BY <1>2, <2>1
<1>6. ends[k] = Len(p)
  BY DEF Pieces
<1> QED
  BY <1>1, <1>5, <1>6

(* Type correctness for every set of UDNs.                                 *)
THEOREM UdnTypeCorrect == UdnSpec => []UdnTypeOK
<1>1. UdnInv => UdnTypeOK
  BY DEF UdnInv
<1> QED
  BY <1>1, UdnInvariant, PTL

(* The result of every UDN has only characters that may stand in a path    *)
(* (core.c:34).                                                            *)
THEOREM UdnValid == UdnSpec => []ValidPath
<1>1. UdnInv => ValidPath
  BY DEF UdnInv, ValidPath, PathChars
<1> QED
  BY <1>1, UdnInvariant, PTL

(* The dest_len + 1 bytes of core.c:56 are enough for a UDN of any length  *)
(* three times which is below the limit, if none of its characters is      *)
(* negative.                                                               *)
THEOREM UdnFits == UdnSpec => []SpaceSuffices
<1>1. UdnInv => SpaceSuffices
  BY DEF UdnInv, SpaceSuffices
<1> QED
  BY <1>1, UdnInvariant, PTL

(* From the path of a device can be told which device it is: no two UDNs   *)
(* without a '_' have one path, however long they are, if none of their    *)
(* characters is negative (core.c:61).                                     *)
THEOREM UdnDistinct == UdnSpec => []Reversible
<1>1. ASSUME UdnInv, Regular(udn), \A i \in 1..Len(udn) : udn[i] # Underscore
      PROVE  Decode(path) = SubSeq(udn, 1, pos)
  <2>1. udn \in Seq(1..255) /\ pos \in 0..Len(udn) /\ path \in Seq(1..255)
    BY <1>1, UdnAssumption DEF UdnInv, UdnTypeOK
  <2>2. PICK ends : Pieces(udn, pos, path, ends)
    BY <1>1 DEF UdnInv
  <2> QED
    BY <1>1, <2>1, <2>2, DecodeGivesBack
<1>2. ASSUME UdnInv, Regular(udn), done, Whole(udn)
      PROVE  pos = Len(udn)
  <2>1. udn \in Seq(1..255) /\ path \in Seq(1..255) /\ pos \in 0..Len(udn)
    BY <1>2, UdnAssumption DEF UdnInv, UdnTypeOK
  <2>2. Len(udn) \in Nat
    BY <2>1, Elements
  <2>3. Len(path) \in Nat
    BY <2>1, Elements
  <2>4. Len(path) <= 3 * pos /\ ~(pos < Len(udn) /\ Len(path) < DestLen)
    BY <1>2 DEF UdnInv
  <2>5. DestLen = 3 * Len(udn)
    BY <1>2, <2>2, UdnAssumption DEF DestLen, Whole
  <2> QED
    BY <2>1, <2>2, <2>3, <2>4, <2>5
<1>3. UdnInv => Reversible
  BY <1>1, <1>2 DEF Reversible
<1> QED
  BY <1>3, UdnInvariant, PTL

-----------------------------------------------------------------------------
(***************************************************************************)
(* Sources.                                                                *)
(***************************************************************************)
(* The remainder by which an unsigned wraps.                               *)
LEMMA SuccessorWraps ==
    ASSUME NEW n \in 0..MaxUnsigned
    PROVE  Succeeding(n) = IF n = MaxUnsigned THEN 0 ELSE n + 1
<1>1. MaxUnsigned \in Nat
  BY UnsignedAssumption
<1> DEFINE m == MaxUnsigned + 1
<1>2. m \in Nat \ {0} /\ n + 1 \in 0..m
  BY <1>1
<1> HIDE DEF m
<1>3. CASE n + 1 = m
  <2>1. m % m = 0
    BY <1>2
  <2> QED
   BY <1>1, <1>3, <2>1 DEF Succeeding, m
<1>4. CASE n + 1 < m
  <2>1. (n + 1) % m = n + 1
    BY <1>2, <1>4
  <2> QED
   BY <1>1, <1>4, <2>1 DEF Succeeding, m
<1> QED
  BY <1>2, <1>3, <1>4

(* A counter that is printed is told from every other.                     *)
LEMMA PrintedDistinct ==
    ASSUME NEW m \in 0..MaxUnsigned, NEW n \in 0..MaxUnsigned, Printed(m) = Printed(n)
    PROVE  m = n
<1>1. MaxUnsigned \in Nat /\ MaxUnsigned \div 2 \in Nat /\ MaxUnsigned \div 2 <= MaxUnsigned
  BY UnsignedAssumption
<1> DEFINE half == MaxUnsigned \div 2
<1> HIDE DEF half
<1>2. /\ Printed(m) = IF m <= half THEN m ELSE m - MaxUnsigned - 1
      /\ Printed(n) = IF n <= half THEN n ELSE n - MaxUnsigned - 1
  BY DEF Printed, half
<1>3. half \in Nat
  BY <1>1 DEF half
<1>4. CASE m <= half /\ n <= half
  BY <1>2, <1>4
<1>5. CASE ~(m <= half) /\ ~(n <= half)
  <2>1. m - MaxUnsigned - 1 = n - MaxUnsigned - 1
    BY <1>2, <1>5
  <2> QED
    BY <1>1, <2>1
<1>6. CASE m <= half /\ ~(n <= half)
  <2>1. m = n - MaxUnsigned - 1
    BY <1>2, <1>6
  <2> QED
    BY <1>1, <2>1
<1>7. CASE ~(m <= half) /\ n <= half
  <2>1. n = m - MaxUnsigned - 1
    BY <1>2, <1>7
  <2> QED
    BY <1>1, <2>1
<1> QED
  BY <1>4, <1>5, <1>6, <1>7

(* The value that the counter had n sources before the last one.           *)
Before(c, n) == IF n < c THEN c - 1 - n ELSE c - n + MaxUnsigned

(* It is another one for every n, and the same when n and c advance.       *)
LEMMA BeforeDistinct ==
    ASSUME NEW c \in 0..MaxUnsigned, NEW m \in 0..MaxUnsigned, NEW n \in 0..MaxUnsigned
    PROVE  /\ Before(c, n) \in 0..MaxUnsigned
           /\ Before(c, m) = Before(c, n) => m = n
           /\ Before(Succeeding(c), 0) = c
           /\ n < MaxUnsigned => Before(Succeeding(c), n + 1) = Before(c, n)
<1>1. MaxUnsigned \in Nat
  BY UnsignedAssumption
<1>2. Succeeding(c) = IF c = MaxUnsigned THEN 0 ELSE c + 1
  BY SuccessorWraps
<1>3. Before(c, n) \in 0..MaxUnsigned /\ (Before(c, m) = Before(c, n) => m = n)
  BY <1>1 DEF Before
<1>4. CASE c = MaxUnsigned
  <2>1. Succeeding(c) = 0
    BY <1>2, <1>4
  <2>2. Before(0, 0) = c
    BY <1>1, <1>4 DEF Before
  <2>3. n < MaxUnsigned => Before(0, n + 1) = Before(c, n)
    BY <1>1, <1>4 DEF Before
  <2> QED
    BY <1>3, <2>1, <2>2, <2>3
<1>5. CASE c # MaxUnsigned
  <2>1. Succeeding(c) = c + 1
    BY <1>2, <1>5
  <2>2. Before(c + 1, 0) = c
    BY <1>1 DEF Before
  <2>3. n < MaxUnsigned => Before(c + 1, n + 1) = Before(c, n)
    BY <1>1 DEF Before
  <2> QED
    BY <1>3, <2>1, <2>2, <2>3
<1> QED
  BY <1>4, <1>5

(* The invariant.                                                          *)
SourcesTyped ==
    /\ cpt \in 0..MaxUnsigned
    /\ chain \in [Chains -> {"none", "named", "live"}]
    /\ later \in [Chains -> 0..(MaxUnsigned + 1)]
    /\ DOMAIN key = Chains

(* A chain's source is the counter as it was when the source was made; the *)
(* buffer holds that of the one chain that is named.  What was made after  *)
(* it differs from chain to chain.                                         *)
Recorded ==
    /\ \A c \in Chains : chain[c] = "named" => source = Printed(Before(cpt, 0))
    /\ \A c \in Chains :
          chain[c] = "live" /\ later[c] <= MaxUnsigned => key[c] = Printed(Before(cpt, later[c]))

Ordered ==
    /\ \A c, d \in Chains : chain[c] = "named" /\ chain[d] = "named" => c = d
    /\ \A c, d \in Chains : chain[c] = "named" /\ chain[d] = "live" => later[d] > 0
    /\ \A c \in Chains : chain[c] # "live" => later[c] = 0
    /\ \A c, d \in Chains :
          /\ c # d /\ chain[c] = "live" /\ chain[d] = "live"
          /\ later[c] <= MaxUnsigned
          => later[c] # later[d]

SourcesInv == SourcesTyped /\ Recorded /\ Ordered

(* Each action keeps it.                                                   *)
LEMMA CreateSourceStep ==
    ASSUME SourcesInv, NEW c \in Chains, CreateSource(c)
    PROVE  SourcesInv'
<1>1. MaxUnsigned \in Nat
  BY UnsignedAssumption
<1>2. /\ cpt \in 0..MaxUnsigned /\ chain \in [Chains -> {"none", "named", "live"}]
      /\ later \in [Chains -> 0..(MaxUnsigned + 1)] /\ DOMAIN key = Chains
  BY DEF SourcesInv, SourcesTyped
<1>3. /\ chain[c] = "none" /\ \A d \in Chains : chain[d] # "named"
      /\ source' = Printed(cpt) /\ cpt' = Succeeding(cpt)
      /\ chain' = [chain EXCEPT ![c] = "named"] /\ key' = key
      /\ later' = [d \in Chains |-> IF chain[d] = "live" /\ later[d] <= MaxUnsigned
                                    THEN later[d] + 1 ELSE later[d]]
  BY DEF CreateSource
<1>4. /\ \A d \in Chains : chain'[d] = IF d = c THEN "named" ELSE chain[d]
      /\ \A d \in Chains : later'[d] = IF chain[d] = "live" /\ later[d] <= MaxUnsigned
                                       THEN later[d] + 1 ELSE later[d]
      /\ \A d \in Chains : later[d] \in 0..(MaxUnsigned + 1)
  BY <1>2, <1>3
<1>5. SourcesTyped'
  <2>1. cpt' \in 0..MaxUnsigned
    BY <1>1, <1>2, <1>3, SuccessorWraps
  <2>2. later' \in [Chains -> 0..(MaxUnsigned + 1)]
    <3>1. ASSUME NEW d \in Chains PROVE later'[d] \in 0..(MaxUnsigned + 1)
      BY <1>1, <1>4
    <3> QED
      BY <1>3, <3>1
  <2> QED
    BY <1>2, <1>3, <2>1, <2>2 DEF SourcesTyped
<1>6. Recorded'
  <2>1. source' = Printed(Before(cpt', 0))
    BY <1>2, <1>3, BeforeDistinct
  <2>2. ASSUME NEW d \in Chains, chain'[d] = "live", later'[d] <= MaxUnsigned
        PROVE  key'[d] = Printed(Before(cpt', later'[d]))
    <3>1. chain[d] = "live" /\ later[d] \in 0..(MaxUnsigned + 1)
      BY <1>4, <2>2
    <3>2. later[d] \in 0..MaxUnsigned /\ later[d] < MaxUnsigned /\ later'[d] = later[d] + 1
      BY <1>1, <1>4, <2>2, <3>1
    <3>3. Before(cpt', later'[d]) = Before(cpt, later[d])
      BY <1>2, <1>3, <3>2, BeforeDistinct
    <3>4. key[d] = Printed(Before(cpt, later[d]))
      BY <3>1, <3>2 DEF SourcesInv, Recorded
    <3> QED
      BY <1>3, <3>3, <3>4
  <2> QED
    BY <2>1, <2>2 DEF Recorded
<1>7. Ordered'
  <2>1. ASSUME NEW d \in Chains, chain[d] = "live"
        PROVE  later'[d] > 0
    BY <1>1, <1>4, <2>1
  <2>2. ASSUME NEW d \in Chains, chain'[d] # "live" PROVE later'[d] = 0
    <3>1. chain[d] # "live"
      BY <1>3, <1>4, <2>2
    <3> QED
      BY <1>4, <3>1 DEF SourcesInv, Ordered
  <2>3. ASSUME NEW d \in Chains, NEW e \in Chains, d # e,
               chain'[d] = "live", chain'[e] = "live", later'[d] <= MaxUnsigned
        PROVE  later'[d] # later'[e]
    <3>1. chain[d] = "live" /\ chain[e] = "live"
      BY <1>4, <2>3
    <3>2. later[d] < MaxUnsigned /\ later'[d] = later[d] + 1
      BY <1>1, <1>4, <2>3, <3>1
    <3>3. later[d] # later[e]
      BY <1>1, <1>4, <2>3, <3>1, <3>2 DEF SourcesInv, Ordered
    <3>4. later[d] \in Nat /\ later[e] \in Nat
      BY <1>1, <1>4
    <3> QED
      BY <1>1, <1>4, <3>1, <3>2, <3>3, <3>4
  <2>4. \A d, e \in Chains : chain'[d] = "named" /\ chain'[e] = "named" => d = e
    BY <1>3, <1>4
  <2>5. \A d, e \in Chains : chain'[d] = "named" /\ chain'[e] = "live" => later'[e] > 0
    BY <1>4, <2>1
  <2> QED
    BY <2>2, <2>3, <2>4, <2>5 DEF Ordered
<1> QED
  BY <1>5, <1>6, <1>7 DEF SourcesInv

LEMMA AddChainStep ==
    ASSUME SourcesInv, NEW c \in Chains, AddChain(c)
    PROVE  SourcesInv'
<1>1. MaxUnsigned \in Nat
  BY UnsignedAssumption
<1>2. /\ chain[c] = "named" /\ UNCHANGED <<cpt, source, later>>
      /\ chain' = [chain EXCEPT ![c] = "live"] /\ key' = [key EXCEPT ![c] = source]
  BY DEF AddChain
<1>3. SourcesTyped'
  BY <1>2 DEF SourcesInv, SourcesTyped
<1>4. /\ \A d \in Chains : chain'[d] = IF d = c THEN "live" ELSE chain[d]
      /\ \A d \in Chains : key'[d] = IF d = c THEN source ELSE key[d]
  BY <1>2 DEF SourcesInv, SourcesTyped
<1>5. later[c] = 0 /\ source = Printed(Before(cpt, 0))
  BY <1>2 DEF SourcesInv, Ordered, Recorded
<1>6. Recorded'
  BY <1>2, <1>4, <1>5 DEF SourcesInv, Recorded, Before
<1>7. Ordered'
  <2>1. \A d \in Chains : chain'[d] # "named"
    BY <1>2, <1>4 DEF SourcesInv, Ordered
  <2>2. \A d \in Chains : chain'[d] # "live" => later'[d] = 0
    BY <1>2, <1>4 DEF SourcesInv, Ordered
  <2>3. ASSUME NEW d \in Chains, NEW e \in Chains, d # e,
               chain'[d] = "live", chain'[e] = "live", later'[d] <= MaxUnsigned
        PROVE  later'[d] # later'[e]
    <3>1. later[d] \in 0..(MaxUnsigned + 1) /\ later[e] \in 0..(MaxUnsigned + 1)
      BY DEF SourcesInv, SourcesTyped
    <3>2. CASE d = c
      <4>1. chain[e] = "live" /\ later[e] > 0
        BY <1>2, <1>4, <2>3, <3>2 DEF SourcesInv, Ordered
      <4> QED
        BY <1>1, <1>2, <1>5, <3>1, <3>2, <4>1
    <3>3. CASE e = c
      <4>1. chain[d] = "live" /\ later[d] > 0
        BY <1>2, <1>4, <2>3, <3>3 DEF SourcesInv, Ordered
      <4> QED
        BY <1>1, <1>2, <1>5, <3>1, <3>3, <4>1
    <3>4. CASE d # c /\ e # c
      <4>1. chain[d] = "live" /\ chain[e] = "live" /\ later[d] <= MaxUnsigned
        BY <1>2, <1>4, <2>3, <3>4
      <4>2. later[d] # later[e]
        BY <2>3, <4>1 DEF SourcesInv, Ordered
      <4> QED
        BY <1>2, <4>2
    <3> QED
      BY <3>2, <3>3, <3>4
  <2> QED
    BY <2>1, <2>2, <2>3 DEF Ordered
<1> QED
  BY <1>3, <1>6, <1>7 DEF SourcesInv

LEMMA EndChainStep ==
    ASSUME SourcesInv, NEW c \in Chains, EndChain(c)
    PROVE  SourcesInv'
<1>1. MaxUnsigned \in Nat
  BY UnsignedAssumption
<1>2. /\ chain[c] = "live" /\ UNCHANGED <<cpt, source>>
      /\ chain' = [chain EXCEPT ![c] = "none"] /\ key' = [key EXCEPT ![c] = 0]
      /\ later' = [later EXCEPT ![c] = 0]
  BY DEF EndChain
<1>3. SourcesTyped'
  BY <1>1, <1>2 DEF SourcesInv, SourcesTyped
<1>4. /\ \A d \in Chains : chain'[d] = IF d = c THEN "none" ELSE chain[d]
      /\ \A d \in Chains : d # c => key'[d] = key[d] /\ later'[d] = later[d]
      /\ later'[c] = 0
  BY <1>2 DEF SourcesInv, SourcesTyped
<1>5. Recorded'
  BY <1>2, <1>4 DEF SourcesInv, Recorded, Before
<1>6. Ordered'
  BY <1>2, <1>4 DEF SourcesInv, Ordered
<1> QED
  BY <1>3, <1>5, <1>6 DEF SourcesInv

LEMMA SourcesInvariant == SourcesSpec => []SourcesInv
<1>1. SourcesInit => SourcesInv
  <2> SUFFICES ASSUME SourcesInit PROVE SourcesInv
    OBVIOUS
  <2>1. MaxUnsigned \in Nat /\ 1 \in 0..MaxUnsigned
    BY UnsignedAssumption
  <2>2. SourcesTyped
    BY <2>1 DEF SourcesInit, SourcesTyped
  <2>3. Recorded /\ Ordered
    BY DEF SourcesInit, Recorded, Ordered
  <2> QED
    BY <2>2, <2>3 DEF SourcesInv
<1>2. SourcesInv /\ [SourcesNext]_sourceVars => SourcesInv'
  <2> SUFFICES ASSUME SourcesInv, [SourcesNext]_sourceVars PROVE SourcesInv'
    OBVIOUS
  <2>1. CASE SourcesNext
    BY <2>1, CreateSourceStep, AddChainStep, EndChainStep DEF SourcesNext
  <2>2. CASE UNCHANGED sourceVars
    BY <2>2 DEF sourceVars, SourcesInv, SourcesTyped, Recorded, Ordered, Before
  <2> QED
    BY <2>1, <2>2
<1> QED
  BY <1>1, <1>2, PTL DEF SourcesSpec

(* Chains that exist at once have distinct sources, for a counter of any   *)
(* width that wraps, printed with or without a sign (service-task.c:43).   *)
THEOREM ChainsHaveDistinctSources == SourcesSpec => []SourcesDistinct
<1>1. ASSUME SourcesInv PROVE SourcesDistinct
  <2> SUFFICES ASSUME NEW c \in Chains, NEW d \in Chains,
                      c # d, chain[c] = "live", chain[d] = "live",
                      later[c] <= MaxUnsigned, later[d] <= MaxUnsigned
               PROVE  key[c] # key[d]
    BY DEF SourcesDistinct
  <2>1. later[c] \in 0..MaxUnsigned /\ later[d] \in 0..MaxUnsigned /\ cpt \in 0..MaxUnsigned
    <3>1. later[c] \in 0..(MaxUnsigned + 1) /\ later[d] \in 0..(MaxUnsigned + 1)
      BY <1>1 DEF SourcesInv, SourcesTyped
    <3> QED
      BY <1>1, <3>1, UnsignedAssumption DEF SourcesInv, SourcesTyped
  <2>2. later[c] # later[d]
    BY <1>1 DEF SourcesInv, Ordered
  <2>3. key[c] = Printed(Before(cpt, later[c])) /\ key[d] = Printed(Before(cpt, later[d]))
    BY <1>1 DEF SourcesInv, Recorded
  <2>4. /\ Before(cpt, later[c]) \in 0..MaxUnsigned /\ Before(cpt, later[d]) \in 0..MaxUnsigned
        /\ Before(cpt, later[c]) # Before(cpt, later[d])
    <3>1. Before(cpt, later[c]) \in 0..MaxUnsigned
      BY <2>1, BeforeDistinct
    <3>2. Before(cpt, later[d]) \in 0..MaxUnsigned
      BY <2>1, BeforeDistinct
    <3>3. Before(cpt, later[c]) # Before(cpt, later[d])
      BY <2>1, <2>2, BeforeDistinct
    <3> QED
      BY <3>1, <3>2, <3>3
  <2> QED
    BY <2>3, <2>4, PrintedDistinct
<1> QED
  BY <1>1, SourcesInvariant, PTL
=============================================================================
