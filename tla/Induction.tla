----------------------------- MODULE Induction -----------------------------
(***************************************************************************)
(* Induction over the natural numbers, and the recursion that it           *)
(* justifies, stated of sets and functions where the library's theorems    *)
(* are stated of operators.                                                *)
(***************************************************************************)
EXTENDS Integers, WellFoundedInduction, TLAPS

(* A set of which 0 is a member, and n + 1 whenever n is, has all of Nat.  *)
LEMMA SetInduction ==
    ASSUME NEW S, 0 \in S, \A n \in Nat : n \in S => n + 1 \in S
    PROVE  Nat \subseteq S
<1> DEFINE Less == OpToRel(<, Nat)
           Rest == Nat \ S
<1>1. IsWellFoundedOn(Less, Nat)
  BY NatLessThanWellFounded
<1>2. \A x, y \in Nat : <<x, y>> \in Less <=> x < y
  BY DEF OpToRel
<1> HIDE DEF Less
<1> SUFFICES ASSUME Rest # {} PROVE FALSE
  OBVIOUS
<1>3. PICK m \in Rest : \A n \in Rest : <<n, m>> \notin Less
  <2>1. Rest \subseteq Nat
    OBVIOUS
  <2> HIDE DEF Rest
  <2> QED
    BY <1>1, <2>1, WFMin
<1>4. m - 1 \in Nat /\ m - 1 < m
  BY <1>3
<1>5. m - 1 \in S
  BY <1>2, <1>3, <1>4
<1> QED
  BY <1>3, <1>4, <1>5

(* The same of 0..N.                                                       *)
LEMMA IntervalInduction ==
    ASSUME NEW N \in Nat, NEW S, 0 \in S, \A n \in 1..N : n - 1 \in S => n \in S
    PROVE  0..N \subseteq S
<1> DEFINE M == {n \in Nat : n <= N => n \in S}
<1>1. 0 \in M
  OBVIOUS
<1>2. ASSUME NEW n \in Nat, n \in M PROVE n + 1 \in M
  <2>1. CASE n + 1 <= N
    <3>1. n + 1 \in 1..N /\ n \in S /\ n = (n + 1) - 1
      BY <1>2, <2>1
    <3> QED
      BY <3>1
  <2>2. CASE ~(n + 1 <= N)
    BY <2>2
  <2> QED
    BY <2>1, <2>2
<1>3. Nat \subseteq M
  <2> HIDE DEF M
  <2> QED
    BY <1>1, <1>2, SetInduction
<1> QED
  BY <1>3

(* f has a first value, and each next one by a step.                       *)
Follows(f, N, first, step) ==
    f[0] = first /\ \A i \in 1..N : f[i] = step[<<i, f[i - 1]>>]

(* A function on 0..N can be defined by its value at 0, and by a step from *)
(* each value to the next.                                                 *)
LEMMA Recursion ==
    ASSUME NEW N \in Nat, NEW T, NEW first \in T, NEW step \in [(1..N) \X T -> T]
    PROVE  \E f \in [0..N -> T] : Follows(f, N, first, step)
<1> DEFINE Upto(n, f) == Follows(f, n, first, step)
           S == {n \in 0..N : \E f \in [0..n -> T] : Upto(n, f)}
<1>1. 0 \in S
  <2> DEFINE f == [i \in 0..0 |-> first]
  <2>1. f \in [0..0 -> T] /\ Upto(0, f)
    BY DEF Follows
  <2>2. 0 \in 0..N
    OBVIOUS
  <2> HIDE DEF f
  <2> QED
    BY <2>1, <2>2
<1>2. ASSUME NEW n \in 1..N, n - 1 \in S PROVE n \in S
  <2>1. PICK f \in [0..(n - 1) -> T] : Upto(n - 1, f)
    BY <1>2
  <2> DEFINE g == [i \in 0..n |-> IF i = n THEN step[<<n, f[n - 1]>>] ELSE f[i]]
  <2>2. step[<<n, f[n - 1]>>] \in T
    BY <2>1
  <2>3. g \in [0..n -> T]
    BY <2>1, <2>2
  <2>4. g[0] = first
    BY <2>1 DEF Follows
  <2>5. ASSUME NEW i \in 1..n PROVE g[i] = step[<<i, g[i - 1]>>]
    <3>1. g[i - 1] = f[i - 1]
      OBVIOUS
    <3>2. CASE i = n
      <4>1. g[n] = step[<<n, f[n - 1]>>]
        OBVIOUS
      <4> HIDE DEF g
      <4> QED
        BY <3>1, <3>2, <4>1
    <3>3. CASE i # n
      <4>1. i \in 1..(n - 1) /\ g[i] = f[i]
        BY <3>3
      <4> QED
        BY <2>1, <3>1, <4>1 DEF Follows
    <3> QED
      BY <3>2, <3>3
  <2> HIDE DEF g
  <2> QED
    BY <2>3, <2>4, <2>5 DEF Follows
<1>3. 0..N \subseteq S
  <2> HIDE DEF S
  <2> QED
    BY <1>1, <1>2, IntervalInduction
<1> QED
  BY <1>3
=============================================================================
