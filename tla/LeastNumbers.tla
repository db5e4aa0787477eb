---------------------------- MODULE LeastNumbers ----------------------------
(***************************************************************************)
(* Induction over the natural numbers, with the numbers that have the       *)
(* property collected in a set: what the proofs about sequences of sections *)
(* and about the newest version in a mesh rest on.                          *)
(***************************************************************************)
EXTENDS Integers, WellFoundedInduction, TLAPS

\* The pairs of numbers of which the first is the smaller.
Below == {p \in Nat \X Nat : p[1] < p[2]}

\* No sequence of numbers descends for ever.
LEMMA BelowWellFounded == IsWellFoundedOn(Below, Nat)
  BY NatLessThanWellFounded DEF Below, OpToRel

\* A set of numbers that is not empty has a least one.
LEMMA LeastNumber ==
  ASSUME NEW T, T \subseteq Nat, T # {}
  PROVE  \E n \in T : \A m \in T : n <= m
<1>1. PICK n \in T : \A m \in T : ~(<<m, n>> \in Below)
  BY BelowWellFounded, WFMin
<1>2. ASSUME NEW m \in T, ~(n <= m) PROVE FALSE
  <2>1. n \in Nat /\ m \in Nat /\ m < n
    BY <1>2
  <2>2. <<m, n>> \in Below
    BY <2>1 DEF Below
  <2> QED BY <2>2, <1>1
<1> QED BY <1>2

\* A set that has 0, and with a number below N the next one, has all up to N.
LEMMA Induction ==
  ASSUME NEW N \in Nat, NEW S,
         0 \in S, \A n \in 0 .. N - 1 : n \in S => n + 1 \in S
  PROVE  0 .. N \subseteq S
<1> DEFINE T == {n \in 0 .. N : n \notin S}
<1> SUFFICES ASSUME T # {} PROVE FALSE
  OBVIOUS
<1>1. T \subseteq Nat
  OBVIOUS
<1>2. PICK n \in T : \A m \in T : n <= m
  <2> HIDE DEF T
  <2> QED BY <1>1, LeastNumber
<1>3. n \in 0 .. N /\ n # 0 /\ n \notin S
  OBVIOUS
<1>4. n - 1 \in 0 .. N - 1 /\ n - 1 \notin T
  BY <1>2, <1>3
<1>5. n - 1 \in S /\ (n - 1) + 1 = n
  BY <1>4
<1> QED BY <1>3, <1>4, <1>5
=============================================================================
