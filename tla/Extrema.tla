------------------------------ MODULE Extrema -------------------------------
(***************************************************************************)
(* What a first and a longest match rest on.                               *)
(***************************************************************************)
EXTENDS Integers, TLAPS, WellFoundedInduction

\* A set of numbers that is not empty has a smallest element.
LEMMA SomeLeast ==
    ASSUME NEW S, S \subseteq Nat, S # {}
    PROVE  \E m \in S : \A k \in S : m <= k
<1> DEFINE Less == {ss \in Nat \X Nat : ss[1] < ss[2]}
<1>0. OpToRel(<, Nat) = Less
  BY DEF OpToRel
<1>1. PICK low \in S : \A k \in S : ~(<<k, low>> \in Less)
  <2> HIDE DEF Less
  <2> QED
    BY <1>0, NatLessThanWellFounded, WFMin
<1>2. \A k \in S : low <= k
  <2> SUFFICES ASSUME NEW k \in S PROVE low <= k
    OBVIOUS
  <2>1. k \in Nat /\ low \in Nat
    OBVIOUS
  <2>2. ~(k < low)
    BY <1>1, <2>1
  <2> QED
    BY <2>1, <2>2
<1> QED
  BY <1>2

\* A set of bounded numbers that is not empty has a largest element.
LEMMA BoundedMax ==
    ASSUME NEW bound \in Nat, NEW S \in SUBSET (0..bound), S # {}
    PROVE  \E m \in S : \A k \in S : k <= m
<1> DEFINE T == {bound - k : k \in S}
<1>1. T # {} /\ T \subseteq Nat
  <2>1. \A k \in S : bound - k \in Nat
    OBVIOUS
  <2> QED
    BY <2>1
<1>2. PICK low \in T : \A k \in T : low <= k
  <2> HIDE DEF T
  <2> QED
    BY <1>1, SomeLeast
<1>3. PICK m \in S : low = bound - m
  BY <1>2
<1>4. \A k \in S : k <= m
  <2> SUFFICES ASSUME NEW k \in S PROVE k <= m
    OBVIOUS
  <2>1. k \in Int /\ m \in Int /\ bound - m <= bound - k
    BY <1>2, <1>3
  <2> QED
    BY <2>1
<1> QED
  BY <1>4
=============================================================================
