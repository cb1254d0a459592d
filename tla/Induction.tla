----------------------------- MODULE Induction -----------------------------
(***************************************************************************)
(* Induction for the proofs about sequences and sums.  The library's       *)
(* induction theorems take the property as a parameter; the ones here take *)
(* the set of numbers that have it, which a first-order prover can handle. *)
(***************************************************************************)
EXTENDS Integers, WellFoundedInduction, TLAPS

\* A set of natural numbers that is not empty has a least element.
LEMMA LeastNumber ==
    ASSUME NEW S, S \subseteq Nat, S # {}
    PROVE  \E n \in S : \A m \in S : n <= m
<1> DEFINE Less == OpToRel(<, Nat)
<1>1. \A m, n \in Nat : m < n => <<m, n>> \in Less
  BY DEF OpToRel
<1>2. IsWellFoundedOn(Less, Nat)
  BY NatLessThanWellFounded
<1> HIDE DEF Less
<1>3. PICK n \in S : \A m \in S : ~(<<m, n>> \in Less)
  BY <1>2, WFMin
<1>4. ASSUME NEW m \in S PROVE n <= m
  <2>1. m \in Nat /\ n \in Nat
    OBVIOUS
  <2>2. ~(m < n)
    BY <1>1, <1>3, <2>1
  <2>q. QED BY <2>1, <2>2
<1>q. QED BY <1>4

\* A set with 0, and with n + 1 whenever n < b is in it, has all of 0 .. b.
LEMMA BoundedInduction ==
    ASSUME NEW b \in Nat, NEW S, 0 \in S,
           \A n \in 0 .. b : n \in S /\ n < b => n + 1 \in S
    PROVE  0 .. b \subseteq S
<1> SUFFICES ASSUME (0 .. b) \ S # {} PROVE FALSE
  OBVIOUS
<1> DEFINE T == (0 .. b) \ S
<1>0. T \subseteq Nat /\ T # {}
  OBVIOUS
<1>1. PICK n \in T : \A m \in T : n <= m
  <2> HIDE DEF T
  <2>q. QED BY <1>0, LeastNumber
<1>2. n # 0 /\ n - 1 \in 0 .. b /\ n - 1 < b
  BY <1>1
<1>3. n - 1 \in S
  BY <1>1, <1>2
<1>q. QED BY <1>1, <1>2, <1>3
=============================================================================
