------------------------------ MODULE Extremes ------------------------------
(***************************************************************************)
(* Non-empty sets of numbers have a least element, and a greatest one if    *)
(* they are bounded: what the models choose with CHOOSE, Min or Max exists. *)
(***************************************************************************)
EXTENDS Integers, WellFoundedInduction, TLAPS

(* A non-empty subset of a well-founded set has a minimal element. *)
LEMMA Minimal ==
    ASSUME NEW R, NEW N, IsWellFoundedOn(R, N), NEW S, S \subseteq N, S # {}
    PROVE  \E n \in S : \A m \in S : ~(<<m, n>> \in R)
  BY WFMin

(* The order of the naturals as a relation. *)
LEMMA LessPairs == \A x, y \in Nat : x < y => <<x, y>> \in OpToRel(<, Nat)
  BY DEF OpToRel

(* A non-empty set of naturals has a least element. *)
LEMMA LeastNat ==
    ASSUME NEW S \in SUBSET Nat, S # {}
    PROVE  \E n \in S : \A m \in S : n <= m
  <1> DEFINE R == OpToRel(<, Nat)
  <1>1. IsWellFoundedOn(R, Nat)
    BY NatLessThanWellFounded
  <1>2. \A x, y \in Nat : x < y => <<x, y>> \in R
    BY LessPairs
  <1> HIDE DEF R
  <1>3. PICK n \in S : \A m \in S : ~(<<m, n>> \in R)
    BY <1>1, Minimal
  <1>4. \A m \in S : ~(m < n)
    BY <1>2, <1>3
  <1> QED
    BY <1>3, <1>4

(* A non-empty bounded set of naturals has a greatest element. *)
LEMMA GreatestNat ==
    ASSUME NEW S \in SUBSET Nat, S # {}, NEW b \in Nat, \A n \in S : n <= b
    PROVE  \E n \in S : \A m \in S : m <= n
  <1> DEFINE T == {b - n : n \in S}
  <1>1. T \in SUBSET Nat /\ T # {}
    <2>1. \A n \in S : b - n \in Nat
      OBVIOUS
    <2>2. \A d \in T : d \in Nat
      BY <2>1
    <2>3. PICK n \in S : TRUE
      OBVIOUS
    <2>4. b - n \in T
      BY <2>3
    <2> QED
      BY <2>2, <2>4
  <1>2. \A n \in S : b - n \in T
    OBVIOUS
  <1>3. \A d \in T : \E n \in S : d = b - n
    OBVIOUS
  <1> HIDE DEF T
  <1>4. PICK d \in T : \A e \in T : d <= e
    BY <1>1, LeastNat
  <1>5. PICK n \in S : d = b - n
    BY <1>3, <1>4
  <1>6. \A m \in S : m <= n
    <2> SUFFICES ASSUME NEW m \in S PROVE m <= n
      OBVIOUS
    <2>1. b - n <= b - m
      BY <1>2, <1>4, <1>5
    <2> QED
      BY <2>1
  <1> QED
    BY <1>6
=============================================================================
