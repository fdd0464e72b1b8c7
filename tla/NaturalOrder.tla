---------------------------- MODULE NaturalOrder ----------------------------
(* Extrema of sets of natural numbers, which the cursors and walk orders rest on. *)
EXTENDS Naturals, WellFoundedInduction, TLAPS

\* A nonempty set of natural numbers has a smallest element.
LEMMA SmallestNat ==
    ASSUME NEW S \in SUBSET Nat, S # {}
    PROVE  \E m \in S : \A n \in S : m <= n
  <1> DEFINE R == OpToRel(<, Nat)
  <1>1. IsWellFoundedOn(R, Nat)
    BY NatLessThanWellFounded
  <1>2. \E m \in S : \A n \in S : ~(<<n, m>> \in R)
    <2> HIDE DEF R
    <2>. QED
      BY <1>1, WFMin
  <1>3. \A m, n \in Nat : <<n, m>> \notin R => m <= n
    BY DEF OpToRel
  <1>. QED
    BY <1>2, <1>3
=============================================================================
