---------------------------- MODULE SearchTheorems ----------------------------
(***************************************************************************)
(* Facts about the search of a vector, which the models write with         *)
(* SelectInSeq of the community modules: it takes the least position.      *)
(***************************************************************************)
EXTENDS SequencesExt, WellFoundedInduction

(* A set of natural numbers that is not empty has its least element for    *)
(* Min: the position a loop over a vector stops at.                        *)
LEMMA MinOfNat ==
  ASSUME NEW S \in SUBSET Nat, S # {}
  PROVE  Min(S) \in S /\ \A k \in S : Min(S) <= k
<1>1. \E x \in S : \A y \in S : ~ (<<y, x>> \in OpToRel(<, Nat))
  BY NatLessThanWellFounded, WFMin
<1>2. \A x, y \in Nat : y < x => <<y, x>> \in OpToRel(<, Nat)
  BY DEF OpToRel
<1>3. PICK x \in S : \A y \in S : ~ (<<y, x>> \in OpToRel(<, Nat))
  BY <1>1
<1>4. \A y \in S : ~ (y < x)
  BY <1>2, <1>3
<1>5. \A y \in S : x <= y
  BY <1>4
<1> QED BY <1>5 DEF Min
=============================================================================
