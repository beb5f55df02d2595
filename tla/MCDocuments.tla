---------------------------- MODULE MCDocuments ----------------------------
(* Instances of Documents for TLC. *)
EXTENDS Documents

CONSTANTS d1, d2, d3

TwoClasses == {d1, d2}
ThreeClasses == {d1, d2, d3}
AllKotlin == [d \in Classes |-> "kotlin"]
MCSymmetry2 == Permutations(TwoClasses)
MCSymmetry3 == Permutations(ThreeClasses)
=============================================================================
