------------------------ MODULE MCProjectLifecycle ------------------------
(* Instances of ProjectLifecycle for TLC. *)
EXTENDS ProjectLifecycle, TLC

CONSTANTS f1, f2, f3, k1, a1

MCTwoFlows == {f1, f2}
MCThreeFlows == {f1, f2, f3}
MCSymbols == {k1}
MCAliases == {a1}
MCSymmetry == Permutations({f1, f2, f3})
MCSymmetryTwo == Permutations({f1, f2})
=============================================================================
