---------------------------- MODULE MCWorkbench ----------------------------
(* Instances of Workbench for TLC. *)
EXTENDS Workbench, TLC

CONSTANTS c1, c2, c3, t1, t2, t3, r1, r2

ThreeCalls == {c1, c2, c3}
ThreeTokens == {t1, t2, t3}
TwoRequests == {r1, r2}

\* A session has the number that is next when it is opened, so sessions are not
\* interchangeable; calls, addresses and request ids are.
MCSymmetry3 == Permutations(ThreeCalls) \cup Permutations(ThreeTokens)
MCSymmetryRequests == MCSymmetry3 \cup Permutations(TwoRequests)
=============================================================================
