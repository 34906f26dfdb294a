--------------------------- MODULE MCCaseRegistry ---------------------------
(* A small instance of CaseRegistry for TLC. *)
EXTENDS CaseRegistry, TLC

CONSTANTS p1, p2, r1, r2

TwoProcs == {p1, p2}
TwoRoots == {r1, r2}

Alike == Permutations(TwoProcs) \cup Permutations(TwoRoots)
=============================================================================
