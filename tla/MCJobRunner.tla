----------------------------- MODULE MCJobRunner -----------------------------
(* Small instances of JobRunner for TLC. *)
EXTENDS JobRunner, TLC

CONSTANTS w1, w2, m1, m2

TwoWorkers == {w1, w2}
TwoManifests == {m1, m2}
OneEdit == {<<m1, m2>>}
AnyEdit == TwoManifests \X TwoManifests
TwoLimits == {0, 2}

WrappingLimits == {1, 3}

\* The workers are interchangeable in Init, Next and the invariants.
WorkerSymmetry == Permutations(TwoWorkers)
=============================================================================
