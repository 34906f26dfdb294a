---------------------------- MODULE MCAlgorithms ----------------------------
(* Small inputs for the algorithms. *)
EXTENDS Algorithms

CONSTANTS o1, o2, o3

ThreeObjects == {o1, o2, o3}
=============================================================================
