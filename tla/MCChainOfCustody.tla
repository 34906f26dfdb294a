-------------------------- MODULE MCChainOfCustody --------------------------
(* Small instances of ChainOfCustody for TLC. *)
EXTENDS ChainOfCustody

CONSTANTS w1, w2, s1

None         == {}
TwoWriters   == {w1, w2}
OneService   == {s1}
=============================================================================
