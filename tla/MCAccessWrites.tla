--------------------------- MODULE MCAccessWrites ---------------------------
(* A small instance of AccessWrites for TLC. *)
EXTENDS AccessWrites

CONSTANTS r1, r2, t1, p, d, b1, b2

TwoRequests == {r1, r2}
OneTool == {t1}
OneResult == {p}
OneDelta  == {d}
TwoBodies == {b1, b2}
=============================================================================
