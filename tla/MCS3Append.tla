----------------------------- MODULE MCS3Append -----------------------------
(* A small instance of S3Append for TLC. *)
EXTENDS S3Append

CONSTANTS a, b

TwoCalls == {a, b}
=============================================================================
