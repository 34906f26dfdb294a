------------------------------ MODULE Absences ------------------------------
(***************************************************************************)
(* What a file or a cell may have instead of a value.                      *)
(***************************************************************************)

CONSTANTS
    None,       \* a null, or no value
    Missing,    \* a file that is not there
    Garbled     \* one that cannot be parsed
=============================================================================
