----------------------------- MODULE Questions -----------------------------
(***************************************************************************)
(* Questions to algorithms that keep no state: a question is an input, or  *)
(* there is none.  Each says in `kind` what it is about.                   *)
(***************************************************************************)

CONSTANT Nobody         \* no question

VARIABLE question

\* Questions of these kinds are only asked by Ask; whatever else is asked.
OnlyAsked(Ask, kinds) ==
    question.kind \notin kinds /\ [][question'.kind \in kinds => Ask]_question
=============================================================================
