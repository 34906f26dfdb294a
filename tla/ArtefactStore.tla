--------------------------- MODULE ArtefactStore ---------------------------
(***************************************************************************)
(* What the files under analysis/jobs can be relied on for.  A writer is   *)
(* let in only as long as its file does not exist, and nobody but those    *)
(* let in changes it; so a file nobody is writing any more stays as it is. *)
(* Several writers may be let in, one after the other or at once, before   *)
(* the file is there.  Then their bodies replace each other, and may even  *)
(* get mixed; a writer that was alone, and was told Ok, has its body in    *)
(* the file, for good.                                                     *)
(***************************************************************************)
CONSTANTS
    Paths,    \* the files
    Writers,  \* each writes once
    Bodies,   \* what can be written
    NoFile,   \* a file that does not exist
    Empty,    \* a file that was created and has no content yet
    Cut,      \* a file whose writer stopped before the end
    Mixed,    \* a file that holds parts of several bodies
    Out       \* a writer that was not let in

VARIABLES store, writer

svars == <<store, writer>>

Init ==
    /\ store = [p \in Paths |-> NoFile]
    /\ writer = [w \in Writers |-> Out]

In(w) == writer[w] # Out /\ writer[w].at = "in"

Becomes(w, at) == writer' = [writer EXCEPT ![w] = [@ EXCEPT !.at = at]]

Sets(w, c) == store' = [store EXCEPT ![writer[w].path] = c]

\* Nobody else was ever let in to its file.
Alone(w) == \A v \in Writers \ {w} : writer[v] = Out \/ writer[v].path # writer[w].path

LetIn(w, p, b) ==
    /\ writer[w] = Out /\ store[p] = NoFile
    /\ writer' = [writer EXCEPT ![w] = [at |-> "in", path |-> p, body |-> b]]
    /\ UNCHANGED store

\* It stops before it has touched the file.
Withdraw(w) ==
    /\ In(w) /\ writer' = [writer EXCEPT ![w] = Out]
    /\ UNCHANGED store

Truncate(w) == In(w) /\ Sets(w, Empty) /\ UNCHANGED writer

\* The body is written, and the writer is told.
Finish(w) ==
    /\ In(w) /\ Becomes(w, "told")
    /\ Sets(w, writer[w].body) \/ (~Alone(w) /\ Sets(w, Mixed))

\* It stops anywhere; what another has written meanwhile may be left.
GiveUp(w) ==
    /\ In(w) /\ Becomes(w, "gone")
    /\ \/ UNCHANGED store
       \/ Sets(w, writer[w].body) \/ Sets(w, Cut)
       \/ ~Alone(w) /\ Sets(w, Mixed)

Next ==
    \E w \in Writers :
        \/ \E p \in Paths, b \in Bodies : LetIn(w, p, b)
        \/ Withdraw(w) \/ Truncate(w) \/ Finish(w) \/ GiveUp(w)

Spec == Init /\ [][Next]_svars
=============================================================================
