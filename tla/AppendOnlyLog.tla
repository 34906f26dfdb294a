--------------------------- MODULE AppendOnlyLog ---------------------------
(***************************************************************************)
(* What the provenance, analysis and audit streams of a container are      *)
(* meant to be: a sequence of lines that only grows at its end, where a    *)
(* caller told "appended" finds its line in the stream.                    *)
(***************************************************************************)
EXTENDS Sequences, Functions

CONSTANT Calls   \* the append calls; a call is identified with its line

VARIABLES lines, acked

lvars == <<lines, acked>>

Init == lines = <<>> /\ acked = {}

\* The line of a call is stored; the caller may learn of it at once.
Store(c) ==
    /\ lines' = Append(lines, c)
    /\ acked' \in {acked, acked \cup {c}}

Acknowledge(c) ==
    /\ c \in Range(lines)
    /\ acked' = acked \cup {c}
    /\ UNCHANGED lines

Next == \E c \in Calls : Store(c) \/ Acknowledge(c)

Spec == Init /\ [][Next]_lvars
=============================================================================
