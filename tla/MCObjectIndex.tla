--------------------------- MODULE MCObjectIndex ---------------------------
(* A small instance of ObjectIndex for TLC. *)
EXTENDS ObjectIndex

CONSTANTS x, y

TwoIds == {x, y}

\* Both jobs find x; the file system holds y.
BothFind == <<{x}, {x}>>

OneHolds == <<{y}>>

Ev(t, i) == [type |-> t, id |-> i]

\* One log is replayed to its end, and leaves y, which it puts after a removal,
\* and not x; the other stops the replay.
SomeLogs == {<<Ev("removed", y), Ev("put", x), Ev("put", y), Ev("ignored", y), Ev("removed", x)>>,
             <<Ev("put", y), Ev("bad", x)>>}
=============================================================================
