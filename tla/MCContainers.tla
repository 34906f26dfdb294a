---------------------------- MODULE MCContainers ----------------------------
(* Small instances of Containers for TLC. *)
EXTENDS Containers

CONSTANTS a, b, p1, p2, c1, c2

TwoBlocks     == {a, b}
\* The last two have the same Merkle root.
FewImages     == {<<>>, <<a>>, <<b, b, a>>, <<a, b, b>>, <<a, b, b, b>>}
FewFileTrees  == {<<>>, <<[path |-> 1, content |-> a]>>,
                  <<[path |-> 1, content |-> b], [path |-> 2, content |-> a], [path |-> 3, content |-> b]>>}
TwoSettings   == {<<"none", FALSE>>, <<"zstd", TRUE>>}
TwoConverters == {p1, p2}
TwoCollectors == {c1, c2}

Alike == Permutations(TwoConverters) \cup Permutations(TwoCollectors)
=============================================================================
