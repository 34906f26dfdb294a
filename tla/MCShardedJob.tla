---------------------------- MODULE MCShardedJob ----------------------------
(* Instances of ShardedJob for TLC. *)
EXTENDS ShardedJob

CONSTANT r1

FourObjects == 1 .. 4
FirstThree == 1 .. 3

\* One scope has an object less than the plans have shards.
TwoIndexes == {{1, 4}, {1, 2, 3}}

\* Three of the ways to cut a scope, one with fewer shards than the others; the
\* hash puts the first two objects together.
SomeLayouts == {[count |-> 2, strategy |-> "round_robin"],
                [count |-> 2, strategy |-> "hash_modulo"],
                [count |-> 1, strategy |-> "object_id_range"]}
SomeHashes == [o \in 1 .. 4 |-> IF o = 3 THEN 5 ELSE 2]
=============================================================================
