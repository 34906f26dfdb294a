---------------------------- MODULE MerkleTree ----------------------------
(***************************************************************************)
(* The Merkle tree over the chunks of a container (offf-core/src/hash.rs). *)
(* A hash is a tuple: that of chunk n is <<n>>, that of two nodes is the   *)
(* pair of them, so that hashes are equal when what they hash is.          *)
(***************************************************************************)
EXTENDS Integers, Sequences, SequencesExt, FiniteSetsExt

Half(n) == (n + 1) \div 2

\* hash_pair over a level; an odd node is paired with itself.
NextLevel(nodes) ==
    [i \in 1 .. Half(Len(nodes)) |->
        <<nodes[2 * i - 1], IF 2 * i <= Len(nodes) THEN nodes[2 * i] ELSE nodes[2 * i - 1]>>]

\* The number of levels above n leaves.
Depth(n) ==
    LET d[k \in Nat] == IF k <= 1 THEN 0 ELSE 1 + d[Half(k)] IN d[n]

\* All levels, the leaves first.
Levels(leaves) ==
    LET level[k \in Nat] == IF k = 0 THEN leaves ELSE NextLevel(level[k - 1])
    IN  [k \in 1 .. Depth(Len(leaves)) + 1 |-> level[k - 1]]

NoRoot == <<>>

\* An empty set of leaves has no root.
merkle_root(leaves) == IF leaves = <<>> THEN NoRoot ELSE Last(Levels(leaves))[1]

-----------------------------------------------------------------------------
(* Inclusion proofs.  Sequence numbers start at 0.                         *)

\* Mutant: the sibling of an odd last node is the node before it.
Sibling_before(nodes, i) ==
    IF i % 2 = 0
    THEN [position |-> "right", hash |-> IF i + 1 < Len(nodes) THEN nodes[i + 2] ELSE nodes[i]]
    ELSE [position |-> "left", hash |-> nodes[i]]

\* The sibling of node i (from 0) of a level.
Sibling(nodes, i) ==
    IF i % 2 = 0
    THEN [position |-> "right", hash |-> IF i + 1 < Len(nodes) THEN nodes[i + 2] ELSE nodes[i + 1]]
    ELSE [position |-> "left", hash |-> nodes[i]]

generate_merkle_proof(leaves, sequence) ==
    LET levels == Levels(leaves)
        index[k \in Nat] == IF k <= 1 THEN sequence ELSE index[k - 1] \div 2
    IN  [leaf_sequence |-> sequence, leaf_hash |-> leaves[sequence + 1],
         siblings |-> [k \in 1 .. Len(levels) - 1 |-> Sibling(levels[k], index[k])],
         root |-> Last(levels)[1]]

verify_merkle_proof(leaf, sequence, proof, root) ==
    /\ proof.leaf_sequence = sequence
    /\ proof.leaf_hash = leaf
    /\ root = FoldLeft(LAMBDA acc, s : IF s.position = "left" THEN <<s.hash, acc>> ELSE <<acc, s.hash>>,
                       leaf, proof.siblings)
    /\ proof.root = root

-----------------------------------------------------------------------------
(* merkle_tree.bin: a count, the nodes level by level, and the root again. *)

serialize_merkle_tree(leaves) ==
    [leaf_count |-> Len(leaves), nodes |-> FlattenSeq(Levels(leaves)), tail |-> merkle_root(leaves)]

\* How many nodes a tree over n leaves has.
Nodes(n) ==
    LET c[k \in Nat] == IF k <= 1 THEN 1 ELSE k + c[Half(k)] IN c[n]

\* Each node above the leaves is the hash of the two below it.
Consistent(nodes, n) == nodes = FlattenSeq(Levels(SubSeq(nodes, 1, n)))

\* parse_and_validate_merkle_tree: the file is accepted, and gives its leaves.
Accepts(file) ==
    /\ file.leaf_count > 0
    /\ Len(file.nodes) = Nodes(file.leaf_count)
    /\ Consistent(file.nodes, file.leaf_count)
    /\ file.tail = Last(file.nodes)

LeavesOf(file) == SubSeq(file.nodes, 1, file.leaf_count)
=============================================================================
