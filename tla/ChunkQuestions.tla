--------------------------- MODULE ChunkQuestions ---------------------------
(***************************************************************************)
(* What is asked of the chunks of an image: the Merkle tree over them and  *)
(* its proofs (offf-core/src/hash.rs), and byte ranges of the image that   *)
(* are read from those that are left (partition.rs, ntfs.rs, storage.rs).  *)
(*                                                                         *)
(* A question is an input, drawn from a bounded set, and each property     *)
(* compares what the algorithms make of it with what they are meant to     *)
(* find.  Algorithms has the other questions, and asks all of them.        *)
(***************************************************************************)
EXTENDS MerkleTree, Image, Questions

CONSTANTS
    MaxLeaves,      \* bound: chunks of a Merkle tree
    ImageSize       \* bound: bytes of the image that ranges are read from

ASSUME QuestionAssumption == MaxLeaves \in Nat /\ ImageSize \in Nat

-----------------------------------------------------------------------------
(* Questions.                                                              *)

LeavesUpTo(n) == [k \in 1 .. n |-> <<k>>]

\* What is written in place of a node.
Noise == <<0>>

\* A tree as it is stored, with at most one node (or the count) changed.
AskTree ==
    \E n \in 1 .. MaxLeaves :
        LET file == serialize_merkle_tree(LeavesUpTo(n))
            ask(changed) == question' = [kind |-> "tree", n |-> n, file |-> changed]
        IN  \/ ask(file)
            \/ \E k \in DOMAIN file.nodes : ask([file EXCEPT !.nodes[k] = Noise])
            \/ ask([file EXCEPT !.tail = Noise])
            \/ \E c \in 0 .. MaxLeaves + 1 : ask([file EXCEPT !.leaf_count = c])

\* A proof for one leaf, shown with one leaf, at one place.
AskProof ==
    \E n \in 1 .. MaxLeaves : \E of, leaf, at \in 0 .. n - 1 :
        question' = [kind |-> "proof", n |-> n, of |-> of, leaf |-> leaf, at |-> at]

Byte(pos) == 100 + pos

\* The map of a conversion with chunks of `size` bytes.
Cut(size) ==
    [n \in 1 .. (ImageSize + size - 1) \div size |->
        [off  |-> (n - 1) * size, good |-> TRUE,
         data |-> [i \in 1 .. Min({size, ImageSize - (n - 1) * size}) |-> Byte((n - 1) * size + i - 1)]]]

\* What is left of it.
Spared(size, lost, bad) ==
    [n \in DOMAIN Cut(size) \ lost |-> [Cut(size)[n] EXCEPT !.good = (n # bad)]]

Ranges == (0 .. ImageSize - 1) \X (0 .. ImageSize - 1)

\* Two ranges, read one after the other from a map that lost some of its
\* chunks, and of which one may be damaged.
AskRanges ==
    \E size \in 1 .. ImageSize - 1 : \E lost \in SUBSET DOMAIN Cut(size), bad \in DOMAIN Cut(size) \cup {0} :
        /\ bad \notin lost
        /\ \E one, two \in Ranges :
              question' = [kind |-> "ranges", one |-> one, two |-> two, map |-> Spared(size, lost, bad)]

AskChunks == AskTree \/ AskProof \/ AskRanges

ChunkSpec == OnlyAsked(AskChunks, {"tree", "proof", "ranges"})

-----------------------------------------------------------------------------
(* Trees.                                                                  *)

\* merkle_tree.bin is accepted with the leaves it was written for, and a
\* change of a single node, of the root or of the count is always noticed.
TreeBinds ==
    question.kind = "tree" =>
        (Accepts(question.file) <=> question.file = serialize_merkle_tree(LeavesUpTo(question.n)))

\* The proof made for a chunk holds for it, also at the odd end of a level,
\* and for no other chunk and no other place.
ProofBinds ==
    question.kind = "proof" =>
        LET q == question
            leaves == LeavesUpTo(q.n)
        IN  verify_merkle_proof(leaves[q.leaf + 1], q.at, generate_merkle_proof(leaves, q.of),
                                merkle_root(leaves))
            <=> q.of = q.leaf /\ q.of = q.at

\* hash.rs: a stored tree and the proofs made from it bind the leaves, their
\* order and their number, for every number of them.
TreesBind == TreeBinds /\ ProofBinds

-----------------------------------------------------------------------------
(* Ranges.                                                                 *)

\* Every byte of a range is in some chunk.
Held(map, range) == \A pos \in range : \E n \in DOMAIN map : Holds(map[n], pos)

\* Every chunk that has a byte of a range is good.
Unharmed(map, range) == \A pos \in range : \A n \in DOMAIN map : Holds(map[n], pos) => map[n].good

Covered(map, r) ==
    LET range == r[1] .. r[1] + r[2] - 1 IN Held(map, range) /\ Unharmed(map, range)

BytesOf(r) == [i \in 1 .. r[2] |-> Byte(r[1] + i - 1)]

\* A read gives the bytes of the image or fails, whatever chunks are missing
\* or damaged: it fails exactly when one that is needed is.
RangeReadExact ==
    question.kind = "ranges" => \A r \in {question.one, question.two} :
        read_bytes_at(question.map, r[1], r[2]) = IF Covered(question.map, r) THEN BytesOf(r) ELSE NotRead

\* The extents of a file give the ranges one after the other, or an error; no
\* extent is left out or cut short.
ExtentsReadExact ==
    question.kind = "ranges" =>
        LET q == question IN
        reconstruct_from_extents(q.map, <<q.one, q.two>>) =
            IF Covered(q.map, q.one) /\ Covered(q.map, q.two) THEN BytesOf(q.one) \o BytesOf(q.two) ELSE NotRead

\* What is read through the cache, after any read before it and however small
\* the cache, is what is read directly; and the cache does not grow.
CacheIsTransparent ==
    question.kind = "ranges" =>
        LET q      == question
            first  == read_at(<<>>, q.map, q.one[1], q.one[2])
            second == read_at(first.cache, q.map, q.two[1], q.two[2])
        IN  /\ second.bytes = read_bytes_at(q.map, q.two[1], q.two[2])
            /\ Len(second.cache) <= MAX_CACHED_CHUNKS

\* The chunk references of a range are enough to read it, and each of them
\* is needed.
RefsSuffice ==
    question.kind = "ranges" => \A r \in {question.one, question.two} :
        LET map     == [n \in DOMAIN question.map |-> [question.map[n] EXCEPT !.good = TRUE]]
            only(S) == [n \in S |-> map[n]]
            refs    == chunk_refs_for_range(map, r[1], r[2])
            all     == read_bytes_at(map, r[1], r[2])
        IN  /\ read_bytes_at(only(refs), r[1], r[2]) = all
            /\ all # NotRead => \A n \in refs : read_bytes_at(only(refs \ {n}), r[1], r[2]) = NotRead

\* partition.rs, ntfs.rs and storage.rs: whatever reads an image through its
\* chunks gives its very bytes or an error, with a cache and without.
ReadsExact == RangeReadExact /\ ExtentsReadExact /\ CacheIsTransparent /\ RefsSuffice
=============================================================================
