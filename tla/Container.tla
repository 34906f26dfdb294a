----------------------------- MODULE Container -----------------------------
(***************************************************************************)
(* What a container of a block image holds, and how its chunks are written *)
(* and read (offf-core/src/chunk.rs, storage.rs) and the whole is verified *)
(* (offf-verify).                                                          *)
(*                                                                         *)
(* An image is a sequence of blocks, one for each chunk; the hash of       *)
(* something is the tuple with it, and that of an image the image itself.  *)
(* A file that is not there is Missing, one that cannot be parsed Garbled. *)
(***************************************************************************)
EXTENDS MerkleTree, Absences, TLC

CONSTANT Blocks

Unread == <<>>

Sha(x) == <<x>>

Compress(comp, block) == IF comp = "zstd" THEN <<"zstd", block>> ELSE block

\* Decoding anything but a zstd frame fails.
Decode(comp, stored) ==
    IF comp = "none" THEN stored
    ELSE IF \E b \in Blocks : stored = <<"zstd", b>> THEN stored[2] ELSE Garbled

\* A row of physical_to_chunk.
Row(sequence, comp, block) ==
    [sequence |-> sequence, plaintext_sha256 |-> Sha(block), compression |-> comp,
     stored_sha256 |-> Sha(Compress(comp, block))]

\* read_chunk, verify_chunk and read_chunk_verified: the stored bytes and
\* what they decode to must both have their hash.
read_chunk(c, row) ==
    LET stored == c.chunks[row.plaintext_sha256]
        plain  == Decode(row.compression, stored)
    IN  IF /\ row.plaintext_sha256 \in DOMAIN c.chunks
           /\ Sha(stored) = row.stored_sha256
           /\ Sha(plain) = row.plaintext_sha256
        THEN <<plain>> ELSE Unread

\* A directory with a file more, unless there is one with the name.
WithFile(dir, name, content) ==
    [n \in DOMAIN dir \cup {name} |-> IF n \in DOMAIN dir THEN dir[n] ELSE content]

\* write_chunk: a chunk that is there already must be the one to be written.
CanWrite(c, comp, block) ==
    Sha(block) \in DOMAIN c.chunks => read_chunk(c, Row(0, comp, block)) = <<block>>

write_chunk(c, comp, block) ==
    IF Sha(block) \in DOMAIN c.chunks THEN c
    ELSE [c EXCEPT !.chunks = WithFile(@, Sha(block), Compress(comp, block))]

LeafHashes(map) == [n \in DOMAIN map |-> map[n].plaintext_sha256]

LeafRows(map) == [n \in DOMAIN map |-> <<map[n].sequence, map[n].plaintext_sha256>>]

ManifestOf(image) ==
    [source_sha256 |-> image, merkle_root_sha256 |-> merkle_root([n \in DOMAIN image |-> Sha(image[n])])]

Parses(file) == file # Missing /\ file # Garbled

-----------------------------------------------------------------------------
(* verify, for the block image of a local container.                       *)

\* Mutant: a container without the sidecar is accepted.
HmacOk_lenient(c, key) == key /\ c.hmac # Missing => c.hmac = c.manifest

\* With a key, the sidecar must be there and sign the manifest.
HmacOk(c, key) == key => c.hmac # Missing /\ c.hmac = c.manifest

\* The rows of the chunks that a selection names by number or by hash; None
\* is all.
Selected(c, subset) ==
    {n \in DOMAIN c.map :
        \/ subset = None
        \/ c.map[n].sequence \in subset.seqs
        \/ c.map[n].plaintext_sha256 \in subset.ids}

Hashed(c) == c.manifest.source_sha256 # None

TreeOk(c) ==
    /\ Parses(c.tree)
    /\ Accepts(c.tree)
    /\ LeavesOf(c.tree) = LeafHashes(c.map)
    /\ Hashed(c) => c.tree.tail = c.manifest.merkle_root_sha256

\* The chunk that --proof-chunk names is in the tree of the manifest's root.
ProofOk(c, proof) ==
    \/ proof = None
    \/ \E n \in DOMAIN c.map :
          /\ c.map[n].sequence = proof
          /\ proof < Len(c.map)
          /\ Hashed(c)
          /\ verify_merkle_proof(c.map[n].plaintext_sha256, proof,
                 generate_merkle_proof(LeafHashes(c.map), proof), c.manifest.merkle_root_sha256)

\* The bytes of the image, read in the order of the map.
Restored(c) == FlattenSeq([n \in DOMAIN c.map |-> read_chunk(c, c.map[n])])

SourceOk(c) == Hashed(c) => Restored(c) = c.manifest.source_sha256

\* What only a run without --subset looks at.
WholeOk(c, proof) ==
    /\ c.leaves = LeafRows(c.map)
    /\ TreeOk(c)
    /\ ProofOk(c, proof)
    /\ SourceOk(c)

ChunksOk(c, chosen) ==
    /\ chosen # {}
    /\ \A n \in chosen : read_chunk(c, c.map[n]) # Unread

required_files(c) == <<c.manifest, c.acquisition, c.map, c.leaves, c.tree, c.provenance>>

verify(c, key, subset, proof) ==
    /\ HmacOk(c, key)
    /\ Parses(c.manifest)
    /\ Parses(c.acquisition)
    /\ Parses(c.map)
    /\ ChunksOk(c, Selected(c, subset))
    /\ subset = None => WholeOk(c, proof)
    /\ \A n \in 1 .. 6 : required_files(c)[n] # Missing
    /\ Len(c.provenance) > 0

-----------------------------------------------------------------------------
(* export (offf-export), for an exploded container.                        *)

\* The chunks before the first that cannot be read.
Readable(c) ==
    LET bad == SelectInSeq(c.map, LAMBDA r : read_chunk(c, r) = Unread)
    IN  IF bad = 0 THEN c.map ELSE SubSeq(c.map, 1, bad - 1)

\* The output is created, and chunk after chunk is written to it.  When one
\* cannot be read it stays as it is; an image with another hash is removed.
export(c) ==
    IF ~Parses(c.manifest) \/ ~Parses(c.map) \/ c.map = <<>> THEN [ok |-> FALSE, output |-> Missing]
    ELSE LET written == FlattenSeq([n \in DOMAIN Readable(c) |-> read_chunk(c, c.map[n])])
         IN  IF Readable(c) # c.map THEN [ok |-> FALSE, output |-> written]
             ELSE IF SourceOk(c) THEN [ok |-> TRUE, output |-> written]
             ELSE [ok |-> FALSE, output |-> Missing]
=============================================================================
