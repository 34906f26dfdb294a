------------------------------- MODULE Image -------------------------------
(***************************************************************************)
(* Reading byte ranges of the image a container holds: from the chunks of  *)
(* its map (offf-core/src/partition.rs), through the cache of the NTFS     *)
(* indexer (ntfs.rs), and through the extents of a file (storage.rs).      *)
(*                                                                         *)
(* A map gives each chunk by its number as [off, data, good]; a read of    *)
(* one that is not good fails, as read_chunk verifies it.  A read gives    *)
(* bytes, or NotRead.                                                      *)
(***************************************************************************)
EXTENDS Integers, Sequences, SequencesExt, FiniteSetsExt

CONSTANT MAX_CACHED_CHUNKS

ASSUME CacheAssumption == MAX_CACHED_CHUNKS \in Nat \ {0}

NotRead == <<-1>>

End(c) == c.off + Len(c.data)

Holds(c, pos) == c.off <= pos /\ pos < End(c)

Overlaps(c, start, end) == c.off < end /\ End(c) > start

\* The chunks that hold a part of a range.
chunk_refs_for_range(chunks, start, length) ==
    IF length = 0 THEN {}
    ELSE {n \in DOMAIN chunks : Overlaps(chunks[n], start, start + length)}

\* How much of chunk c lies in a range.
Overlap(c, offset, end) ==
    (IF End(c) < end THEN End(c) ELSE end) - (IF c.off > offset THEN c.off ELSE offset)

Touching(chunks, offset, end) == {n \in DOMAIN chunks : Overlaps(chunks[n], offset, end)}

\* The bytes copied are counted: fewer than asked for is an error.
Filled(chunks, touching, offset, end) ==
    MapThenSumSet(LAMBDA n : Overlap(chunks[n], offset, end), touching)

\* The buffer starts as zeros, and each chunk in turn is copied over it.
Assemble(chunks, touching, offset, length) ==
    [i \in 1 .. length |->
        LET pos     == offset + i - 1
            holders == {n \in touching : Holds(chunks[n], pos)}
        IN  IF holders = {} THEN 0 ELSE chunks[Max(holders)].data[pos - chunks[Max(holders)].off + 1]]

read_bytes_at(chunks, offset, length) ==
    LET end      == offset + length
        touching == Touching(chunks, offset, end)
    IN  IF length = 0 THEN <<>>
        ELSE IF \E n \in touching : ~chunks[n].good THEN NotRead
        ELSE IF Filled(chunks, touching, offset, end) < length THEN NotRead
        ELSE Assemble(chunks, touching, offset, length)

\* reconstruct_from_extents: the extents of a file, one after the other.
reconstruct_from_extents(chunks, extents) ==
    LET parts == [n \in DOMAIN extents |-> read_bytes_at(chunks, extents[n][1], extents[n][2])]
    IN  IF \E n \in DOMAIN parts : parts[n] = NotRead THEN NotRead ELSE FlattenSeq(parts)

-----------------------------------------------------------------------------
(* ChunkCache.  A cache is a queue of <<number of chunk, its bytes>>.      *)

Cached(cache, n) == \E k \in DOMAIN cache : cache[k][1] = n

\* A full cache drops its oldest chunk.
Room(cache) == IF Len(cache) >= MAX_CACHED_CHUNKS THEN Tail(cache) ELSE cache

\* Mutant: the bytes are filed under the chunk that was evicted for them.
Fetch_reuse(cache, chunks, n) ==
    IF Cached(cache, n) THEN cache
    ELSE IF Len(cache) >= MAX_CACHED_CHUNKS
    THEN Append(Room(cache), <<cache[1][1], chunks[n].data>>)
    ELSE Append(cache, <<n, chunks[n].data>>)

Fetch(cache, chunks, n) ==
    IF Cached(cache, n) THEN cache ELSE Append(Room(cache), <<n, chunks[n].data>>)

Plain(cache, n) == cache[CHOOSE k \in DOMAIN cache : cache[k][1] = n][2]

\* What is read of one chunk: it is copied out of the cache as soon as it is
\* there.  A chunk that cannot be read ends it all, after the eviction.
Visit(chunks, offset, n, st) ==
    IF st.bytes = NotRead THEN st
    ELSE IF ~Cached(st.cache, n) /\ ~chunks[n].good THEN [cache |-> Room(st.cache), bytes |-> NotRead]
    ELSE LET c == Fetch(st.cache, chunks, n)
             at(i) == (offset + i - 1) - chunks[n].off + 1
         IN  [cache |-> c,
              bytes |-> [i \in DOMAIN st.bytes |->
                            IF Cached(c, n) /\ at(i) \in DOMAIN Plain(c, n) THEN Plain(c, n)[at(i)]
                            ELSE st.bytes[i]]]

\* read_at goes through the chunks in the order of their numbers.
read_at(cache, chunks, offset, length) ==
    LET end      == offset + length
        touching == Touching(chunks, offset, end)
        zeros    == [cache |-> cache, bytes |-> [i \in 1 .. length |-> 0]]
        last     == MapThenFoldSet(LAMBDA n, st : Visit(chunks, offset, n, st), zeros,
                                   LAMBDA n : n, Max, touching)
    IN  IF length = 0 THEN [cache |-> cache, bytes |-> <<>>]
        ELSE IF Filled(chunks, touching, offset, end) < length THEN [last EXCEPT !.bytes = NotRead]
        ELSE last
=============================================================================
