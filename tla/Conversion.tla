----------------------------- MODULE Conversion -----------------------------
(***************************************************************************)
(* offf-convert: a converter makes the container of an image in a          *)
(* directory of its own and publishes it.                                  *)
(***************************************************************************)
EXTENDS Publication

CONSTANTS
    Images,     \* what there is to convert: sequences of blocks
    Settings,   \* compression, and whether OFFF_MANIFEST_HMAC_KEY is set
    Main        \* the output of the conversions

ASSUME ConversionAssumption ==
    /\ Images \subseteq Seq(Blocks)
    /\ None \notin Images
    /\ Settings \subseteq {"none", "zstd"} \X BOOLEAN
    /\ Main \in Outputs
    /\ \A img \in Images : \A seqs \in SUBSET (0 .. Len(img) - 1) : [seqs |-> seqs, ids |-> {}] # None

\* What a file of a container holds is never taken for one that is missing or
\* cannot be parsed.
ASSUME ImageFilesAssumption ==
    \A mark \in {Missing, Garbled} :
        /\ "acquired" # mark /\ <<"converted">> # mark
        /\ \A img \in Images, setting \in Settings :
              LET map == [n \in DOMAIN img |-> Row(n - 1, setting[1], img[n])] IN
              /\ map # mark
              /\ LeafRows(map) # mark
              /\ serialize_merkle_tree(LeafHashes(map)) # mark
              /\ ManifestOf(img) # mark

VARIABLES
    image,      \* the image each converter is given
    comp, key,  \* the setting of all converters
    rows,       \* the chunks it wrote (kept in memory)
    tmp         \* its temporary directory

convertVars == <<image, comp, key, rows, tmp>>

\* The files of a container in the order they are written after the chunks.
Files == <<"tree", "map", "leaves", "acquisition", "provenance", "manifest", "hmac">>

EmptyContainer ==
    [chunks |-> <<>>, tree |-> Missing, map |-> Missing, leaves |-> Missing, acquisition |-> Missing,
     provenance |-> Missing, manifest |-> Missing, hmac |-> Missing]

InitConversion ==
    /\ image = [p \in Converters |-> <<>>]
    /\ \E s \in Settings : comp = s[1] /\ key = s[2]
    /\ rows = [p \in Converters |-> <<>>]
    /\ tmp = [p \in Converters |-> Absent]

Start(p) ==
    /\ Begin(p, Main, "mkdir")
    /\ \E img \in Images : image' = [image EXCEPT ![p] = img]
    /\ UNCHANGED <<comp, key, rows, tmp, out, damage>>

\* The name of the temporary directory has a fresh UUID in it.
MakeTmp(p) ==
    /\ Step(p, "mkdir", "chunks")
    /\ tmp' = [tmp EXCEPT ![p] = EmptyContainer]
    /\ UNCHANGED <<image, comp, key, rows, out, damage>>

\* A bad argument is noticed late, and leaves the directory behind.
BadArgument(p) ==
    /\ Step(p, "chunks", "failed")
    /\ rows[p] = <<>>
    /\ UNCHANGED <<convertVars, out, damage>>

\* The next block of the image becomes a chunk.
WriteChunk(p) ==
    LET n     == Len(rows[p])
        block == image[p][n + 1]
    IN  /\ Step(p, "chunks", "chunks")
        /\ n < Len(image[p])
        /\ CanWrite(tmp[p], comp, block)
        /\ tmp' = [tmp EXCEPT ![p] = write_chunk(@, comp, block)]
        /\ rows' = [rows EXCEPT ![p] = Append(@, Row(n, comp, block))]
        /\ UNCHANGED <<image, comp, key, out, damage>>

EndOfImage(p) ==
    /\ Step(p, "chunks", IF rows[p] = <<>> THEN "failed" ELSE "tree")
    /\ Len(rows[p]) = Len(image[p])
    /\ tmp' = IF rows[p] = <<>> THEN [tmp EXCEPT ![p] = Absent] ELSE tmp
    /\ UNCHANGED <<image, comp, key, rows, out, damage>>

\* What goes into a file; the sidecar is only written with a key.
FileContent(f, p) ==
    CASE f = "tree" -> serialize_merkle_tree(LeafHashes(rows[p]))
      [] f = "map" -> rows[p]
      [] f = "leaves" -> LeafRows(rows[p])
      [] f = "acquisition" -> "acquired"
      [] f = "provenance" -> <<"converted">>
      [] f = "manifest" -> ManifestOf(image[p])
      [] f = "hmac" -> IF key THEN tmp[p].manifest ELSE Missing

WriteFile(p) ==
    \E n \in DOMAIN Files :
        /\ Step(p, Files[n], IF n < Len(Files) THEN Files[n + 1] ELSE "check")
        /\ tmp' = [tmp EXCEPT ![p][Files[n]] = FileContent(Files[n], p)]
        /\ UNCHANGED <<image, comp, key, rows, out, damage>>

\* self_check_container: what is required is there, and parses.
SelfCheck(p) ==
    /\ Step(p, "check", "publish")
    /\ \A n \in 1 .. 6 : required_files(tmp[p])[n] # Missing
    /\ Parses(tmp[p].manifest) /\ Parses(tmp[p].acquisition)
    /\ UNCHANGED <<convertVars, out, damage>>

\* Any step of the conversion may fail; the directory is removed.
Fail(p) ==
    /\ \E from \in {"chunks", "check"} \cup Range(Files) : Step(p, from, "failed")
    /\ tmp' = [tmp EXCEPT ![p] = Absent]
    /\ UNCHANGED <<image, comp, key, rows, out, damage>>

\* A converter that cannot publish leaves its temporary directory behind.
Publish(p) ==
    /\ Rename(p, Main, tmp[p])
    /\ tmp' = IF out[Main] = Absent THEN [tmp EXCEPT ![p] = Absent] ELSE tmp
    /\ UNCHANGED <<image, comp, key, rows, damage>>

Crash(p) ==
    /\ run[p] \notin Ended \cup {"idle"}
    /\ Step(p, run[p], "crashed")
    /\ UNCHANGED <<convertVars, out, damage>>

Convert(p) ==
    \/ Start(p) \/ MakeTmp(p) \/ BadArgument(p) \/ WriteChunk(p) \/ EndOfImage(p)
    \/ WriteFile(p) \/ SelfCheck(p) \/ Publish(p) \/ Fail(p) \/ Crash(p)

-----------------------------------------------------------------------------
(* Damage: a file is lost or unreadable, or is that of a container of      *)
(* another image.                                                          *)

MapOf(img) == [n \in DOMAIN img |-> Row(n - 1, comp, img[n])]

Other(f, img) ==
    CASE f = "tree" -> serialize_merkle_tree(LeafHashes(MapOf(img)))
      [] f = "map" -> MapOf(img)
      [] f = "leaves" -> LeafRows(MapOf(img))
      [] f \in {"manifest", "hmac"} -> ManifestOf(img)

NoHashes == [source_sha256 |-> None, merkle_root_sha256 |-> None]

IsImage(dir) == dir # Absent /\ "chunks" \in DOMAIN dir

\* What may become of a container when one of its files is damaged.
DamagedFiles(c) ==
         {[c EXCEPT ![f] = Missing] : f \in Range(Files)}
    \cup {[c EXCEPT ![f] = Garbled] : f \in {"tree", "map", "acquisition", "manifest"}}
    \cup {[c EXCEPT ![f] = Other(f, img)] :
             f \in {"tree", "map", "leaves", "manifest", "hmac"}, img \in Images \ {<<>>}}
    \cup {[c EXCEPT !.manifest = NoHashes], [c EXCEPT !.provenance = <<>>]}

DamagedChunks(c) ==
    UNION {{[c EXCEPT !.chunks[h] = other] : other \in {Compress(comp, b) : b \in Blocks} \cup {Garbled}}
           \cup {[c EXCEPT !.chunks = [g \in DOMAIN @ \ {h} |-> @[g]]]} : h \in DOMAIN c.chunks}

DamageImage ==
    /\ IsImage(out[Main])
    /\ \E dir \in DamagedFiles(out[Main]) \cup DamagedChunks(out[Main]) : Damages(Main, dir)
    /\ UNCHANGED convertVars

-----------------------------------------------------------------------------
(* Properties of what is published.                                        *)

\* A conversion that reports success has published its container, whole, even
\* when another tool was given the same output at the same time; so of those
\* only one reports success (the rename at the end of convert).
ConvertedIsPublished ==
    \A p \in Converters :
        run[p] = "done" =>
            /\ \A q \in Converters \ {p} : run[q] # "done"
            /\ IsImage(out[Main])
            /\ damage = 0 => /\ out[Main].map = MapOf(image[p])
                            /\ out[Main].manifest = ManifestOf(image[p])
                            /\ out[Main].hmac = (IF key THEN out[Main].manifest ELSE Missing)

\* What a conversion published passes the full verification, with its key and
\* without one, and the inclusion proof of each of its chunks verifies:
\* for one chunk, for an odd number of them, and with equal chunks.
PublishedAccepted ==
    LET c == out[Main] IN
    IsImage(c) /\ damage = 0 =>
        \A k \in {key, FALSE}, proof \in {None} \cup 0 .. Len(c.map) - 1 : verify(c, k, None, proof)

\* Whatever became of the other files: a container that the full verification
\* accepts, and whose manifest is the one written, gives back the image of the
\* conversion.  The Merkle root alone would not do: an image that repeats its
\* last block may have the root of one that does not.
AcceptedRestores ==
    LET c == out[Main] IN
    \A p \in Converters :
        run[p] = "done" /\ c.manifest = ManifestOf(image[p]) /\ verify(c, FALSE, None, None)
            => Restored(c) = image[p]

\* While the map is the one written, a selection of chunks is accepted only
\* when each of them still gives its block, and damage to other chunks, to the
\* leaves and to the tree does not count against it.
SubsetSees ==
    LET c == out[Main] IN
    \A p \in Converters :
        run[p] = "done" /\ c.map = MapOf(image[p]) =>
            \A seqs \in (SUBSET (0 .. Len(image[p]) - 1)) \ {{}} :
                LET subset == [seqs |-> seqs, ids |-> {}]
                    intact == \A n \in seqs : read_chunk(c, c.map[n + 1]) = <<image[p][n + 1]>>
                    others == /\ Parses(c.manifest) /\ Parses(c.acquisition)
                              /\ c.provenance \notin {Missing, <<>>} /\ Missing \notin {c.leaves, c.tree}
                IN  /\ verify(c, FALSE, subset, None) => intact
                    /\ intact /\ others => verify(c, FALSE, subset, None)

\* With a key, what is accepted is an image and the manifest that was signed
\* for it: the hashes cannot be dropped from the manifest, which without a key
\* turns the checks against them into warnings.
KeyPinsImage ==
    LET c == out[Main] IN
    IsImage(c) /\ verify(c, TRUE, None, None) =>
        Restored(c) \in Images /\ c.manifest = ManifestOf(Restored(c))

\* What offf-convert reports as done is there, and offf-verify accepts it.
PublishedIsWhole == ConvertedIsPublished /\ PublishedAccepted

\* What is accepted in full can be exported.  An export that succeeds from the
\* manifest that was written is the image; one that stops has left a beginning
\* of it, as long as the map is the one written.
ExportsImage ==
    LET c == out[Main] IN
    \A p \in Converters :
        run[p] = "done" =>
            /\ verify(c, FALSE, None, None) => export(c).ok
            /\ export(c).ok /\ c.manifest = ManifestOf(image[p]) => export(c).output = image[p]
            /\ export(c).output # Missing /\ c.map = MapOf(image[p]) => IsPrefix(export(c).output, image[p])

\* What offf-verify accepts, in full, in part or with a key, can be relied on
\* as far as it looked, whatever was damaged; so can what offf-export writes.
ImageVouched == AcceptedRestores /\ SubsetSees /\ KeyPinsImage /\ ExportsImage
=============================================================================
