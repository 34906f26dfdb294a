----------------------------- MODULE Algorithms -----------------------------
(***************************************************************************)
(* The pure algorithms of offf-core, one question at a time: a question is *)
(* an input of one of them, drawn from a bounded set, and each property    *)
(* compares what the algorithm makes of it with what it is meant to find.  *)
(* Those about the chunks of an image are in ChunkQuestions, those about   *)
(* cycles of the object graph in GraphQuestions.                           *)
(***************************************************************************)
EXTENDS ChunkQuestions, GraphQuestions, Absences, TLC

CONSTANTS
    Blank, No, EmptyList, NoRows,
    MAX_EBR_CHAIN, MAX_ADS_PER_FILE, MaxMft, Radix, Unused, NoPath, NoMft

ReservedMft == 11
ROOT_MFT == 5

Disk == INSTANCE Volume
Mft == INSTANCE Ntfs
Parquet == INSTANCE Tables
Checks == INSTANCE ObjectChecks
Packs == INSTANCE Packed

Orders(S) == SetToSeqs(S)

-----------------------------------------------------------------------------
(* Questions.                                                              *)

Empty == [type |-> 0, lba |-> 0, count |-> 0]
Entry(type, lba, count) == [type |-> type, lba |-> lba, count |-> count]
Sector(kind, entries) ==
    [kind |-> kind, entries |-> [n \in 1 .. 4 |-> IF n <= Len(entries) THEN entries[n] ELSE Empty],
     alt |-> 0, table |-> 0]

GptEntries == <<Entry(7, 3, 1), Empty, Entry(7, 4, 1)>>

\* A GPT disk: protective MBR, header, entries, two partitions, and the
\* second copy of entries and header.
GptDisk ==
    <<Sector("mbr", <<Entry(238, 1, 6)>>),
      [Sector("gpt", <<>>) EXCEPT !.alt = 6, !.table = 2], Sector("array", GptEntries),
      Sector("data", <<>>), Sector("data", <<>>),
      Sector("array", GptEntries), [Sector("gpt", <<>>) EXCEPT !.alt = 1, !.table = 5]>>

\* What may be wrong with a sector: it cannot be read, it was wiped, a header
\* does not fit its checksum, or other entries were written.
Damaged(sector, how) ==
    CASE how = "bad"   -> [sector EXCEPT !.kind = "bad"]
      [] how = "wiped" -> Sector("data", <<>>)
      [] how = "crc"   -> [sector EXCEPT !.kind = IF @ = "gpt" THEN "badgpt" ELSE @]
      [] how = "other" -> [sector EXCEPT !.entries[1] = Entry(7, 1, 1)]

Harm == {"bad", "wiped", "crc", "other"}

Harmed(disk, lba, how) ==
    [n \in DOMAIN disk |-> IF n = lba + 1 THEN Damaged(disk[n], how) ELSE disk[n]]

\* At most two of its sectors are damaged.
AskGpt ==
    \E a, b \in 0 .. 6, h, g \in Harm :
        question' = [kind |-> "gpt", harm |-> {<<a, h>>, <<b, g>>},
                     disk |-> Harmed(Harmed(GptDisk, a, h), b, g)]

\* A disk with a primary partition and an extended one at LBA 2, whose EBRs
\* are the given sectors in that order; one may be unreadable.  Logical
\* partition n is n sectors long.
EbrDisk(chain, bad) ==
    LET link(n) == Sector("mbr", <<Entry(7, 5, n),
                       IF n < Len(chain) THEN Entry(5, chain[n + 1] - 2, 9) ELSE Empty>>)
    IN  [k \in 1 .. 12 |->
            IF k = 1 THEN Sector("mbr", <<Entry(7, 1, 1), Entry(15, 2, 9)>>)
            ELSE IF k - 1 = bad THEN Sector("bad", <<>>)
            ELSE IF \E n \in DOMAIN chain : chain[n] = k - 1
            THEN link(CHOOSE n \in DOMAIN chain : chain[n] = k - 1)
            ELSE Sector("data", <<>>)]

\* The same, with a last EBR that points back at one of them.
EbrLoop(chain, bad, to) ==
    [EbrDisk(chain, bad) EXCEPT ![Last(chain) + 1] =
        Sector("mbr", <<Entry(7, 5, Len(chain)), Entry(5, to - 2, 9)>>)]

Chains == {<<2>>, <<2, 3>>, <<2, 4>>, <<2, 3, 4>>, <<2, 4, 3>>, <<2, 3, 4, 5>>, <<2, 5, 3, 4>>}

AskEbr ==
    \E chain \in Chains, bad \in {0, 3, 4} :
        \/ question' = [kind |-> "ebr", chain |-> chain, loop |-> FALSE, disk |-> EbrDisk(chain, bad)]
        \/ \E to \in Range(chain) :
              question' = [kind |-> "ebr", chain |-> chain, loop |-> TRUE, disk |-> EbrLoop(chain, bad, to)]

\* Run lists as NTFS writes them, which may be cut off.
Digits(v, width) == [k \in 1 .. width |-> (v \div Radix ^ (k - 1)) % Radix]
Encode(runs) ==
    LET piece(n) ==
            LET before == SelectSeq(SubSeq(runs, 1, n - 1), LAMBDA r : r[1] >= 0)
                delta  == runs[n][1] - (IF before = <<>> THEN 0 ELSE Last(before)[1])
                width  == IF delta \in -(Radix \div 2) .. Radix \div 2 - 1 THEN 1 ELSE 2
            IN  IF runs[n][1] < 0 THEN <<<<1, 0>>>> \o Digits(runs[n][2], 1)
                ELSE <<<<1, width>>>> \o Digits(runs[n][2], 1) \o Digits(delta + Radix ^ width, width)
    IN  FlattenSeq([n \in DOMAIN runs |-> piece(n)]) \o <<<<0, 0>>>>

Run == {-1, 0, 1, 3, 6, 7} \X {1, 2}

AskRuns ==
    \E k \in 1 .. 3 : \E runs \in [1 .. k -> Run] : \E n \in 0 .. Len(Encode(runs)) :
        question' = [kind |-> "runs", runs |-> runs, buf |-> SubSeq(Encode(runs), 1, n)]

Name(parent, name, ns) == [t |-> "name", parent |-> parent, name |-> name, ns |-> ns, size |-> 1]
Stream(name) == [t |-> "stream", name |-> name]
Data(runs, size, allocated) == [t |-> "data", runs |-> runs, size |-> size, allocated |-> allocated]
Resident(size) == [t |-> "resident", size |-> size]
List(refs) == [t |-> "list", refs |-> refs]

Entries == {20, 21, 22, 23}

\* Four entries with a parent each: the root, one of them, or one not there.
AskPaths ==
    \E parent \in [Entries -> Entries \cup {ROOT_MFT, 99}], order \in Orders(Entries) :
        question' = [kind |-> "paths", parent |-> parent, order |-> order]

\* A base record with extension records in its attribute list, each of which
\* has streams and may have a name: the short one of the base record or a long
\* one, and in a name space of its own.
AskMerge ==
    \E base, one, two \in {{}, {1}, {1, 2}, {2, 3}} :
        \E long, short \in {<<>>, <<Name(ROOT_MFT, 1, 2)>>, <<Name(ROOT_MFT, 2, 1)>>, <<Name(ROOT_MFT, 1, 3)>>} :
            \E refs \in {<<21, 22>>, <<22, 21, 22>>, <<20, 5, 21>>, <<90>>}, order \in Orders({20, 21, 22}) :
                question' = [kind |-> "merge", have |-> <<base, one, two>>, refs |-> refs, order |-> order,
                             names |-> <<<<Name(ROOT_MFT, 1, 2)>>, long, short>>]

\* The clusters of a small volume have two bytes, and it begins at the second
\* byte of an image of eleven, which is cut into chunks of some size.
SmallVolume == [offset |-> 1, cluster |-> 2]
SmallImage == 11

\* A file or a directory with up to two attributes for its data, of which
\* the first has one to three runs and the second is in the record or has one.
AskFile ==
    \E k \in 1 .. 3, cut \in {1, 2, 3, 5}, dir \in BOOLEAN :
        \E runs \in [1 .. k -> {-1, 0, 3} \X {1, 2}], bytes \in {0, 1, 4, 6} :
            \E data \in {<<Data(runs, bytes, 12)>>, <<Resident(bytes)>>, <<>>, <<Data(runs, bytes, 12), Resident(3)>>,
                         <<Data(runs, bytes, 12), Data(<<<<1, 1>>>>, 2, 2)>>, <<Resident(3), Data(runs, bytes, 12)>>} :
                question' = [kind |-> "file", dir |-> dir, data |-> data, cut |-> cut]

\* An MFT in one to three runs, of which some clusters hold a record and one
\* may not be readable; its first record may have lost its $DATA, have it
\* within the record, or give another size.
MftRuns == {<<<<1, 3>>>>, <<<<3, 2>>, <<1, 1>>>>, <<<<2, 1>>, <<-1, 1>>, <<3, 2>>>>, <<<<4, 1>>, <<-1, 2>>, <<2, 1>>>>}

AskMft ==
    \E runs \in MftRuns, used \in SUBSET (1 .. 4), bad \in 0 .. 4, size, allocated \in {0, 1, 2, 3, 5} :
        \E data \in {<<Data(runs, size, allocated)>>, <<Resident(size)>>, <<Data(<<>>, size, allocated)>>} :
            question' = [kind |-> "mft", lcn |-> runs[1][1], data |-> data, used |-> used, bad |-> bad]

\* Two rows, one without a value in one of the columns that allow it; and
\* the same in a file that misses some columns.
TableRow(table, n, null) ==
    [c \in DOMAIN table |-> IF c = "sequence" THEN n
                            ELSE IF n = 2 /\ c = null THEN None ELSE <<n, c>>]

AskTable ==
    \E table \in Parquet!Tables : \E null \in {c \in DOMAIN table : table[c] # "must"} \cup {None} :
        \E a, b \in DOMAIN table \cup {None} :
            question' = [kind |-> "table", table |-> table, missing |-> {a, b} \ {None},
                         rows |-> <<TableRow(table, 1, null), TableRow(table, 2, null)>>]

\* Rows that are written in batches, some of them empty, and read in others.
AskBatches ==
    \E table \in Parquet!Tables, k \in 0 .. 3, size \in 0 .. 3 : \E lens \in [1 .. k -> 0 .. 2] :
        question' = [kind |-> "batches", table |-> table, size |-> size,
                     batches |-> [n \in 1 .. k |-> [i \in 1 .. lens[n] |-> TableRow(table, 2 * n + i, None)]]]

\* A container with a volume, a file of it and an object derived from the
\* file, whose hashes may have been deferred.
ObjectsOf(deferred) ==
    [index |-> <<[id |-> 1, type |-> "volume", sha |-> None, ref |-> None, storage_ref |-> None],
                 [id |-> 2, type |-> "filesystem_file", sha |-> IF deferred THEN None ELSE "x",
                  ref |-> <<"file", 7>>, storage_ref |-> None],
                 [id |-> 3, type |-> "derived", sha |-> "y", ref |-> <<"store", "y">>, storage_ref |-> "y"]>>,
     edges |-> <<[parent |-> 1, child |-> 2, type |-> "contains"],
                 [parent |-> 2, child |-> 3, type |-> "derived_from"]>>,
     derivations |-> <<[parent |-> 2, child |-> 3, input |-> "x", output |-> "y"]>>,
     files |-> (7 :> "x"), store |-> ("y" :> "y")]

Without(map, key) == [k \in DOMAIN map \ {key} |-> map[k]]

\* What may become of it when one thing goes wrong.
Worse(o) ==
    {o} \cup {[o EXCEPT ![t] = bad] : t \in {"index", "edges", "derivations"}, bad \in {Missing, Garbled}}
        \cup UNION {{[o EXCEPT ![t] = RemoveAt(@, n)] : n \in DOMAIN Checks!Rows(o[t])} :
                       t \in {"index", "edges", "derivations"}}
        \cup {[o EXCEPT !.index[n].sha = "z"] : n \in DOMAIN Checks!Rows(o.index)}
        \cup {[o EXCEPT !.index[n].ref = None] : n \in DOMAIN Checks!Rows(o.index)}
        \cup {[o EXCEPT !.index[n].storage_ref = "y"] : n \in DOMAIN Checks!Rows(o.index)}
        \cup {[o EXCEPT !.edges[n].type = "other"] : n \in DOMAIN Checks!Rows(o.edges)}
        \cup {[o EXCEPT !.files = Without(@, 7)], [o EXCEPT !.files[7] = "z"],
              [o EXCEPT !.store = Without(@, "y")], [o EXCEPT !.store["y"] = "z"]}

AskObjects ==
    \E deferred \in BOOLEAN : \E one \in Worse(ObjectsOf(deferred)) : \E two \in Worse(one) : \E three \in Worse(two) :
        question' = [kind |-> "objects", was |-> ObjectsOf(deferred), is |-> three]

Path(name, sep, dots) == [name |-> name, sep |-> sep, dots |-> dots]

\* What a file may hold, one of them is itself a packed file; or an empty
\* directory.
Contents == {<<>>, <<Packs!Num(1), Packs!Num(2)>>, Packs!pack_directory(Path("a", "/", FALSE) :> <<Packs!Num(1)>>, <<Path("a", "/", FALSE)>>), Packs!Folder}

\* One or two files, of which unpacking may refuse a name, give it a slash for
\* its backslash, or take both for the same; then a cell of the packed file is changed, or its end is cut off, or both.
AskPacked ==
    \E paths \in {<<Path("a", "/", FALSE), Path("b", "/", FALSE)>>, <<Path("a", "/", FALSE), Path("a", "\\", FALSE)>>,
                  <<Path("a", "/", TRUE), Path("b", "/", FALSE)>>, <<Path("a", "\\", FALSE)>>,
                  <<Path("a", "/", FALSE), Path("b", "\\", FALSE)>>} :
        \E files \in [Range(paths) -> Contents] : \E packed \in {Packs!pack_directory(files, paths)} :
            \E hit \in 0 .. Len(packed), cut \in 0 .. Len(packed), to \in {Packs!Num(0), Packs!Num(3), Packs!FOOTER_MAGIC} :
                question' = [kind |-> "packed", paths |-> paths, files |-> files,
                             file |-> [n \in 1 .. Len(packed) - cut |-> IF n = hit THEN to ELSE packed[n]],
                             sound |-> cut = 0 /\ hit = 0]

Ask ==
    \/ AskChunks \/ AskGraphs
    \/ AskGpt \/ AskEbr
    \/ AskRuns \/ AskPaths \/ AskMerge \/ AskFile \/ AskMft
    \/ AskObjects
    \/ AskTable \/ AskBatches \/ AskPacked

Nothing == [kind |-> Nobody]

Init == question = Nothing

\* The answer is a function of the question, and the next one is asked.
Next ==
    \/ question = Nothing /\ Ask
    \/ question # Nothing /\ question' = Nothing

Spec == Init /\ [][Next]_question

-----------------------------------------------------------------------------
(* Properties.                                                             *)

\* The partitions of a GPT disk survive the loss of any one sector but the
\* first two, and of a header that only fails its checksum; a GPT that is
\* listed is the true one unless other entries were written.
GptSurvives ==
    question.kind = "gpt" =>
        LET found == Disk!detect_and_parse(question.disk)
            truth == Disk!detect_and_parse(GptDisk)
            harm  == question.harm
            small == (((2 .. 6) \X Harm) \ {<<2, "other">>, <<2, "wiped">>}) \cup {<<1, "crc">>}
        IN  /\ \A h \in small : harm = {h} => found = truth
            /\ found.type = "gpt" /\ found # truth => \E h \in harm : h[1] \in {2, 5} /\ h[2] \in {"other", "wiped"}

\* The logical partitions are listed in the order of the chain, wherever its
\* links lie on the disk: all of them, or those before a link that cannot be
\* read; and a chain that runs in a circle ends.
EbrListsAll ==
    question.kind = "ebr" =>
        LET q      == question
            logical == Tail(Disk!detect_and_parse(q.disk).parts)
            want   == [n \in DOMAIN q.chain |-> Disk!Part(q.chain[n] + 5, n)]
            broken == \E n \in DOMAIN q.chain : ~Disk!Readable(q.disk, q.chain[n])
        IN  /\ Len(logical) <= MAX_EBR_CHAIN
            /\ ~q.loop => IsPrefix(logical, want)
            /\ ~q.loop /\ ~broken => Len(logical) = Min({Len(want), MAX_EBR_CHAIN})
            /\ q.loop /\ ~broken => Len(logical) = MAX_EBR_CHAIN

\* A run list gives back the runs it was written for, forwards and backwards
\* on the disk and with holes; one that was cut off gives the first of them.
RunsRoundTrip ==
    question.kind = "runs" =>
        LET runs == Mft!parse_data_runs(question.buf) IN
        /\ IsPrefix(runs, question.runs)
        /\ Len(question.buf) >= Len(Encode(question.runs)) - 1 => runs = question.runs

Record(attrs) == Mft!parse_mft_record([dir |-> FALSE, attrs |-> attrs])

\* A file has a path exactly if its parents lead to the root, and it is the
\* path of them; in whatever order a hash map gives the entries.
PathsMatch ==
    question.kind = "paths" =>
        LET q == question
            paths == Mft!build_paths([e \in Entries |-> Record(<<Name(q.parent[e], e, 1)>>)], q.order)
            up[n \in 0 .. 4] == [e \in Entries |-> IF n = 0 THEN e
                                   ELSE IF up[n - 1][e] \in Entries THEN q.parent[up[n - 1][e]] ELSE up[n - 1][e]]
        IN  \A e \in Entries :
                IF up[4][e] = ROOT_MFT
                THEN paths[e] = (IF q.parent[e] = ROOT_MFT THEN <<e>> ELSE Append(paths[q.parent[e]], e))
                ELSE paths[e] = NoPath

\* The row of a file lists the streams of its base record and of each of its
\* extension records, every one once, up to MAX_ADS_PER_FILE; their names come
\* together in the same way, and the best of them all is the one in its path.
AttrListMerges ==
    question.kind = "merge" =>
        LET q == question
            attrs(n) == LET s == SetToSortSeq(q.have[n], <) IN
                        q.names[n] \o [k \in DOMAIN s |-> Stream(s[k])]
            records == [e \in {20, 21, 22} |->
                           Record(IF e = 20 THEN Append(attrs(1), List(q.refs)) ELSE attrs(e - 19))]
            rows  == Mft!index_ntfs(records, q.order, SmallVolume)
            ads   == rows[20].ads
            parts == {1} \cup {e - 19 : e \in Range(q.refs) \cap {21, 22}}
            all   == UNION {q.have[n] : n \in parts}
            named == UNION {Range(q.names[n]) : n \in parts}
            names == Mft!MergeAll(records, q.order)[20].names
        IN  /\ \A a, b \in DOMAIN ads : ads[a].name = ads[b].name => a = b
            /\ {ads[a].name : a \in DOMAIN ads} \subseteq all
            /\ Len(ads) = Min({Cardinality(all), MAX_ADS_PER_FILE})
            /\ Range(names) = named /\ Len(names) = Cardinality(named)
            /\ rows[20].path = <<IF \E n \in named : n.ns = 1 THEN 2 ELSE 1>>
            /\ \A e \in {21, 22} : rows[e].ads = records[e].ads

\* What the extents of a file give is the clusters of its runs, whole and in
\* their order, however these lie in the chunks.  Without holes it begins with
\* the bytes of the file, and the rest of the last cluster follows; holes are
\* left out, so of a sparse file something else is read; and of a file within
\* its record nothing.  The size is that of the last $DATA, or of the name.
FilesRebuilt ==
    question.kind = "file" =>
        LET q == question
            raw == [dir |-> q.dir, attrs |-> <<Name(ROOT_MFT, 20, 1)>> \o q.data]
            row == Mft!index_ntfs([e \in {20} |-> Mft!parse_mft_record(raw)], <<20>>, SmallVolume)[20]
            image == [n \in 1 .. (SmallImage + q.cut - 1) \div q.cut |->
                        [off |-> (n - 1) * q.cut, good |-> TRUE,
                         data |-> [i \in 1 .. Min({q.cut, SmallImage - (n - 1) * q.cut}) |-> Byte((n - 1) * q.cut + i - 1)]]]
            read  == reconstruct_from_extents(image, row.extents)
            given == {n \in DOMAIN q.data : q.data[n].t = "data"}
            runs  == SelectSeq(IF given = {} THEN <<>> ELSE q.data[Max(given)].runs, LAMBDA r : r[1] >= 0)
            \* Byte i, counted from 0, of the clusters of the runs.
            before(n) == FoldLeft(LAMBDA sum, r : sum + r[2], 0, SubSeq(runs, 1, n - 1))
            byte(i) == LET n == CHOOSE k \in DOMAIN runs : before(k) <= i \div 2 /\ i \div 2 < before(k + 1)
                       IN  Byte(1 + 2 * runs[n][1] + (i - 2 * before(n)))
        IN  /\ Len(read) = 2 * before(Len(runs) + 1)
            /\ \A i \in DOMAIN read : read[i] = byte(i - 1)
            /\ row.size = IF q.data # <<>> /\ (q.dir \/ Last(q.data).size > 0) THEN Last(q.data).size
                          ELSE IF q.dir THEN 0 ELSE 1

\* A record of the MFT keeps its number, wherever its fragment lies and
\* whatever holes are before it; and where a cluster cannot be read there is
\* no index at all, never one that misses its records or shifts the others.
RecordsNumbered ==
    question.kind = "mft" =>
        LET q   == question
            raw(c) == IF c \notin q.used THEN Unused
                      ELSE [dir |-> FALSE,
                            attrs |-> <<Name(ROOT_MFT, c, 1)>> \o (IF c = q.lcn THEN q.data ELSE <<>>)]
            mft  == Mft!read_mft([c \in (1 .. 4) \ {q.bad} |-> raw(c)], q.lcn)
            rows == Mft!record_map(mft)
            head == q.data[1]
            size == Min({head.size, head.allocated, MaxMft})
            before(n) == FoldLeft(LAMBDA sum, r : sum + r[2], 0, SubSeq(head.runs, 1, n - 1))
            \* Cluster c holds record e.
            holds(c, e) == /\ e < size
                           /\ \E n \in DOMAIN head.runs : /\ head.runs[n][1] > 0 /\ c >= head.runs[n][1]
                                                            /\ c < head.runs[n][1] + head.runs[n][2]
                                                            /\ e = before(n) + c - head.runs[n][1]
        IN  /\ mft # NoMft =>
                  /\ q.lcn \in q.used \ {q.bad} /\ head.t = "data"
                  /\ \A e \in 0 .. 5, c \in 1 .. 4 : holds(c, e) =>
                        /\ c # q.bad
                        /\ e \in DOMAIN rows <=> c \in q.used
                        /\ c \in q.used => rows[e].names[1].name = c
                  /\ \A e \in DOMAIN rows : \E c \in q.used : holds(c, e)
            /\ q.bad = 0 /\ q.lcn \in q.used /\ head.t = "data" =>
                  (mft = NoMft <=> head.runs = <<>> \/ size = 0)

\* The columns that came with case roots and collections.
RootColumns == {"root_id", "parent_root_id", "child_root_id", "collection_relative_path",
                "original_created_at", "original_modified_at", "original_accessed_at"}

\* What a reader asks for, which of the Merkle leaves is not the chunk id.
Told(table, rows) == [n \in DOMAIN rows |-> [c \in DOMAIN Parquet!Reader(table) |-> rows[n][c]]]

\* What is written is read back, with a null as a null, as far as it is asked
\* for.  A table from before there were case roots can be read, and rewriting
\* it (as a merge does) changes none of its values.
TablesReadBack ==
    question.kind = "table" =>
        LET q    == question
            file == Parquet!Write(q.table, q.rows)
            left == DOMAIN q.table \ q.missing
            old  == Parquet!Read(Parquet!Reader(q.table), [columns |-> left,
                                     rows |-> [n \in 1 .. 2 |-> [c \in left |-> file.rows[n][c]]]])
            whole == Parquet!Reader(q.table) = q.table
        IN  /\ Parquet!Read(Parquet!Reader(q.table), file) = Told(q.table, q.rows)
            /\ q.missing \subseteq RootColumns \/ (~whole /\ q.missing \subseteq {"chunk_id"}) => old # NoRows
            /\ old # NoRows =>
                  /\ whole => Parquet!Read(q.table, Parquet!Write(q.table, old)) = old
                  /\ \A n \in 1 .. 2 : \A c \in DOMAIN Parquet!Reader(q.table) \cap left : old[n][c] = q.rows[n][c]

\* However rows are cut into batches when they are written and when they are
\* read, the same rows come back in the same order.
BatchesWhole ==
    question.kind = "batches" =>
        LET q    == question
            file == Parquet!WriteBatches(q.table, q.batches)
            reader == Parquet!Reader(q.table)
            rows == Told(q.table, FlattenSeq(q.batches))
        IN  /\ FlattenSeq(Parquet!Batches(reader, file, q.size)) = rows
            /\ q.table \in {Parquet!PhysicalToChunk, Parquet!LeavesTable} =>
                  Parquet!ReadSorted(reader, [file EXCEPT !.rows = Reverse(@)]) = rows

\* A file that was packed and can be unpacked gives back the files of the
\* directory, each under its path if that has no backslash: one comes back as
\* a slash, and of two files that differ in it only one comes back.  Empty
\* directories do not come back.  (docs/packed-container.md:79-80 and 102
\* promise unmodified paths and all directories.)  Damage makes unpacking
\* stop, and then what it has written so far is right.  A file with ".." in
\* its name can be packed, and stops the unpacking of those after it.
PackedReadsBack ==
    question.kind = "packed" =>
        LET q == question
            got == Packs!unpack_to_directory(q.file)
            packed == {x \in Range(q.paths) : q.files[x] # Packs!Folder}
            alone(x) == \A y \in packed : Packs!Portable(y) = Packs!Portable(x) => y = x
            dots == \E x \in packed : x.dots
        IN  /\ q.sound => got.ok = ~dots
            /\ got.ok => ~dots /\ DOMAIN got.files = {Packs!Portable(x) : x \in packed}
            /\ got.ok => \A x \in packed : alone(x) =>
                  got.files[[x EXCEPT !.sep = "/"]] = q.files[x]
            /\ \A x \in DOMAIN got.files : \E y \in packed :
                  Packs!Portable(y) = x /\ got.files[x] = q.files[y]

\* Objects that pass both checks of offf-verify can be trusted whatever was
\* damaged: all tables were read, an object that has a hash has it still, and
\* what a derivation was made from is what it names, unless its hash was
\* deferred; and a file is read through its file system, of which an object
\* contains it.  (One check alone takes an unreadable table for an empty one,
\* the other a missing one.)  What is undamaged passes.
ObjectsVouched ==
    question.kind = "objects" =>
        LET o == question.is
            passes(x) == Checks!verify_objects_profile(x) /\ Checks!verify_object_lineage(x)
        IN  /\ passes(question.was)
            /\ passes(o) =>
                  /\ {o.index, o.edges, o.derivations} \cap {Missing, Garbled} = {}
                  /\ \A r \in Range(o.index) :
                        r.sha # None => Checks!read_object_verified(o, r.id) = <<r.sha>>
                  /\ \A d \in Range(o.derivations) : \A r \in Range(o.index) :
                        /\ r.id = d.parent /\ r.sha # None => Checks!ContentOf(o, r) = <<d.input>>
                        /\ r.id = d.child => Checks!ContentOf(o, r) = <<d.output>>
                  /\ \A r \in Range(o.index) : r.type = "filesystem_file" =>
                        /\ \E n \in DOMAIN o.files : Checks!read_object_verified(o, r.id) = <<o.files[n]>>
                        /\ \E e \in Range(o.edges), v \in Range(o.index) :
                              e.type = "contains" /\ e.child = r.id /\ e.parent = v.id /\ v # r

-----------------------------------------------------------------------------
(* What each part of offf-core is relied on for.                           *)

\* partition.rs: partitions are found in spite of sectors that cannot be read
\* and of tables that contradict themselves, and no others are.
PartitionsFound == GptSurvives /\ EbrListsAll

\* ntfs.rs: the row of a file has its runs, number, path and streams, from
\* whichever records and in whatever order they come; and its extents are the
\* whole clusters of its runs, which are the file only where it has no holes,
\* is not kept within its record and fills its last cluster.  The docs say
\* more: that the bytes of the file are read from them, and verified
\* (docs/object-content-ref.md:29, docs/filesystem-to-object-graph.md:61).
FilesIndexed == RunsRoundTrip /\ RecordsNumbered /\ AttrListMerges /\ PathsMatch /\ FilesRebuilt

\* parquet_io.rs, packed.rs and offf-verify: tables, and the files of a packed
\* container but for backslashes in their names, are read as they were written,
\* by this version or an earlier one, at once or in parts; and of objects that
\* may be damaged, those that pass the checks are.
WrittenReadsBack == TablesReadBack /\ BatchesWhole /\ PackedReadsBack /\ ObjectsVouched
=============================================================================
