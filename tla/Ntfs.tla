-------------------------------- MODULE Ntfs --------------------------------
(***************************************************************************)
(* The NTFS indexer: offf-core/src/ntfs.rs.                                *)
(*                                                                         *)
(* A record of the MFT is [dir, attrs], or Unused; `dir` is the flag of a  *)
(* directory, and an attribute is one of                                   *)
(*   [t |-> "name", parent, name, ns, size]     $FILE_NAME                 *)
(*   [t |-> "data", runs, size, allocated]      the unnamed $DATA, in runs *)
(*   [t |-> "resident", size]                   and within the record      *)
(*   [t |-> "stream", name]                     a named $DATA              *)
(*   [t |-> "list", refs]                       $ATTRIBUTE_LIST            *)
(* Times and the other flags are copied as they are, and left out.         *)
(***************************************************************************)
EXTENDS Integers, Sequences, SequencesExt, FiniteSetsExt

CONSTANTS
    Radix,             \* 256: a cell of a run list is a digit in this base
    MAX_ADS_PER_FILE,
    ReservedMft,       \* 11: the last record of the metafiles
    ROOT_MFT,          \* 5
    MaxMft,            \* MAX_MFT_BYTES, 2 GiB: in records
    Unused, NoPath,    \* no FILE record, no path
    NoMft              \* read_mft fails

-----------------------------------------------------------------------------
(* Data runs.  The header of a run is <<len_len, off_len>>, and <<0, 0>>   *)
(* the end; a run is <<lcn, clusters>>, and a sparse one has LCN -1.       *)

Unsigned(digits) ==
    FoldRight(LAMBDA d, acc : d + Radix * acc, digits, 0)

\* The top bit of the last digit is the sign.
Signed(digits) ==
    IF Last(digits) >= Radix \div 2 THEN Unsigned(digits) - Radix ^ Len(digits) ELSE Unsigned(digits)

\* One run at a time; one that does not fit in the buffer ends the list.
parse_data_runs(buf) ==
    LET step(st, n) ==
            IF st.pos > Len(buf) THEN st
            ELSE LET len == buf[st.pos][1]
                     off == buf[st.pos][2]
                     at  == st.pos + 1
                     clusters == Unsigned(SubSeq(buf, at, at + len - 1))
                     lcn == st.lcn + Signed(SubSeq(buf, at + len, at + len + off - 1))
                 IN  IF len = 0 \/ at + len + off > Len(buf) + 1 THEN [st EXCEPT !.pos = Len(buf) + 1]
                     ELSE IF off = 0
                     THEN [st EXCEPT !.pos = at + len, !.runs = Append(@, <<-1, clusters>>)]
                     ELSE [pos |-> at + len + off, lcn |-> lcn,
                           runs |-> Append(st.runs, <<lcn, clusters>>)]
    IN  FoldLeft(step, [pos |-> 1, lcn |-> 0, runs |-> <<>>], buf).runs

-----------------------------------------------------------------------------
(* Records.                                                                *)

OfType(attrs, t) == SelectSeq(attrs, LAMBDA a : a.t = t)

\* Win32, then Win32&DOS, POSIX and DOS; the first of the best ones.
Priority(ns) == CASE ns = 1 -> 0 [] ns = 3 -> 1 [] ns = 0 -> 2 [] ns = 2 -> 3 [] OTHER -> 4

best_file_name(names) ==
    names[CHOOSE n \in DOMAIN names :
             \A k \in DOMAIN names : \/ Priority(names[n].ns) < Priority(names[k].ns)
                                     \/ Priority(names[n].ns) = Priority(names[k].ns) /\ n <= k]

\* A later unnamed $DATA replaces the size of an earlier one, and the runs if
\* it has any; a file of no size takes that of its name.
parse_mft_record(raw) ==
    LET data  == OfType(raw.attrs, "data")
        sizes == SelectSeq(raw.attrs, LAMBDA a : a.t \in {"data", "resident"})
        names == OfType(raw.attrs, "name")
        size  == IF sizes = <<>> THEN 0 ELSE Last(sizes).size
        ads   == OfType(raw.attrs, "stream")
        list  == OfType(raw.attrs, "list")
    IN  [dir   |-> raw.dir,
         names |-> names,
         runs  |-> IF data = <<>> THEN <<>> ELSE Last(data).runs,
         size  |-> IF size = 0 /\ ~raw.dir /\ names # <<>> THEN best_file_name(names).size ELSE size,
         ads   |-> SubSeq(ads, 1, IF Len(ads) < MAX_ADS_PER_FILE THEN Len(ads) ELSE MAX_ADS_PER_FILE),
         list  |-> IF list = <<>> THEN <<>> ELSE Last(list).refs,
         has_attr_list |-> list # <<>>]

\* The clusters of some runs, one after the other; -1 is a hole.
Clusters(runs) ==
    FlattenSeq([n \in DOMAIN runs |->
        [k \in 1 .. runs[n][2] |-> IF runs[n][1] < 0 THEN -1 ELSE runs[n][1] + k - 1]])

\* The MFT of a volume, which gives the clusters that can be read, with a
\* record in each.  The first record, at mft_lcn, has the runs of all of them
\* in its first $DATA that has any; a hole reads as zeros.  One cluster that
\* cannot be read is an error.
read_mft(volume, mft_lcn) ==
    LET rec0 == IF mft_lcn \in DOMAIN volume THEN volume[mft_lcn] ELSE Unused
        data == IF rec0 = Unused THEN <<>> ELSE OfType(rec0.attrs, "data")
        size == Min({data[1].size, data[1].allocated, MaxMft})
        all  == Clusters(data[1].runs)
        at   == SubSeq(all, 1, Min({size, Len(all)}))
    IN  IF data = <<>> THEN NoMft
        ELSE IF data[1].runs = <<>> \/ size = 0 \/ ~(Range(at) \ {-1} \subseteq DOMAIN volume) THEN NoMft
        ELSE [n \in DOMAIN at |-> IF at[n] = -1 THEN Unused ELSE volume[at[n]]]

\* The records that are in use as such, by number (from 0).
record_map(mft) ==
    LET valid == {n \in DOMAIN mft : mft[n] # Unused}
    IN  [n \in {v - 1 : v \in valid} |-> parse_mft_record(mft[n + 1])]

-----------------------------------------------------------------------------
(* Attribute lists.                                                        *)

parse_attr_list_mft_refs(refs, base) ==
    SetToSortSeq({r \in Range(refs) : r # base /\ r > ReservedMft}, <)

\* A stream that is there already, by name, is not added again.
AddStreams(have, new) ==
    FoldLeft(LAMBDA acc, a :
                 IF Len(acc) < MAX_ADS_PER_FILE /\ \A k \in DOMAIN acc : acc[k].name # a.name
                 THEN Append(acc, a) ELSE acc,
             have, new)

AddNames(have, new) ==
    FoldLeft(LAMBDA acc, f :
                 IF \A k \in DOMAIN acc : acc[k].name # f.name \/ acc[k].ns # f.ns
                 THEN Append(acc, f) ELSE acc,
             have, new)

\* The second pass: names and streams of the extension records come to the
\* base record, their data runs do not; and nothing says so any more.  The
\* base records are merged in some order: one may be an extension of another.
Merge(records, base) ==
    LET ext == SelectSeq(parse_attr_list_mft_refs(records[base].list, base),
                         LAMBDA r : r \in DOMAIN records)
        all(field) == FlattenSeq([k \in DOMAIN ext |->
                          IF field = "ads" THEN records[ext[k]].ads ELSE records[ext[k]].names])
    IN  [records EXCEPT ![base].ads   = AddStreams(records[base].ads, all("ads")),
                        ![base].names = AddNames(records[base].names, all("names")),
                        ![base].has_attr_list = FALSE]

MergeAll(records, order) ==
    FoldLeft(Merge, records, SelectSeq(order, LAMBDA r : records[r].list # <<>>))

-----------------------------------------------------------------------------
(* Paths.  A path is the sequence of the names on it.                      *)

\* Mutant: a single pass over the entries.
Passes_single(n) == 1

\* A pass that adds nothing ends the loop: n entries take at most n + 1.
Passes(n) == n + 1

\* build_paths goes over the entries in the order of a hash map.
build_paths(records, order) ==
    LET visit(paths, e) ==
            IF paths[e] # NoPath \/ records[e].names = <<>> THEN paths
            ELSE LET best == best_file_name(records[e].names) IN
                 IF best.parent \notin DOMAIN paths \/ paths[best.parent] = NoPath THEN paths
                 ELSE [paths EXCEPT ![e] = Append(paths[best.parent], best.name)]
        first == [e \in DOMAIN records \cup {ROOT_MFT} |-> IF e = ROOT_MFT THEN <<>> ELSE NoPath]
    IN  FoldLeft(LAMBDA paths, n : FoldLeft(visit, paths, order),
                 first, [n \in 1 .. Passes(Len(order)) |-> n])

\* index_ntfs: the row of each record, for a volume [offset, cluster].  The
\* extents are the bytes of whole clusters, and sparse runs are dropped from
\* them; without a path a file is an orphan, and without a name a number.
index_ntfs(records, order, volume) ==
    LET merged == MergeAll(records, order)
        paths  == build_paths(merged, order)
    IN  [e \in DOMAIN merged |->
            [path    |-> paths[e],
             size    |-> merged[e].size,
             ads     |-> merged[e].ads,
             is_directory |-> merged[e].dir,
             extents |-> LET kept == SelectSeq(merged[e].runs, LAMBDA r : r[1] >= 0)
                         IN  [n \in DOMAIN kept |->
                                 <<volume.offset + kept[n][1] * volume.cluster, kept[n][2] * volume.cluster>>],
             status  |-> IF merged[e].has_attr_list THEN "partial" ELSE "ok"]]
=============================================================================
