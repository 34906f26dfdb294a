---------------------------- MODULE ObjectIndex ----------------------------
(***************************************************************************)
(* offf-index (offf-index/src/main.rs): the commands that derive the       *)
(* indexes of a container, one run at a time, while jobs go on writing     *)
(* their deltas.                                                           *)
(*                                                                         *)
(*   filesystem, full                the file indexes                      *)
(*   objects                         merge of the deltas of all jobs       *)
(*   objects --from-filesystem       rebuild from the file indexes         *)
(*   objects --from-events           replay of object_events.jsonl         *)
(*                                                                         *)
(* Every file is rewritten in place, so a run that stops leaves a file     *)
(* torn, and the files of one index out of step.  Kind 1 is the object     *)
(* index; the others hold what belongs to an object: edges, derivations.   *)
(* A row is its id and where it came from, and the edge (derivation) of an *)
(* object has the id of the object.  The image never changes, and neither  *)
(* does what the NTFS indexer finds in it.                                 *)
(***************************************************************************)
EXTENDS Integers, Sequences

CONSTANTS
    NJobs,        \* jobs are numbered in the order of their directory names
    NFilesystems, \* and filesystems in that of theirs
    NKinds,       \* files of an object index
    Ids,          \* object ids
    Finds,        \* Finds[j]: the rows of the deltas of job j
    Holds,        \* Holds[f]: the files in file system f
    Logs,         \* contents object_events.jsonl may have
    MaxRuns,      \* bound: runs of offf-index
    NoFile, Torn, Partial, Whole,  \* states of a file
    Absent, NoLog, NoBasis,
    Deferred, Eager,        \* --hash-content
    FromFiles, FromEvents   \* where a row that no job wrote came from

Jobs == 1 .. NJobs
Filesystems == 1 .. NFilesystems
Kinds == 1 .. NKinds

HashModes == {Deferred, Eager}

\* Where a row came from: a job, the file indexes, the event log.
Sources == Jobs \cup HashModes \cup {FromFiles, FromEvents}

Rows == [Ids -> Sources \cup {Absent}]

IdsOf(rows) == {i \in Ids : rows[i] # Absent}

NoRows == [i \in Ids |-> Absent]

Files == Rows \cup {NoFile, Torn}

Event == [type : {"put", "removed", "ignored", "bad"}, id : Ids]

ASSUME IndexAssumption ==
    /\ NJobs \in Nat /\ NFilesystems \in Nat /\ NKinds \in Nat \ {0} /\ MaxRuns \in Nat
    /\ Finds \in [Jobs -> SUBSET Ids] /\ Holds \in [Filesystems -> SUBSET Ids]
    /\ NoBasis \notin [ids : SUBSET Ids, hash : HashModes]
    /\ NoLog \notin Logs /\ Logs \subseteq Seq(Event)
    /\ Deferred # Eager /\ HashModes \cap Jobs = {} /\ Absent \notin Sources /\ NoFile # Torn /\ {NoFile, Torn} \cap Rows = {}
    /\ Partial \notin {NoFile, Torn, Whole} /\ Whole \notin {NoFile, Torn}

VARIABLES
    delta,      \* analysis/jobs/<job>/*_delta.jsonl
    log,        \* indexes/objects/object_events.jsonl
    fileIndex,  \* indexes/filesystems/<f>/file_index.parquet
    jsonl,      \* indexes/objects/*.jsonl
    parquet,    \* indexes/objects/*.parquet
    run,        \* the command line
    pc,         \* and where its process is:
    item, kind, \*   job or file system, and kind, at hand
    map,        \*   the rows gathered so far
    runs,       \* bounded by MaxRuns
    begun,      \* history: the deltas that were whole when the run began
    kept,       \* history: the ids in an index file then or, if it is torn, before
    replayed,   \* history: a replay wrote objects, and no rebuild ended since
    basis       \* history: what the last rebuild rendered

dvars == <<delta, log>>
fvars == <<fileIndex, jsonl, parquet>>
rvars == <<run, runs, begun, kept>>
vars == <<delta, log, fileIndex, jsonl, parquet, run, pc, item, kind, map, runs,
          begun, kept, replayed, basis>>

Ops == {"filesystem", "full", "objects", "rebuild", "replay"}

Runs == [op : Ops, force : BOOLEAN, hash : HashModes]

Ended == {"done", "skipped", "refused", "failed"}

Pcs == Ended \cup {"table", "scan", "scanFill", "deltas", "existing", "collect", "compare",
                   "replay", "jsonl", "jsonlFill", "parquet", "parquetFill", "record"}

TypeOK ==
    /\ delta \in [Jobs -> [Kinds -> {NoFile, Partial, Torn, Whole}]]
    /\ log \in Logs \cup {NoLog}
    /\ fileIndex \in [Filesystems -> {NoFile, Torn, Whole}]
    /\ jsonl \in [Kinds -> Files] /\ parquet \in [Kinds -> Files]
    /\ run \in Runs /\ pc \in Pcs /\ item \in Nat /\ kind \in Kinds
    /\ pc = "deltas" => item \in Jobs
    /\ pc \in {"scan", "scanFill"} => item \in Filesystems
    /\ map \in [Kinds -> Rows]
    /\ runs \in 0 .. MaxRuns
    /\ begun \subseteq Jobs \X Kinds /\ kept \in [Kinds -> SUBSET Ids]
    /\ replayed \in BOOLEAN
    /\ basis \in [ids : SUBSET Ids, hash : HashModes] \cup {NoBasis}

Init ==
    /\ delta = [j \in Jobs |-> [k \in Kinds |-> NoFile]]
    /\ log \in Logs \cup {NoLog}
    /\ fileIndex = [f \in Filesystems |-> NoFile]
    /\ jsonl = [k \in Kinds |-> NoFile] /\ parquet = [k \in Kinds |-> NoFile]
    /\ run = [op |-> "full", force |-> FALSE, hash |-> Deferred]
    /\ pc = "done" /\ item = 1 /\ kind = 1
    /\ map = [k \in Kinds |-> NoRows]
    /\ runs = 0 /\ begun = {} /\ kept = [k \in Kinds |-> {}]
    /\ replayed = FALSE /\ basis = NoBasis

\* The memory of the process ends with it.
Exit(how) ==
    /\ pc' = how
    /\ item' = 1 /\ kind' = 1 /\ map' = [k \in Kinds |-> NoRows]

-----------------------------------------------------------------------------
(* The jobs.  A job writes its objects first, and then what belongs to     *)
(* them; a file that is being written may end at a line, or inside one.    *)

CreateDelta(j, k) ==
    /\ delta[j][k] = NoFile
    /\ \A l \in 1 .. k - 1 : delta[j][l] = Whole
    /\ delta' = [delta EXCEPT ![j][k] = Partial]
    /\ UNCHANGED <<log, fvars, rvars, pc, item, kind, map, replayed, basis>>

WriteDelta(j, k) ==
    /\ delta[j][k] \in {Partial, Torn}
    /\ \E c \in {Torn, Whole} \ {delta[j][k]} : delta' = [delta EXCEPT ![j][k] = c]
    /\ UNCHANGED <<log, fvars, rvars, pc, item, kind, map, replayed, basis>>

-----------------------------------------------------------------------------
(* The commands.                                                           *)

FirstStep(op) ==
    CASE op = "full"       -> "table"
      [] op = "filesystem" -> "scan"
      [] op = "objects"    -> IF Jobs = {} THEN "existing" ELSE "deltas"
      [] op = "rebuild"    -> "collect"
      [] op = "replay"     -> "replay"

\* One of the commands is run.  cmd_objects returns at once when the three
\* Parquet files exist and the caller asked to skip then; that they can be
\* read is not looked at.  A filesystem run picks its partition.
Start ==
    /\ pc \in Ended
    /\ runs < MaxRuns
    /\ \E r \in Runs :
          /\ r.force \/ r.hash = Eager => r.op \in {"full", "rebuild"}
          /\ run' = r
          /\ \/ pc' = FirstStep(r.op)
             \/ /\ r.op \notin {"full", "filesystem"} /\ \A k \in Kinds : parquet[k] # NoFile
                /\ pc' = "skipped"
          /\ item' \in IF r.op = "filesystem" THEN Filesystems ELSE {1}
          /\ begun' = IF r.op = "objects" THEN {jk \in Jobs \X Kinds : delta[jk[1]][jk[2]] = Whole}
                      ELSE {}
    /\ kept' = [k \in Kinds |-> IF parquet[k] \in Rows THEN IdsOf(parquet[k]) ELSE kept[k]]
    /\ runs' = runs + 1
    /\ kind' = 1
    /\ map' = [k \in Kinds |-> NoRows]
    /\ UNCHANGED <<dvars, fvars, replayed, basis>>

\* cmd_partitions, whose table says what detection and parsing give.  Of its
\* readers cmd_full comes right after it, and resolve_partition does without
\* a table that cannot be read: what is in the file makes no difference.
WriteTable ==
    /\ pc = "table"
    /\ pc' = IF Filesystems = {} THEN "collect" ELSE "scan"
    /\ UNCHANGED <<dvars, fvars, rvars, item, kind, map, replayed, basis>>

\* What follows the file system at hand: `full` goes on to the next.
AfterScan ==
    IF run.op = "full" /\ item < NFilesystems
    THEN pc' = "scan" /\ item' = item + 1
    ELSE pc' = (IF run.op = "full" THEN "collect" ELSE "done") /\ item' = 1

\* cmd_filesystem: index_ntfs, and its rows are written.
CreateFileIndex ==
    /\ pc = "scan"
    /\ fileIndex' = [fileIndex EXCEPT ![item] = Torn]
    /\ pc' = "scanFill"
    /\ UNCHANGED <<dvars, jsonl, parquet, rvars, item, kind, map, replayed, basis>>

FillFileIndex ==
    /\ pc = "scanFill"
    /\ fileIndex' = [fileIndex EXCEPT ![item] = Whole]
    /\ AfterScan
    /\ UNCHANGED <<dvars, jsonl, parquet, rvars, kind, map, replayed, basis>>

\* cmd_full only warns of a file system that cannot be indexed.
ScanFails ==
    /\ pc \in {"scan", "scanFill"}
    /\ run.op = "full"
    /\ AfterScan
    /\ UNCHANGED <<dvars, fvars, rvars, kind, map, replayed, basis>>

-----------------------------------------------------------------------------
(* objects: the merge.                                                     *)

\* map.entry(id).or_insert(row): what is there stays.
OrInsert(m, rows) == [i \in Ids |-> IF m[i] = Absent THEN rows[i] ELSE m[i]]

RowsFrom(src, ids) == [i \in Ids |-> IF i \in ids THEN src ELSE Absent]

\* The rows of a delta as they are read at this moment; a file that ends at a
\* line gives a part of them, one that ends inside a line gives none.
Readable(j, k) ==
    CASE delta[j][k] = NoFile  -> {{}}
      [] delta[j][k] = Whole   -> {Finds[j]}
      [] delta[j][k] = Partial -> SUBSET Finds[j]
      [] delta[j][k] = Torn    -> {}

NextDelta ==
    IF kind < NKinds
    THEN kind' = kind + 1 /\ UNCHANGED <<item, pc>>
    ELSE /\ kind' = 1
         /\ IF item < NJobs THEN item' = item + 1 /\ pc' = "deltas"
                            ELSE item' = 1 /\ pc' = "existing"

\* Mutant: HashMap::insert, so that the last job in name order wins.
ReadDelta_insert ==
    /\ pc = "deltas"
    /\ \E ids \in Readable(item, kind) :
          map' = [map EXCEPT ![kind] = OrInsert(RowsFrom(item, ids), map[kind])]
    /\ NextDelta
    /\ UNCHANGED <<dvars, fvars, rvars, replayed, basis>>

ReadDelta ==
    /\ pc = "deltas"
    /\ \E ids \in Readable(item, kind) :
          map' = [map EXCEPT ![kind] = OrInsert(map[kind], RowsFrom(item, ids))]
    /\ NextDelta
    /\ UNCHANGED <<dvars, fvars, rvars, replayed, basis>>

\* A delta or an index that cannot be read ends the run.
Unreadable ==
    /\ \/ pc = "deltas" /\ Readable(item, kind) = {}
       \/ pc = "existing" /\ \E k \in Kinds : parquet[k] = Torn
    /\ Exit("failed")
    /\ UNCHANGED <<dvars, fvars, rvars, replayed, basis>>

\* Mutant: an index that exists counts only where the deltas have no rows.
MergeExisting_fallback ==
    /\ pc = "existing"
    /\ \A k \in Kinds : parquet[k] # Torn
    /\ map' = [k \in Kinds |->
                 IF parquet[k] = NoFile \/ IdsOf(map[k]) # {} THEN map[k] ELSE OrInsert(map[k], parquet[k])]
    /\ pc' = "parquet"
    /\ UNCHANGED <<dvars, fvars, rvars, item, kind, replayed, basis>>

\* Mutant: the objects are taken from the deltas alone.
MergeExisting_edges ==
    /\ pc = "existing"
    /\ \A k \in Kinds : parquet[k] # Torn
    /\ map' = [k \in Kinds |->
                 IF k = 1 \/ parquet[k] = NoFile THEN map[k] ELSE OrInsert(map[k], parquet[k])]
    /\ pc' = "parquet"
    /\ UNCHANGED <<dvars, fvars, rvars, item, kind, replayed, basis>>

\* The rows that are indexed already come last.  They are read at once, or in
\* batches that insert the same way (merge_object_index_streaming).
MergeExisting ==
    /\ pc = "existing"
    /\ \A k \in Kinds : parquet[k] # Torn
    /\ map' = [k \in Kinds |->
                 IF parquet[k] = NoFile THEN map[k] ELSE OrInsert(map[k], parquet[k])]
    /\ pc' = "parquet"
    /\ UNCHANGED <<dvars, fvars, rvars, item, kind, replayed, basis>>

-----------------------------------------------------------------------------
(* objects --from-filesystem, and the end of `full`.                       *)

Indexed == {f \in Filesystems : fileIndex[f] = Whole}

\* Ids of objects, edges and derivations are hashes of what they stand for,
\* and times are that of the manifest: a rendering depends on the files and,
\* but for the edges, on the mode, which the rows and parameters_hash name.
Render(ids, hash, k) == RowsFrom(IF k = 2 THEN FromFiles ELSE hash, ids)

FoundIds == UNION {Holds[f] : f \in Indexed}

\* Mutant: the rows are added to those of the index.
Collect_onto ==
    /\ pc = "collect"
    /\ Indexed # {} /\ \A f \in Filesystems : fileIndex[f] # Torn
    /\ map' = [k \in Kinds |->
                 OrInsert(Render(FoundIds, run.hash, k),
                          IF parquet[k] \in Rows THEN parquet[k] ELSE NoRows)]
    /\ pc' = IF run.force THEN "jsonl" ELSE "compare"
    /\ UNCHANGED <<dvars, fvars, rvars, item, kind, replayed, basis>>

Collect ==
    /\ pc = "collect"
    /\ Indexed # {} /\ \A f \in Filesystems : fileIndex[f] # Torn
    /\ map' = [k \in Kinds |-> Render(FoundIds, run.hash, k)]
    /\ pc' = IF run.force THEN "jsonl" ELSE "compare"
    /\ UNCHANGED <<dvars, fvars, rvars, item, kind, replayed, basis>>

\* No file system was indexed, an index is torn, or (eager) a file cannot be
\* read from the image.
CollectFails ==
    /\ pc = "collect"
    /\ \/ Indexed = {}
       \/ \E f \in Filesystems : fileIndex[f] = Torn
       \/ run.hash = Eager
    /\ Exit("failed")
    /\ UNCHANGED <<dvars, fvars, rvars, replayed, basis>>

\* assert_safe_rewrite, which looks at the JSON files and not at the Parquet.
SafeRewrite == \A k \in Kinds : jsonl[k] \in {NoFile, map[k]}

CompareJsonl ==
    /\ pc = "compare"
    /\ IF SafeRewrite THEN pc' = "jsonl" /\ UNCHANGED <<item, kind, map>> ELSE Exit("refused")
    /\ UNCHANGED <<dvars, fvars, rvars, replayed, basis>>

CreateJsonl ==
    /\ pc = "jsonl"
    /\ jsonl' = [jsonl EXCEPT ![kind] = Torn]
    /\ pc' = "jsonlFill"
    /\ basis' = NoBasis
    /\ UNCHANGED <<dvars, fileIndex, parquet, rvars, item, kind, map, replayed>>

FillJsonl ==
    /\ pc = "jsonlFill"
    /\ jsonl' = [jsonl EXCEPT ![kind] = map[kind]]
    /\ IF kind < NKinds
       THEN kind' = kind + 1 /\ pc' = "jsonl" /\ UNCHANGED basis
       ELSE kind' = 1 /\ pc' = "parquet" /\ basis' = [ids |-> FoundIds, hash |-> run.hash]
    /\ UNCHANGED <<dvars, fileIndex, parquet, rvars, item, map, replayed>>

-----------------------------------------------------------------------------
(* objects --from-events.                                                  *)

\* Mutant: an event without a payload is passed over whatever its type.
Apply_payload(rows, e) == IF e.type = "put" THEN [rows EXCEPT ![e.id] = FromEvents] ELSE rows

\* An unknown type and a discovery without a payload change nothing.
Apply(rows, e) ==
    CASE e.type = "put"     -> [rows EXCEPT ![e.id] = FromEvents]
      [] e.type = "removed" -> [rows EXCEPT ![e.id] = Absent]
      [] OTHER              -> rows

\* rebuild_object_index_from_events, one event after the other.
ReplayEvent ==
    /\ pc = "replay" /\ log # NoLog
    /\ item <= Len(log) /\ log[item].type # "bad"
    /\ map' = [map EXCEPT ![1] = Apply(map[1], log[item])]
    /\ item' = item + 1
    /\ UNCHANGED <<dvars, fvars, rvars, pc, kind, replayed, basis>>

\* No log, or a payload that is not an object row.
ReplayFails ==
    /\ pc = "replay"
    /\ log # NoLog => item <= Len(log) /\ log[item].type = "bad"
    /\ Exit("failed")
    /\ UNCHANGED <<dvars, fvars, rvars, replayed, basis>>

ReplayEnds ==
    /\ pc = "replay" /\ log # NoLog
    /\ item > Len(log)
    /\ pc' = "parquet" /\ item' = 1
    /\ UNCHANGED <<dvars, fvars, rvars, kind, map, replayed, basis>>

-----------------------------------------------------------------------------
(* write_object_index, write_object_edges and write_derivations.           *)

CreateIndex ==
    /\ pc = "parquet"
    /\ parquet' = [parquet EXCEPT ![kind] = Torn]
    /\ pc' = "parquetFill"
    /\ replayed' = (replayed \/ run.op = "replay")
    /\ UNCHANGED <<dvars, fileIndex, jsonl, rvars, item, kind, map, basis>>

\* The replay writes the objects alone.
LastKind == IF run.op = "replay" THEN 1 ELSE NKinds

FillIndex ==
    /\ pc = "parquetFill"
    /\ parquet' = [parquet EXCEPT ![kind] = map[kind]]
    /\ IF kind < LastKind THEN kind' = kind + 1 /\ pc' = "parquet"
                          ELSE pc' = "record" /\ UNCHANGED kind
    /\ UNCHANGED <<dvars, fileIndex, jsonl, rvars, item, map, replayed, basis>>

\* The provenance event; the append itself is that of ChainOfCustody.
Record ==
    /\ pc = "record"
    /\ Exit("done")
    /\ replayed' = (replayed /\ run.op \notin {"rebuild", "full"})
    /\ UNCHANGED <<dvars, fvars, rvars, basis>>

\* The process is killed, or a read or a write fails.
Stop ==
    /\ pc \notin Ended
    /\ Exit("failed")
    /\ UNCHANGED <<dvars, fvars, rvars, replayed, basis>>

-----------------------------------------------------------------------------
Command ==
    \/ Start \/ WriteTable \/ CreateFileIndex \/ FillFileIndex \/ ScanFails
    \/ ReadDelta \/ Unreadable \/ MergeExisting
    \/ Collect \/ CollectFails \/ CompareJsonl \/ CreateJsonl \/ FillJsonl
    \/ ReplayEvent \/ ReplayFails \/ ReplayEnds
    \/ CreateIndex \/ FillIndex \/ Record \/ Stop

Next == Command \/ \E j \in Jobs, k \in Kinds : CreateDelta(j, k) \/ WriteDelta(j, k)

Spec == Init /\ [][Next]_vars

-----------------------------------------------------------------------------
(* Properties.                                                             *)

Merged == run.op = "objects" /\ pc = "done"

\* However often merges, rebuilds and replays ran before, were killed or
\* dropped rows: after a merge an id that some delta held when it began is
\* indexed, and as the first job (by name) that had it says.
FirstJobWins ==
    Merged => \A j \in Jobs, k \in Kinds : <<j, k>> \in begun =>
        \A i \in Finds[j] : parquet[k][i] \in 1 .. j

\* A merge never takes a row away: an index that a killed writer left torn
\* ends the merge, it is not taken for an empty one.
MergeKeeps ==
    Merged => \A k \in Kinds : kept[k] \subseteq IdsOf(parquet[k])

Quiet == \A jk \in Jobs \X Kinds : delta[jk[1]][jk[2]] \in {NoFile, Whole}
                                   /\ (delta[jk[1]][jk[2]] = Whole => jk \in begun)

\* Edges and derivations without their object come from reading the deltas of
\* a job while it writes them, or from a rebuild that is killed between two
\* files; the next merge that no job writes under leaves none of them.  Only a
\* replay, which writes the objects alone, can drop an object for good.
MergeHeals ==
    Merged /\ Quiet /\ ~replayed =>
        \A k \in Kinds : IdsOf(parquet[k]) \subseteq IdsOf(parquet[1])

\* A rebuild without --force is refused for a reason: what the last finished
\* rebuild rendered is not what this one renders, or it was killed.
RefusedForReason ==
    pc = "refused" => basis # [ids |-> FoundIds, hash |-> run.hash]

\* After a replay an object is indexed exactly if the log puts it and does
\* not remove it later.
ReplayIsLastEvent ==
    run.op = "replay" /\ pc = "done" =>
        \A i \in Ids : parquet[1][i] # Absent <=>
            \E n \in DOMAIN log : /\ log[n].type = "put" /\ log[n].id = i
                                  /\ \A m \in n + 1 .. Len(log) :
                                        ~(log[m].type = "removed" /\ log[m].id = i)
=============================================================================
