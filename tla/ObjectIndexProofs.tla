------------------------- MODULE ObjectIndexProofs -------------------------
(* The invariants of ObjectIndex, for any number of jobs, file systems,    *)
(* kinds, ids, events and runs; and the search for cycles in the graph of  *)
(* the objects (Lineage), for any number of objects and edges.             *)
EXTENDS ObjectIndex, GraphQuestions, FiniteSetTheorems, TLAPS

Writing == {"parquet", "parquetFill", "record"}

\* Which steps belong to which command, and where the counters stand.
PcOp ==
    /\ pc = "table" => item = 1
    /\ pc = "replay" => run.op = "replay" /\ item \in Nat \ {0}
    /\ pc \in {"deltas", "existing"} => run.op = "objects"
    /\ run.op = "objects" => pc \in Ended \cup Writing \cup {"deltas", "existing"}
    /\ run.op = "replay" => pc \in Ended \cup Writing \cup {"replay"}
    /\ run.op = "filesystem" => pc \in Ended \cup {"scan", "scanFill"}
    /\ pc \in {"table", "scan", "scanFill", "existing", "collect", "compare", "replay"} => kind = 1
    /\ pc \in Writing /\ run.op = "replay" => kind = 1

\* A delta that was whole stays whole, and is never there without the objects
\* of its job.
DeltasStay ==
    /\ \A jk \in begun : delta[jk[1]][jk[2]] = Whole
    /\ \A j \in Jobs, k \in Kinds : k # 1 /\ delta[j][k] # NoFile => delta[j][1] = Whole

ReadAlready(j, k) ==
    pc # "deltas" \/ j < item \/ (j = item /\ k < kind)

\* A merge has gathered what the deltas it has read held when it began.
Gathered ==
    run.op = "objects" /\ pc \in Writing \cup {"deltas", "existing"} =>
        /\ \A j \in Jobs, k \in Kinds : <<j, k>> \in begun /\ ReadAlready(j, k) =>
              \A i \in Finds[j] : map[k][i] \in 1 .. j
        /\ pc = "deltas" => \A k \in Kinds, i \in Ids : map[k][i] \in (1 .. item) \cup {Absent}

\* What it gathered is in the files that it has written.
Written ==
    /\ pc \in Writing =>
          \A k \in Kinds : k < kind \/ (pc = "record" /\ k <= LastKind) => parquet[k] = map[k]
    /\ Merged => \A k \in Kinds : parquet[k] \in Rows

\* The ids of the index are those of before, until they are in the map.
KeptSoFar ==
    /\ \A k \in Kinds : parquet[k] = NoFile => kept[k] = {}
    /\ run.op = "objects" /\ pc \in {"deltas", "existing"} =>
          \A k \in Kinds : parquet[k] \in Rows => kept[k] = IdsOf(parquet[k])
    /\ run.op = "objects" /\ pc \in Writing =>
          \A k \in Kinds : /\ kept[k] \subseteq IdsOf(map[k])
                           /\ parquet[k] \in Rows => IdsOf(parquet[k]) \subseteq IdsOf(map[k])

\* What a rebuild gathers and renders, and what the last one rendered.
Rendered ==
    /\ pc \in {"compare", "jsonl", "jsonlFill"} =>
          \A k \in Kinds : map[k] = Render(FoundIds, run.hash, k)
    /\ pc \in {"jsonl", "jsonlFill"} => \A k \in Kinds : k < kind => jsonl[k] = map[k]
    /\ pc = "jsonlFill" => basis = NoBasis
    /\ basis # NoBasis => \A k \in Kinds : jsonl[k] = Render(basis.ids, basis.hash, k)

LastPut(i, n) ==
    \E m \in 1 .. n : /\ log[m].type = "put" /\ log[m].id = i
                      /\ \A l \in m + 1 .. n : ~(log[l].type = "removed" /\ log[l].id = i)

\* The replay has applied the events before item.
ReplayedSoFar ==
    run.op = "replay" =>
        /\ pc = "replay" /\ log # NoLog =>
              /\ item <= Len(log) + 1
              /\ \A i \in Ids : map[1][i] # Absent <=> LastPut(i, item - 1)
        /\ pc \in Writing =>
              /\ log # NoLog
              /\ \A i \in Ids : map[1][i] # Absent <=> LastPut(i, Len(log))

KnownFs == UNION {Holds[f] : f \in {g \in Filesystems : fileIndex[g] # NoFile}}

KnownJobs == UNION {Finds[j] : j \in {h \in Jobs : delta[h][1] = Whole}}

\* What belongs to an object is in an index only if a file index or the object
\* delta of a job names it; and unless a replay dropped the object, it is
\* either indexed or named by such a delta.
Closed ==
    /\ \A k \in Kinds : parquet[1] = NoFile => parquet[k] = NoFile
    /\ \A k \in Kinds \ {1} : parquet[k] \in Rows => IdsOf(parquet[k]) \subseteq KnownFs \cup KnownJobs
    /\ ~replayed /\ parquet[1] \in Rows => \A k \in Kinds : parquet[k] \in Rows =>
          IdsOf(parquet[k]) \subseteq IdsOf(parquet[1]) \cup KnownJobs

\* The same of what is about to be written.
ClosedMap ==
    /\ pc \in {"deltas", "existing"} => \A k \in Kinds \ {1} : IdsOf(map[k]) \subseteq KnownJobs
    /\ run.op # "replay" /\ pc \in {"compare", "jsonl", "jsonlFill"} \cup Writing =>
          \A k \in Kinds \ {1} : IdsOf(map[k]) \subseteq KnownFs \cup KnownJobs
    /\ run.op \in {"rebuild", "full"} /\ pc \in {"compare", "jsonl", "jsonlFill"} \cup Writing =>
          \A k \in Kinds : IdsOf(map[k]) = FoundIds /\ FoundIds = KnownFs
    /\ run.op = "objects" /\ pc \in Writing /\ ~replayed =>
          \A k \in Kinds : IdsOf(map[k]) \subseteq IdsOf(map[1]) \cup KnownJobs
    /\ run.op = "replay" /\ pc \in {"parquetFill", "record"} => replayed

IInv == /\ TypeOK /\ PcOp /\ DeltasStay /\ Gathered /\ Written /\ KeptSoFar /\ Rendered
        /\ ReplayedSoFar /\ Closed /\ ClosedMap
        /\ FirstJobWins /\ MergeKeeps /\ RefusedForReason /\ ReplayIsLastEvent
-----------------------------------------------------------------------------
(* Types.                                                                  *)

LEMMA OneIsAKind == 1 \in Kinds
BY IndexAssumption DEF Kinds

LEMMA RowsFromType ==
    ASSUME NEW src \in Sources, NEW ids
    PROVE  RowsFrom(src, ids) \in Rows
BY DEF RowsFrom, Rows

LEMMA OrInsertType ==
    ASSUME NEW m \in Rows, NEW rows \in Rows
    PROVE  OrInsert(m, rows) \in Rows
BY DEF OrInsert, Rows

LEMMA NoRowsType == [k \in Kinds |-> NoRows] \in [Kinds -> Rows]
BY DEF NoRows, Rows

LEMMA RenderType ==
    ASSUME NEW ids, NEW hash \in HashModes, NEW k
    PROVE  Render(ids, hash, k) \in Rows
BY RowsFromType DEF Render, Sources

LEMMA ApplyType ==
    ASSUME NEW rows \in Rows, NEW e \in Event
    PROVE  Apply(rows, e) \in Rows
BY DEF Apply, Rows, Event, Sources

LEMMA FoundIdsType == FoundIds \in SUBSET Ids
BY IndexAssumption DEF FoundIds, Indexed

LEMMA ExitType ==
    ASSUME NEW how, Exit(how)
    PROVE  item' \in Nat /\ kind' \in Kinds /\ map' \in [Kinds -> Rows] /\ pc' = how
BY NoRowsType, OneIsAKind DEF Exit

AfterScanOk ==
    item' \in Nat /\ pc' \in {"scan", "collect", "done"} /\ (pc' = "scan" => item' \in Filesystems)

LEMMA AfterScanType == TypeOK /\ AfterScan => AfterScanOk
BY IndexAssumption DEF TypeOK, AfterScan, AfterScanOk, Filesystems

LEMMA TypeInit == Init => TypeOK /\ PcOp
<1> SUFFICES ASSUME Init PROVE TypeOK /\ PcOp
  OBVIOUS
<1>1. delta \in [Jobs -> [Kinds -> {NoFile, Partial, Torn, Whole}]]
  BY DEF Init
<1>2. fileIndex \in [Filesystems -> {NoFile, Torn, Whole}]
  BY DEF Init
<1>3. jsonl \in [Kinds -> Files] /\ parquet \in [Kinds -> Files]
  BY DEF Init, Files
<1>4. map \in [Kinds -> Rows]
  BY NoRowsType DEF Init
<1>5. kept \in [Kinds -> SUBSET Ids]
  BY DEF Init
<1>6. run \in Runs
  BY DEF Init, Runs, Ops, HashModes
<1>7. pc = "done" /\ kind \in Kinds /\ item = 1 /\ runs \in 0 .. MaxRuns /\ begun = {} /\ replayed = FALSE
      /\ basis = NoBasis
  BY OneIsAKind, IndexAssumption DEF Init
<1>8. log \in Logs \cup {NoLog}
  BY DEF Init
<1>9. TypeOK
  BY <1>1, <1>2, <1>3, <1>4, <1>5, <1>6, <1>7, <1>8, IndexAssumption DEF TypeOK, Pcs, Ended
<1>10. PcOp
  BY <1>7 DEF PcOp, Ended, Writing
<1> QED
  BY <1>9, <1>10

LEMMA TypeStep == TypeOK /\ PcOp /\ [Next]_vars => TypeOK'
<1> SUFFICES ASSUME TypeOK, PcOp, [Next]_vars PROVE TypeOK'
  OBVIOUS
<1>1. CASE Start
  <2>1. PICK r \in Runs :
            /\ run' = r
            /\ pc' \in {FirstStep(r.op), "skipped"}
            /\ item' \in IF r.op = "filesystem" THEN Filesystems ELSE {1}
            /\ begun' = IF r.op = "objects" THEN {jk \in Jobs \X Kinds : delta[jk[1]][jk[2]] = Whole}
                        ELSE {}
            /\ r.op = "filesystem" => pc' = "scan"
    BY <1>1 DEF Start, FirstStep, Runs, Ops
  <2>2. pc' \in Pcs /\ (pc' = "deltas" => 1 \in Jobs /\ r.op = "objects") /\ pc' # "scanFill"
        /\ (pc' = "scan" => r.op = "filesystem")
    <3>1. Jobs # {} => 1 \in Jobs
      BY IndexAssumption DEF Jobs
    <3> QED
      BY <2>1, <3>1 DEF FirstStep, Pcs, Ended, Runs, Ops
  <2>3. item' \in Nat /\ (pc' = "deltas" => item' \in Jobs) /\ (pc' = "scan" => item' \in Filesystems)
    BY <2>1, <2>2 DEF Filesystems
  <2>4. kept' \in [Kinds -> SUBSET Ids] /\ runs' \in 0 .. MaxRuns
    BY <1>1, IndexAssumption DEF Start, TypeOK, IdsOf
  <2>5. begun' \subseteq Jobs \X Kinds
    BY <2>1
  <2>6. kind' \in Kinds /\ map' \in [Kinds -> Rows]
    BY <1>1, NoRowsType, OneIsAKind DEF Start
  <2> QED
    BY <1>1, <2>1, <2>2, <2>3, <2>4, <2>5, <2>6 DEF Start, TypeOK, dvars, fvars

<1>2. CASE WriteTable
  <2>1. Filesystems # {} => 1 \in Filesystems
    BY IndexAssumption DEF Filesystems
  <2> QED
    BY <1>2, <2>1 DEF WriteTable, TypeOK, PcOp, Pcs, dvars, fvars, rvars

<1>3. CASE CreateFileIndex
  BY <1>3 DEF CreateFileIndex, TypeOK, Pcs, dvars, rvars

<1>4. CASE FillFileIndex
  <2>1. AfterScanOk
    BY <1>4, AfterScanType DEF FillFileIndex
  <2> QED
    BY <1>4, <2>1 DEF FillFileIndex, AfterScanOk, TypeOK, Pcs, Ended, dvars, rvars

<1>5. CASE ScanFails
  <2>1. AfterScanOk
    BY <1>5, AfterScanType DEF ScanFails
  <2> QED
    BY <1>5, <2>1 DEF ScanFails, AfterScanOk, TypeOK, Pcs, Ended, dvars, fvars, rvars

<1>6. CASE ReadDelta
  <2>1. PICK ids \in Readable(item, kind) :
            map' = [map EXCEPT ![kind] = OrInsert(map[kind], RowsFrom(item, ids))]
    BY <1>6 DEF ReadDelta
  <2>2. item \in Jobs /\ kind \in Kinds /\ item \in Sources
    BY <1>6 DEF ReadDelta, TypeOK, Sources
  <2>3. map[kind] \in Rows
    BY <2>2 DEF TypeOK
  <2>4. RowsFrom(item, ids) \in Rows
    BY <2>2, RowsFromType
  <2>5. OrInsert(map[kind], RowsFrom(item, ids)) \in Rows
    BY <2>3, <2>4, OrInsertType
  <2>6. map' \in [Kinds -> Rows]
    BY <2>1, <2>5 DEF TypeOK
  <2>7. kind' \in Kinds /\ item' \in Nat /\ pc' \in {"deltas", "existing"} /\ (pc' = "deltas" => item' \in Jobs)
    BY <1>6, <2>2, IndexAssumption DEF ReadDelta, NextDelta, TypeOK, Kinds, Jobs
  <2> QED
    BY <1>6, <2>6, <2>7 DEF ReadDelta, TypeOK, Pcs, dvars, fvars, rvars

<1>7. CASE Unreadable
  BY <1>7, ExitType DEF Unreadable, TypeOK, Pcs, Ended, dvars, fvars, rvars

<1>8. CASE MergeExisting
  <2>1. ASSUME NEW k \in Kinds
        PROVE  (IF parquet[k] = NoFile THEN map[k] ELSE OrInsert(map[k], parquet[k])) \in Rows
    <3>1. map[k] \in Rows
      BY DEF TypeOK
    <3>2. parquet[k] \in Rows \/ parquet[k] = NoFile
      BY <1>8 DEF MergeExisting, TypeOK, Files
    <3> QED
      BY <3>1, <3>2, OrInsertType
  <2>2. map' \in [Kinds -> Rows]
    BY <1>8, <2>1 DEF MergeExisting
  <2> QED
    BY <1>8, <2>2 DEF MergeExisting, TypeOK, Pcs, dvars, fvars, rvars

<1>9. CASE Collect
  <2>1. \A k \in Kinds : Render(FoundIds, run.hash, k) \in Rows
    BY RenderType DEF TypeOK, Runs
  <2>2. map' \in [Kinds -> Rows] /\ pc' \in {"jsonl", "compare"}
    BY <1>9, <2>1 DEF Collect
  <2> QED
    BY <1>9, <2>2 DEF Collect, TypeOK, Pcs, dvars, fvars, rvars

<1>10. CASE CollectFails
  BY <1>10, ExitType DEF CollectFails, TypeOK, Pcs, Ended, dvars, fvars, rvars

<1>11. CASE CompareJsonl
  <2>1. CASE SafeRewrite
    BY <1>11, <2>1 DEF CompareJsonl, TypeOK, Pcs, dvars, fvars, rvars
  <2>2. CASE ~SafeRewrite
    BY <1>11, <2>2, ExitType DEF CompareJsonl, TypeOK, Pcs, Ended, dvars, fvars, rvars
  <2> QED
    BY <2>1, <2>2

<1>12. CASE CreateJsonl
  BY <1>12 DEF CreateJsonl, TypeOK, Pcs, Files, dvars, rvars

<1>13. CASE FillJsonl
  <2>1. jsonl' \in [Kinds -> Files]
    BY <1>13 DEF FillJsonl, TypeOK, Files
  <2>2. kind' \in Kinds /\ pc' \in {"jsonl", "parquet"}
    BY <1>13, OneIsAKind, IndexAssumption DEF FillJsonl, TypeOK, Kinds
  <2>3. basis' \in [ids : SUBSET Ids, hash : HashModes] \cup {NoBasis}
    BY <1>13, FoundIdsType DEF FillJsonl, TypeOK, Runs
  <2> QED
    BY <1>13, <2>1, <2>2, <2>3 DEF FillJsonl, TypeOK, Pcs, dvars, rvars

<1>14. CASE ReplayEvent
  <2>1. map[1] \in Rows /\ log \in Seq(Event) /\ item \in 1 .. Len(log)
    BY <1>14, OneIsAKind, IndexAssumption DEF ReplayEvent, TypeOK, PcOp
  <2>2. log[item] \in Event
    BY <2>1
  <2>3. Apply(map[1], log[item]) \in Rows
    BY <2>1, <2>2, ApplyType
  <2>4. map' \in [Kinds -> Rows]
    BY <1>14, <2>3, OneIsAKind DEF ReplayEvent, TypeOK
  <2>5. item' \in Nat /\ pc = "replay"
    BY <1>14 DEF ReplayEvent, TypeOK
  <2> QED
    BY <1>14, <2>4, <2>5 DEF ReplayEvent, TypeOK, dvars, fvars, rvars

<1>15. CASE ReplayFails
  BY <1>15, ExitType DEF ReplayFails, TypeOK, Pcs, Ended, dvars, fvars, rvars

<1>16. CASE ReplayEnds
  BY <1>16 DEF ReplayEnds, TypeOK, Pcs, dvars, fvars, rvars

<1>17. CASE CreateIndex
  BY <1>17 DEF CreateIndex, TypeOK, Pcs, Files, dvars, rvars

<1>18. CASE FillIndex
  <2>1. parquet' \in [Kinds -> Files]
    BY <1>18 DEF FillIndex, TypeOK, Files
  <2>2. kind' \in Kinds /\ pc' \in {"parquet", "record"}
    BY <1>18, IndexAssumption DEF FillIndex, LastKind, TypeOK, Kinds
  <2> QED
    BY <1>18, <2>1, <2>2 DEF FillIndex, TypeOK, Pcs, dvars, rvars

<1>19. CASE Record
  BY <1>19, ExitType DEF Record, TypeOK, Pcs, Ended, dvars, fvars, rvars

<1>20. CASE Stop
  BY <1>20, ExitType DEF Stop, TypeOK, Pcs, Ended, dvars, fvars, rvars

<1>21. ASSUME NEW j \in Jobs, NEW k \in Kinds, CreateDelta(j, k) PROVE TypeOK'
  BY <1>21 DEF CreateDelta, TypeOK, fvars, rvars

<1>22. ASSUME NEW j \in Jobs, NEW k \in Kinds, WriteDelta(j, k) PROVE TypeOK'
  BY <1>22 DEF WriteDelta, TypeOK, fvars, rvars

<1>23. CASE UNCHANGED vars
  BY <1>23 DEF vars, TypeOK

<1> QED
  BY <1>1, <1>2, <1>3, <1>4, <1>5, <1>6, <1>7, <1>8, <1>9, <1>10, <1>11, <1>12, <1>13, <1>14,
     <1>15, <1>16, <1>17, <1>18, <1>19, <1>20, <1>21, <1>22, <1>23 DEF Next, Command
-----------------------------------------------------------------------------
(* The steps.                                                             *)

LEMMA PcOpStep == TypeOK /\ PcOp /\ [Next]_vars => PcOp'
<1> SUFFICES ASSUME TypeOK, PcOp, [Next]_vars PROVE PcOp'
  OBVIOUS
<1>1. CASE Start
  <2>1. PICK r \in Runs : run' = r /\ pc' \in {FirstStep(r.op), "skipped"}
            /\ (r.op # "filesystem" => item' = 1)
    BY <1>1 DEF Start
  <2>2. kind' = 1
    BY <1>1 DEF Start
  <2>3. r.op \in Ops
    BY DEF Runs
  <2>4. /\ (r.op = "objects" => pc' \in {"deltas", "existing", "skipped"})
        /\ (r.op = "filesystem" => pc' \in {"scan", "skipped"})
        /\ (r.op = "replay" => pc' \in {"replay", "skipped"})
        /\ (r.op \notin {"objects", "filesystem", "replay"} => pc' \in {"table", "collect", "skipped"})
    BY <2>1, <2>3 DEF FirstStep, Ops
  <2>5. pc' = "table" => item' = 1
    BY <2>1, <2>4
  <2>6. pc' = "replay" => item' = 1 /\ r.op = "replay"
    BY <2>1, <2>4
  <2>7. pc' \in {"deltas", "existing"} => r.op = "objects"
    BY <2>4
  <2> QED
    BY <2>1, <2>2, <2>3, <2>4, <2>5, <2>6, <2>7 DEF PcOp, Ended, Writing, Ops

<1>2. CASE WriteTable
  BY <1>2 DEF WriteTable, PcOp, TypeOK, Exit, Ended, Writing, dvars, fvars, rvars

<1>3. CASE CreateFileIndex
  BY <1>3 DEF CreateFileIndex, PcOp, TypeOK, Exit, Ended, Writing, dvars, fvars, rvars

<1>4. CASE FillFileIndex
  BY <1>4 DEF FillFileIndex, AfterScan, PcOp, TypeOK, Ended, Writing, dvars, rvars

<1>5. CASE ScanFails
  BY <1>5 DEF ScanFails, AfterScan, PcOp, TypeOK, Ended, Writing, dvars, fvars, rvars

<1>6. CASE ReadDelta
  BY <1>6 DEF ReadDelta, NextDelta, PcOp, TypeOK, Ended, Writing, dvars, fvars, rvars

<1>7. CASE Unreadable
  BY <1>7 DEF Unreadable, PcOp, TypeOK, Exit, Ended, Writing, dvars, fvars, rvars

<1>8. CASE MergeExisting
  BY <1>8 DEF MergeExisting, PcOp, TypeOK, Exit, Ended, Writing, dvars, fvars, rvars

<1>9. CASE Collect
  BY <1>9 DEF Collect, PcOp, TypeOK, Exit, Ended, Writing, dvars, fvars, rvars

<1>10. CASE CollectFails
  BY <1>10 DEF CollectFails, PcOp, TypeOK, Exit, Ended, Writing, dvars, fvars, rvars

<1>11. CASE CompareJsonl
  BY <1>11 DEF CompareJsonl, PcOp, TypeOK, Exit, Ended, Writing, dvars, fvars, rvars

<1>12. CASE CreateJsonl
  BY <1>12 DEF CreateJsonl, PcOp, TypeOK, Exit, Ended, Writing, dvars, fvars, rvars

<1>13. CASE FillJsonl
  BY <1>13 DEF FillJsonl, PcOp, TypeOK, Exit, Ended, Writing, dvars, fvars, rvars

<1>14. CASE ReplayEvent
  BY <1>14 DEF ReplayEvent, PcOp, TypeOK, Exit, Ended, Writing, dvars, fvars, rvars

<1>15. CASE ReplayFails
  BY <1>15 DEF ReplayFails, PcOp, TypeOK, Exit, Ended, Writing, dvars, fvars, rvars

<1>16. CASE ReplayEnds
  BY <1>16 DEF ReplayEnds, PcOp, TypeOK, Exit, Ended, Writing, dvars, fvars, rvars

<1>17. CASE CreateIndex
  BY <1>17 DEF CreateIndex, PcOp, TypeOK, Exit, Ended, Writing, dvars, fvars, rvars

<1>18. CASE FillIndex
  BY <1>18 DEF FillIndex, LastKind, PcOp, TypeOK, Ended, Writing, dvars, rvars

<1>19. CASE Record
  BY <1>19 DEF Record, PcOp, TypeOK, Exit, Ended, Writing, dvars, fvars, rvars

<1>20. CASE Stop
  BY <1>20 DEF Stop, PcOp, TypeOK, Exit, Ended, Writing, dvars, fvars, rvars

<1>21. ASSUME NEW j \in Jobs, NEW k \in Kinds, CreateDelta(j, k) PROVE PcOp'
  BY <1>21 DEF CreateDelta, PcOp, TypeOK, Exit, Ended, Writing, dvars, fvars, rvars

<1>22. ASSUME NEW j \in Jobs, NEW k \in Kinds, WriteDelta(j, k) PROVE PcOp'
  BY <1>22 DEF WriteDelta, PcOp, TypeOK, Exit, Ended, Writing, dvars, fvars, rvars

<1>23. CASE UNCHANGED vars
  BY <1>23 DEF vars, PcOp, Ended, Writing, rvars

<1> QED
  BY <1>1, <1>2, <1>3, <1>4, <1>5, <1>6, <1>7, <1>8, <1>9, <1>10, <1>11, <1>12, <1>13, <1>14,
     <1>15, <1>16, <1>17, <1>18, <1>19, <1>20, <1>21, <1>22, <1>23 DEF Next, Command

LEMMA DeltasStep == TypeOK /\ DeltasStay /\ [Next]_vars => DeltasStay'
<1> SUFFICES ASSUME TypeOK, DeltasStay, [Next]_vars PROVE DeltasStay'
  OBVIOUS
<1>1. CASE Start
  <2>1. begun' \subseteq {jk \in Jobs \X Kinds : delta[jk[1]][jk[2]] = Whole}
    BY <1>1 DEF Start
  <2> QED
    BY <1>1, <2>1 DEF Start, DeltasStay, dvars

<1>2. CASE WriteTable
  BY <1>2 DEF WriteTable, DeltasStay, dvars, rvars

<1>3. CASE CreateFileIndex
  BY <1>3 DEF CreateFileIndex, DeltasStay, dvars, rvars

<1>4. CASE FillFileIndex
  BY <1>4 DEF FillFileIndex, DeltasStay, dvars, rvars

<1>5. CASE ScanFails
  BY <1>5 DEF ScanFails, DeltasStay, dvars, rvars

<1>6. CASE ReadDelta
  BY <1>6 DEF ReadDelta, DeltasStay, dvars, rvars

<1>7. CASE Unreadable
  BY <1>7 DEF Unreadable, DeltasStay, dvars, rvars

<1>8. CASE MergeExisting
  BY <1>8 DEF MergeExisting, DeltasStay, dvars, rvars

<1>9. CASE Collect
  BY <1>9 DEF Collect, DeltasStay, dvars, rvars

<1>10. CASE CollectFails
  BY <1>10 DEF CollectFails, DeltasStay, dvars, rvars

<1>11. CASE CompareJsonl
  BY <1>11 DEF CompareJsonl, DeltasStay, dvars, rvars

<1>12. CASE CreateJsonl
  BY <1>12 DEF CreateJsonl, DeltasStay, dvars, rvars

<1>13. CASE FillJsonl
  BY <1>13 DEF FillJsonl, DeltasStay, dvars, rvars

<1>14. CASE ReplayEvent
  BY <1>14 DEF ReplayEvent, DeltasStay, dvars, rvars

<1>15. CASE ReplayFails
  BY <1>15 DEF ReplayFails, DeltasStay, dvars, rvars

<1>16. CASE ReplayEnds
  BY <1>16 DEF ReplayEnds, DeltasStay, dvars, rvars

<1>17. CASE CreateIndex
  BY <1>17 DEF CreateIndex, DeltasStay, dvars, rvars

<1>18. CASE FillIndex
  BY <1>18 DEF FillIndex, DeltasStay, dvars, rvars

<1>19. CASE Record
  BY <1>19 DEF Record, DeltasStay, dvars, rvars

<1>20. CASE Stop
  BY <1>20 DEF Stop, DeltasStay, dvars, rvars

<1>21. ASSUME NEW j \in Jobs, NEW k \in Kinds, CreateDelta(j, k) PROVE DeltasStay'
  <2>1. delta' = [delta EXCEPT ![j] = [delta[j] EXCEPT ![k] = Partial]] /\ begun' = begun
        /\ delta[j][k] = NoFile
    BY <1>21 DEF CreateDelta, rvars
  <2>2. k # 1 => delta[j][1] = Whole
    BY <1>21, OneIsAKind, IndexAssumption DEF CreateDelta, Kinds
  <2>3. Whole # NoFile /\ Partial # Whole
    BY IndexAssumption
  <2>4. \A h \in Jobs, l \in Kinds : delta'[h][l] = IF h = j /\ l = k THEN Partial ELSE delta[h][l]
    BY <2>1 DEF TypeOK
  <2>5. begun \subseteq Jobs \X Kinds
    BY DEF TypeOK
  <2>6. \A jk \in begun : delta'[jk[1]][jk[2]] = Whole
    BY <2>1, <2>3, <2>4, <2>5 DEF DeltasStay
  <2>7. ASSUME NEW h \in Jobs, NEW l \in Kinds, l # 1, delta'[h][l] # NoFile PROVE delta'[h][1] = Whole
    BY <2>1, <2>2, <2>3, <2>4, <2>7, OneIsAKind DEF DeltasStay
  <2> QED
    BY <2>1, <2>6, <2>7 DEF DeltasStay

<1>22. ASSUME NEW j \in Jobs, NEW k \in Kinds, WriteDelta(j, k) PROVE DeltasStay'
  <2>1. PICK c \in {Torn, Whole} : delta' = [delta EXCEPT ![j] = [delta[j] EXCEPT ![k] = c]]
    BY <1>22 DEF WriteDelta
  <2>2. begun' = begun /\ delta[j][k] # Whole /\ delta[j][k] # NoFile
    BY <1>22, IndexAssumption DEF WriteDelta, rvars
  <2>4. \A h \in Jobs, l \in Kinds : delta'[h][l] = IF h = j /\ l = k THEN c ELSE delta[h][l]
    BY <2>1 DEF TypeOK
  <2>5. begun \subseteq Jobs \X Kinds
    BY DEF TypeOK
  <2>6. \A jk \in begun : delta'[jk[1]][jk[2]] = Whole
    BY <2>1, <2>2, <2>4, <2>5 DEF DeltasStay
  <2>7. ASSUME NEW h \in Jobs, NEW l \in Kinds, l # 1, delta'[h][l] # NoFile PROVE delta'[h][1] = Whole
    <3>1. delta[h][l] # NoFile
      BY <2>2, <2>4, <2>7
    <3>2. delta[h][1] = Whole
      BY <3>1, <2>7 DEF DeltasStay
    <3> QED
      BY <3>2, <2>2, <2>4, OneIsAKind
  <2> QED
    BY <2>2, <2>6, <2>7 DEF DeltasStay

<1>23. CASE UNCHANGED vars
  BY <1>23 DEF vars, DeltasStay

<1> QED
  BY <1>1, <1>2, <1>3, <1>4, <1>5, <1>6, <1>7, <1>8, <1>9, <1>10, <1>11, <1>12, <1>13, <1>14,
     <1>15, <1>16, <1>17, <1>18, <1>19, <1>20, <1>21, <1>22, <1>23 DEF Next, Command

LEMMA WrittenStep == TypeOK /\ PcOp /\ Written /\ [Next]_vars => Written'
<1> SUFFICES ASSUME TypeOK, PcOp, Written, [Next]_vars PROVE Written'
  OBVIOUS
<1>1. CASE Start
  <2>1. pc' \notin Writing /\ pc' # "done"
    BY <1>1 DEF Start, FirstStep, Runs, Ops, Writing
  <2> QED
    BY <2>1 DEF Written, Merged

<1>2. CASE WriteTable
  BY <1>2 DEF WriteTable, PcOp, Written, Merged, Writing, LastKind, Ended, Exit, dvars, fvars, rvars

<1>3. CASE CreateFileIndex
  BY <1>3 DEF CreateFileIndex, PcOp, Written, Merged, Writing, LastKind, Ended, Exit, dvars, fvars, rvars

<1>4. CASE FillFileIndex
  BY <1>4 DEF FillFileIndex, AfterScan, PcOp, Written, Merged, Writing, Ended, dvars, fvars, rvars

<1>5. CASE ScanFails
  BY <1>5 DEF ScanFails, AfterScan, PcOp, Written, Merged, Writing, Ended, dvars, fvars, rvars

<1>6. CASE ReadDelta
  BY <1>6 DEF ReadDelta, NextDelta, PcOp, Written, Merged, Writing, Ended, dvars, fvars, rvars

<1>7. CASE Unreadable
  BY <1>7 DEF Unreadable, PcOp, Written, Merged, Writing, LastKind, Ended, Exit, dvars, fvars, rvars

<1>8. CASE MergeExisting
  <2>1. kind' = 1 /\ pc' = "parquet"
    BY <1>8 DEF MergeExisting, PcOp
  <2> QED
    BY <2>1 DEF Written, Merged, Writing, Kinds

<1>9. CASE Collect
  BY <1>9 DEF Collect, PcOp, Written, Merged, Writing, LastKind, Ended, Exit, dvars, fvars, rvars

<1>10. CASE CollectFails
  BY <1>10 DEF CollectFails, PcOp, Written, Merged, Writing, LastKind, Ended, Exit, dvars, fvars, rvars

<1>11. CASE CompareJsonl
  BY <1>11 DEF CompareJsonl, PcOp, Written, Merged, Writing, LastKind, Ended, Exit, dvars, fvars, rvars

<1>12. CASE CreateJsonl
  BY <1>12 DEF CreateJsonl, PcOp, Written, Merged, Writing, LastKind, Ended, Exit, dvars, fvars, rvars

<1>13. CASE FillJsonl
  <2>1. (kind' = 1 /\ pc' = "parquet") \/ pc' = "jsonl"
    BY <1>13 DEF FillJsonl
  <2> QED
    BY <2>1 DEF Written, Merged, Writing, Kinds

<1>14. CASE ReplayEvent
  BY <1>14 DEF ReplayEvent, PcOp, Written, Merged, Writing, LastKind, Ended, Exit, dvars, fvars, rvars

<1>15. CASE ReplayFails
  BY <1>15 DEF ReplayFails, PcOp, Written, Merged, Writing, LastKind, Ended, Exit, dvars, fvars, rvars

<1>16. CASE ReplayEnds
  <2>1. kind' = 1 /\ pc' = "parquet"
    BY <1>16 DEF ReplayEnds, PcOp
  <2> QED
    BY <2>1 DEF Written, Merged, Writing, Kinds

<1>17. CASE CreateIndex
  <2>1. pc' = "parquetFill" /\ kind' = kind /\ map' = map /\ pc = "parquet"
        /\ \A k \in Kinds \ {kind} : parquet'[k] = parquet[k]
    BY <1>17 DEF CreateIndex, TypeOK
  <2> QED
    BY <2>1 DEF Written, Merged, Writing, Kinds

<1>18. CASE FillIndex
  <2>1. /\ pc = "parquetFill" /\ map' = map /\ run' = run
        /\ \A k \in Kinds : parquet'[k] = IF k = kind THEN map[k] ELSE parquet[k]
    BY <1>18 DEF FillIndex, TypeOK, rvars
  <2>2. LastKind' = LastKind /\ kind \in 1 .. NKinds /\ LastKind \in {1, NKinds} /\ NKinds \in Nat \ {0}
    BY <2>1, IndexAssumption DEF LastKind, TypeOK, Kinds
  <2>3. \/ pc' = "parquet" /\ kind' = kind + 1
        \/ pc' = "record" /\ kind' = kind /\ ~(kind < LastKind)
    BY <1>18 DEF FillIndex
  <2>4. ~Merged'
    BY <2>3 DEF Merged
  <2>5. \A k \in Kinds : k < kind => parquet[k] = map[k]
    BY <2>1 DEF Written, Writing
  <2>6. ASSUME NEW k \in Kinds, k < kind' \/ (pc' = "record" /\ k <= LastKind')
        PROVE  parquet'[k] = map'[k]
    <3>1. k = kind \/ k < kind
      BY <2>2, <2>3, <2>6 DEF Kinds
    <3> QED
      BY <3>1, <2>1, <2>5
  <2> QED
    BY <2>4, <2>6 DEF Written

<1>19. CASE Record
  <2>1. pc' = "done" /\ run' = run /\ parquet' = parquet
    BY <1>19 DEF Record, Exit, fvars, rvars
  <2>2. ASSUME run.op = "objects", NEW k \in Kinds PROVE parquet[k] \in Rows
    <3>1. k <= LastKind
      BY <2>2 DEF LastKind, Kinds
    <3>2. parquet[k] = map[k]
      BY <1>19, <3>1 DEF Record, Written, Writing
    <3> QED
      BY <3>2 DEF TypeOK
  <2> QED
    BY <2>1, <2>2 DEF Written, Merged, Writing

<1>20. CASE Stop
  BY <1>20 DEF Stop, PcOp, Written, Merged, Writing, LastKind, Ended, Exit, dvars, fvars, rvars

<1>21. ASSUME NEW j \in Jobs, NEW k \in Kinds, CreateDelta(j, k) PROVE Written'
  BY <1>21 DEF CreateDelta, PcOp, Written, Merged, Writing, LastKind, Ended, Exit, dvars, fvars, rvars

<1>22. ASSUME NEW j \in Jobs, NEW k \in Kinds, WriteDelta(j, k) PROVE Written'
  BY <1>22 DEF WriteDelta, PcOp, Written, Merged, Writing, LastKind, Ended, Exit, dvars, fvars, rvars

<1>23. CASE UNCHANGED vars
  BY <1>23 DEF vars, Written, Merged, Writing, LastKind, rvars

<1> QED
  BY <1>1, <1>2, <1>3, <1>4, <1>5, <1>6, <1>7, <1>8, <1>9, <1>10, <1>11, <1>12, <1>13, <1>14,
     <1>15, <1>16, <1>17, <1>18, <1>19, <1>20, <1>21, <1>22, <1>23 DEF Next, Command

LEMMA OrInsertWins ==
    ASSUME NEW m, NEW rows, NEW i \in Ids
    PROVE  OrInsert(m, rows)[i] = IF m[i] = Absent THEN rows[i] ELSE m[i]
BY DEF OrInsert

LEMMA NotAJob == Absent \notin Jobs
BY IndexAssumption DEF Sources

LEMMA GatheredStep == TypeOK /\ PcOp /\ DeltasStay /\ Gathered /\ [Next]_vars => Gathered'
<1> SUFFICES ASSUME TypeOK, PcOp, DeltasStay, Gathered, [Next]_vars PROVE Gathered'
  OBVIOUS
<1>1. CASE Start
  <2>1. PICK r \in Runs : /\ run' = r /\ pc' \in {FirstStep(r.op), "skipped"}
                          /\ r.op # "filesystem" => item' = 1
    BY <1>1 DEF Start
  <2>2. kind' = 1 /\ map' = [k \in Kinds |-> NoRows]
    BY <1>1 DEF Start
  <2>3. begun' \subseteq Jobs \X Kinds
    BY <1>1 DEF Start
  <2>4. ASSUME r.op = "objects", pc' \in Writing \cup {"deltas", "existing"}
        PROVE  (pc' = "deltas" /\ item' = 1) \/ (pc' = "existing" /\ Jobs = {})
    <3>1. FirstStep(r.op) = IF Jobs = {} THEN "existing" ELSE "deltas"
      BY <2>4 DEF FirstStep
    <3>2. r.op # "filesystem"
      BY <2>4
    <3> QED
      BY <2>1, <2>4, <3>1, <3>2 DEF Writing
  <2>5. \A k \in Kinds, i \in Ids : map'[k][i] = Absent
    BY <2>2 DEF NoRows
  <2>6. \A j \in Jobs, k \in Kinds : ~(j < 1) /\ ~(k < 1)
    BY DEF Jobs, Kinds
  <2> QED
    BY <2>1, <2>2, <2>4, <2>5, <2>6 DEF Gathered, ReadAlready

<1>2. CASE WriteTable
  BY <1>2 DEF WriteTable, PcOp, Gathered, FirstJobWins, Merged, ReadAlready, Writing, Ended, Exit, dvars, fvars, rvars

<1>3. CASE CreateFileIndex
  BY <1>3 DEF CreateFileIndex, PcOp, Gathered, FirstJobWins, Merged, ReadAlready, Writing, Ended, Exit, dvars, fvars, rvars

<1>4. CASE FillFileIndex
  BY <1>4 DEF FillFileIndex, AfterScan, PcOp, Gathered, Writing, Ended, dvars, fvars, rvars

<1>5. CASE ScanFails
  BY <1>5 DEF ScanFails, AfterScan, PcOp, Gathered, Writing, Ended, dvars, fvars, rvars

<1>6. CASE ReadDelta
  <2>1. PICK ids \in Readable(item, kind) :
            map' = [map EXCEPT ![kind] = OrInsert(map[kind], RowsFrom(item, ids))]
    BY <1>6 DEF ReadDelta
  <2>2. item \in Jobs /\ kind \in Kinds /\ pc = "deltas" /\ begun' = begun /\ run' = run
    BY <1>6 DEF ReadDelta, TypeOK, rvars
  <2>3. \A k \in Kinds, i \in Ids :
           map'[k][i] = IF k = kind /\ map[k][i] = Absent THEN (IF i \in ids THEN item ELSE Absent) ELSE map[k][i]
    BY <2>1, <2>2 DEF TypeOK, OrInsert, RowsFrom
  <2>4. CASE run.op # "objects"
    BY <2>2, <2>4 DEF Gathered
  <2>5. CASE run.op = "objects"
    <3>1. \A k \in Kinds, i \in Ids : map[k][i] \in (1 .. item) \cup {Absent}
      BY <2>2, <2>5 DEF Gathered
    <3>2. \A j \in Jobs, k \in Kinds : <<j, k>> \in begun /\ ReadAlready(j, k) =>
              \A i \in Finds[j] : map[k][i] \in 1 .. j
      BY <2>2, <2>5 DEF Gathered
    <3>3. <<item, kind>> \in begun => ids = Finds[item]
      <4>1. <<item, kind>> \in begun => delta[item][kind] = Whole
        BY DEF DeltasStay
      <4> QED
        BY <4>1, <2>1, IndexAssumption DEF Readable
    <3>4. item \in 1 .. NJobs /\ kind \in 1 .. NKinds /\ NJobs \in Nat /\ NKinds \in Nat
      BY <2>2, IndexAssumption DEF Jobs, Kinds
    <3>5. \/ kind < NKinds /\ kind' = kind + 1 /\ item' = item /\ pc' = "deltas"
          \/ kind = NKinds /\ kind' = 1 /\ item < NJobs /\ item' = item + 1 /\ pc' = "deltas"
          \/ kind = NKinds /\ item = NJobs /\ pc' = "existing"
      BY <1>6, <3>4, <2>2 DEF ReadDelta, NextDelta
    <3>6. \A k \in Kinds, i \in Ids : map'[k][i] \in (1 .. item) \cup {Absent}
      BY <2>3, <3>1, <3>4
    <3>7. pc' = "deltas" => \A k \in Kinds, i \in Ids : map'[k][i] \in (1 .. item') \cup {Absent}
      BY <3>4, <3>5, <3>6
    <3>8. ASSUME NEW j \in Jobs, NEW k \in Kinds, <<j, k>> \in begun, ReadAlready(j, k)',
                 NEW i \in Finds[j]
          PROVE  map'[k][i] \in 1 .. j
      <4>1. i \in Ids
        BY IndexAssumption
      <4>2. j < item \/ (j = item /\ k <= kind)
        BY <3>4, <3>5, <3>8 DEF ReadAlready, Jobs, Kinds
      <4>3. CASE ReadAlready(j, k)
        <5>1. map[k][i] \in 1 .. j
          BY <4>3, <3>2, <3>8
        <5>2. map[k][i] # Absent
          BY <5>1, NotAJob, <3>4, <4>2 DEF Jobs
        <5> QED
          BY <5>1, <5>2, <4>1, <2>3
      <4>4. CASE ~ReadAlready(j, k)
        <5>1. j = item /\ k = kind
          BY <4>4, <4>2, <2>2, <3>4 DEF ReadAlready, Kinds
        <5>2. i \in ids
          BY <5>1, <3>3, <3>8
        <5>3. map'[k][i] = IF map[k][i] = Absent THEN item ELSE map[k][i]
          BY <5>1, <5>2, <4>1, <2>3
        <5> QED
          BY <5>1, <5>3, <3>1, <3>4, <4>1
      <4> QED
        BY <4>3, <4>4
    <3> QED
      BY <2>2, <3>7, <3>8 DEF Gathered
  <2> QED
    BY <2>4, <2>5

<1>7. CASE Unreadable
  BY <1>7 DEF Unreadable, PcOp, Gathered, FirstJobWins, Merged, ReadAlready, Writing, Ended, Exit, dvars, fvars, rvars

<1>8. CASE MergeExisting
  <2>1. /\ pc = "existing" /\ pc' = "parquet" /\ run' = run /\ begun' = begun
        /\ \A k \in Kinds : map'[k] = IF parquet[k] = NoFile THEN map[k] ELSE OrInsert(map[k], parquet[k])
    BY <1>8 DEF MergeExisting, rvars
  <2>2. ASSUME run.op = "objects", NEW j \in Jobs, NEW k \in Kinds, <<j, k>> \in begun, NEW i \in Finds[j]
        PROVE  map'[k][i] \in 1 .. j
    <3>1. i \in Ids
      BY IndexAssumption
    <3>2. map[k][i] \in 1 .. j
      BY <2>1, <2>2 DEF Gathered, ReadAlready
    <3>3. map[k][i] # Absent
      BY <3>2, NotAJob, IndexAssumption DEF Jobs
    <3> QED
      BY <2>1, <3>1, <3>2, <3>3, OrInsertWins
  <2> QED
    BY <2>1, <2>2 DEF Gathered

<1>9. CASE Collect
  BY <1>9 DEF Collect, PcOp, Gathered, FirstJobWins, Merged, ReadAlready, Writing, Ended, Exit, dvars, fvars, rvars

<1>10. CASE CollectFails
  BY <1>10 DEF CollectFails, PcOp, Gathered, FirstJobWins, Merged, ReadAlready, Writing, Ended, Exit, dvars, fvars, rvars

<1>11. CASE CompareJsonl
  BY <1>11 DEF CompareJsonl, PcOp, Gathered, FirstJobWins, Merged, ReadAlready, Writing, Ended, Exit, dvars, fvars, rvars

<1>12. CASE CreateJsonl
  BY <1>12 DEF CreateJsonl, PcOp, Gathered, FirstJobWins, Merged, ReadAlready, Writing, Ended, Exit, dvars, fvars, rvars

<1>13. CASE FillJsonl
  BY <1>13 DEF FillJsonl, PcOp, Gathered, FirstJobWins, Merged, ReadAlready, Writing, Ended, Exit, dvars, fvars, rvars

<1>14. CASE ReplayEvent
  BY <1>14 DEF ReplayEvent, PcOp, Gathered, FirstJobWins, Merged, ReadAlready, Writing, Ended, Exit, dvars, fvars, rvars

<1>15. CASE ReplayFails
  BY <1>15 DEF ReplayFails, PcOp, Gathered, FirstJobWins, Merged, ReadAlready, Writing, Ended, Exit, dvars, fvars, rvars

<1>16. CASE ReplayEnds
  BY <1>16 DEF ReplayEnds, PcOp, Gathered, FirstJobWins, Merged, ReadAlready, Writing, Ended, Exit, dvars, fvars, rvars

<1>17. CASE CreateIndex
  BY <1>17 DEF CreateIndex, PcOp, Gathered, FirstJobWins, Merged, ReadAlready, Writing, Ended, Exit, dvars, fvars, rvars

<1>18. CASE FillIndex
  BY <1>18 DEF FillIndex, Gathered, ReadAlready, Writing, dvars, fvars, rvars

<1>19. CASE Record
  BY <1>19 DEF Record, PcOp, Gathered, FirstJobWins, Merged, ReadAlready, Writing, Ended, Exit, dvars, fvars, rvars

<1>20. CASE Stop
  BY <1>20 DEF Stop, PcOp, Gathered, FirstJobWins, Merged, ReadAlready, Writing, Ended, Exit, dvars, fvars, rvars

<1>21. ASSUME NEW j \in Jobs, NEW k \in Kinds, CreateDelta(j, k) PROVE Gathered'
  BY <1>21 DEF CreateDelta, PcOp, Gathered, FirstJobWins, Merged, ReadAlready, Writing, Ended, Exit, dvars, fvars, rvars

<1>22. ASSUME NEW j \in Jobs, NEW k \in Kinds, WriteDelta(j, k) PROVE Gathered'
  BY <1>22 DEF WriteDelta, PcOp, Gathered, FirstJobWins, Merged, ReadAlready, Writing, Ended, Exit, dvars, fvars, rvars

<1>23. CASE UNCHANGED vars
  BY <1>23 DEF vars, Gathered, ReadAlready, Writing, rvars

<1> QED
  BY <1>1, <1>2, <1>3, <1>4, <1>5, <1>6, <1>7, <1>8, <1>9, <1>10, <1>11, <1>12, <1>13, <1>14,
     <1>15, <1>16, <1>17, <1>18, <1>19, <1>20, <1>21, <1>22, <1>23 DEF Next, Command

LEMMA FirstJobStep == PcOp /\ Gathered /\ Written /\ FirstJobWins /\ [Next]_vars => FirstJobWins'
<1> SUFFICES ASSUME PcOp, Gathered, Written, FirstJobWins, [Next]_vars PROVE FirstJobWins'
  OBVIOUS
<1>1. CASE Start
  <2>1. pc' # "done"
    BY <1>1 DEF Start, FirstStep, Runs, Ops
  <2> QED
    BY <2>1 DEF FirstJobWins, Merged

<1>2. CASE WriteTable
  BY <1>2 DEF WriteTable, PcOp, FirstJobWins, Merged, Writing, Ended, Exit, dvars, fvars, rvars

<1>3. CASE CreateFileIndex
  BY <1>3 DEF CreateFileIndex, PcOp, FirstJobWins, Merged, Writing, Ended, Exit, dvars, fvars, rvars

<1>4. CASE FillFileIndex
  BY <1>4 DEF FillFileIndex, AfterScan, PcOp, FirstJobWins, Merged, Writing, Ended, dvars, fvars, rvars

<1>5. CASE ScanFails
  BY <1>5 DEF ScanFails, AfterScan, PcOp, FirstJobWins, Merged, Writing, Ended, dvars, fvars, rvars

<1>6. CASE ReadDelta
  BY <1>6 DEF ReadDelta, NextDelta, FirstJobWins, Merged

<1>7. CASE Unreadable
  BY <1>7 DEF Unreadable, PcOp, FirstJobWins, Merged, Writing, Ended, Exit, dvars, fvars, rvars

<1>8. CASE MergeExisting
  BY <1>8 DEF MergeExisting, PcOp, FirstJobWins, Merged, Writing, Ended, Exit, dvars, fvars, rvars

<1>9. CASE Collect
  BY <1>9 DEF Collect, PcOp, FirstJobWins, Merged, Writing, Ended, Exit, dvars, fvars, rvars

<1>10. CASE CollectFails
  BY <1>10 DEF CollectFails, PcOp, FirstJobWins, Merged, Writing, Ended, Exit, dvars, fvars, rvars

<1>11. CASE CompareJsonl
  BY <1>11 DEF CompareJsonl, PcOp, FirstJobWins, Merged, Writing, Ended, Exit, dvars, fvars, rvars

<1>12. CASE CreateJsonl
  BY <1>12 DEF CreateJsonl, PcOp, FirstJobWins, Merged, Writing, Ended, Exit, dvars, fvars, rvars

<1>13. CASE FillJsonl
  BY <1>13 DEF FillJsonl, FirstJobWins, Merged

<1>14. CASE ReplayEvent
  BY <1>14 DEF ReplayEvent, PcOp, FirstJobWins, Merged, Writing, Ended, Exit, dvars, fvars, rvars

<1>15. CASE ReplayFails
  BY <1>15 DEF ReplayFails, PcOp, FirstJobWins, Merged, Writing, Ended, Exit, dvars, fvars, rvars

<1>16. CASE ReplayEnds
  BY <1>16 DEF ReplayEnds, PcOp, FirstJobWins, Merged, Writing, Ended, Exit, dvars, fvars, rvars

<1>17. CASE CreateIndex
  BY <1>17 DEF CreateIndex, PcOp, FirstJobWins, Merged, Writing, Ended, Exit, dvars, fvars, rvars

<1>18. CASE FillIndex
  BY <1>18 DEF FillIndex, PcOp, FirstJobWins, Merged, Writing, Ended, Exit, dvars, fvars, rvars

<1>19. CASE Record
  <2>1. /\ pc = "record" /\ run' = run /\ parquet' = parquet /\ begun' = begun
    BY <1>19 DEF Record, Exit, fvars, rvars
  <2>2. ASSUME run.op = "objects", NEW k \in Kinds PROVE parquet[k] = map[k]
    <3>1. k <= LastKind
      BY <2>2 DEF LastKind, Kinds
    <3> QED
      BY <2>1, <3>1 DEF Written, Writing
  <2> QED
    BY <2>1, <2>2 DEF FirstJobWins, Merged, Gathered, ReadAlready, Writing

<1>20. CASE Stop
  BY <1>20 DEF Stop, PcOp, FirstJobWins, Merged, Writing, Ended, Exit, dvars, fvars, rvars

<1>21. ASSUME NEW j \in Jobs, NEW k \in Kinds, CreateDelta(j, k) PROVE FirstJobWins'
  BY <1>21 DEF CreateDelta, PcOp, FirstJobWins, Merged, Writing, Ended, Exit, dvars, fvars, rvars

<1>22. ASSUME NEW j \in Jobs, NEW k \in Kinds, WriteDelta(j, k) PROVE FirstJobWins'
  BY <1>22 DEF WriteDelta, PcOp, FirstJobWins, Merged, Writing, Ended, Exit, dvars, fvars, rvars

<1>23. CASE UNCHANGED vars
  BY <1>23 DEF vars, FirstJobWins, Merged, rvars

<1> QED
  BY <1>1, <1>2, <1>3, <1>4, <1>5, <1>6, <1>7, <1>8, <1>9, <1>10, <1>11, <1>12, <1>13, <1>14,
     <1>15, <1>16, <1>17, <1>18, <1>19, <1>20, <1>21, <1>22, <1>23 DEF Next, Command

LEMMA OrInsertIds ==
    ASSUME NEW m, NEW rows
    PROVE  IdsOf(OrInsert(m, rows)) = IdsOf(m) \cup IdsOf(rows)
BY DEF OrInsert, IdsOf

LEMMA KeptStep == TypeOK /\ PcOp /\ KeptSoFar /\ [Next]_vars => KeptSoFar'
<1> SUFFICES ASSUME TypeOK, PcOp, KeptSoFar, [Next]_vars PROVE KeptSoFar'
  OBVIOUS
<1>1. CASE Start
  <2>1. /\ pc' \notin Writing /\ parquet' = parquet
        /\ kept' = [k \in Kinds |-> IF parquet[k] \in Rows THEN IdsOf(parquet[k]) ELSE kept[k]]
    BY <1>1 DEF Start, FirstStep, Runs, Ops, Writing, fvars
  <2>2. NoFile \notin Rows
    BY IndexAssumption
  <2> QED
    BY <2>1, <2>2 DEF KeptSoFar

<1>2. CASE WriteTable
  BY <1>2 DEF WriteTable, PcOp, KeptSoFar, Writing, Ended, Exit, dvars, fvars, rvars

<1>3. CASE CreateFileIndex
  BY <1>3 DEF CreateFileIndex, PcOp, KeptSoFar, Writing, Ended, Exit, dvars, fvars, rvars

<1>4. CASE FillFileIndex
  BY <1>4 DEF FillFileIndex, AfterScan, PcOp, KeptSoFar, Writing, Ended, dvars, fvars, rvars

<1>5. CASE ScanFails
  BY <1>5 DEF ScanFails, AfterScan, PcOp, KeptSoFar, Writing, Ended, dvars, fvars, rvars

<1>6. CASE ReadDelta
  <2>1. /\ pc = "deltas" /\ pc' \in {"deltas", "existing"} /\ run' = run /\ kept' = kept /\ parquet' = parquet
    BY <1>6 DEF ReadDelta, NextDelta, rvars, fvars
  <2> QED
    BY <2>1 DEF KeptSoFar, Writing

<1>7. CASE Unreadable
  BY <1>7 DEF Unreadable, PcOp, KeptSoFar, Writing, Ended, Exit, dvars, fvars, rvars

<1>8. CASE MergeExisting
  <2>1. /\ pc = "existing" /\ pc' = "parquet" /\ run' = run /\ kept' = kept /\ parquet' = parquet
        /\ \A k \in Kinds : parquet[k] # Torn
        /\ \A k \in Kinds : map'[k] = IF parquet[k] = NoFile THEN map[k] ELSE OrInsert(map[k], parquet[k])
    BY <1>8 DEF MergeExisting, rvars, fvars
  <2>2. NoFile \notin Rows
    BY IndexAssumption
  <2>3. ASSUME run.op = "objects", NEW k \in Kinds
        PROVE  /\ kept[k] \subseteq IdsOf(map'[k])
               /\ parquet[k] \in Rows => IdsOf(parquet[k]) \subseteq IdsOf(map'[k])
    <3>1. CASE parquet[k] = NoFile
      BY <2>2, <3>1 DEF KeptSoFar
    <3>2. CASE parquet[k] \in Rows
      <4>1. IdsOf(map'[k]) = IdsOf(map[k]) \cup IdsOf(parquet[k])
        BY <2>1, <2>2, <3>2, OrInsertIds
      <4>2. kept[k] = IdsOf(parquet[k])
        BY <2>1, <2>3, <3>2 DEF KeptSoFar
      <4> QED
        BY <4>1, <4>2
    <3> QED
      BY <2>1, <3>1, <3>2 DEF TypeOK, Files
  <2> QED
    BY <2>1, <2>3 DEF KeptSoFar

<1>9. CASE Collect
  BY <1>9 DEF Collect, PcOp, KeptSoFar, Writing, Ended, Exit, dvars, fvars, rvars

<1>10. CASE CollectFails
  BY <1>10 DEF CollectFails, PcOp, KeptSoFar, Writing, Ended, Exit, dvars, fvars, rvars

<1>11. CASE CompareJsonl
  BY <1>11 DEF CompareJsonl, PcOp, KeptSoFar, Writing, Ended, Exit, dvars, fvars, rvars

<1>12. CASE CreateJsonl
  BY <1>12 DEF CreateJsonl, PcOp, KeptSoFar, Writing, Ended, Exit, dvars, fvars, rvars

<1>13. CASE FillJsonl
  BY <1>13 DEF FillJsonl, KeptSoFar, PcOp, Writing, Ended, dvars, fvars, rvars

<1>14. CASE ReplayEvent
  BY <1>14 DEF ReplayEvent, PcOp, KeptSoFar, Writing, Ended, Exit, dvars, fvars, rvars

<1>15. CASE ReplayFails
  BY <1>15 DEF ReplayFails, PcOp, KeptSoFar, Writing, Ended, Exit, dvars, fvars, rvars

<1>16. CASE ReplayEnds
  BY <1>16 DEF ReplayEnds, PcOp, KeptSoFar, Writing, Ended, Exit, dvars, fvars, rvars

<1>17. CASE CreateIndex
  <2>1. /\ pc = "parquet" /\ pc' = "parquetFill" /\ map' = map /\ run' = run /\ kept' = kept
        /\ \A k \in Kinds : parquet'[k] = IF k = kind THEN Torn ELSE parquet[k]
    BY <1>17 DEF CreateIndex, TypeOK, rvars
  <2>2. NoFile # Torn /\ Torn \notin Rows
    BY IndexAssumption
  <2> QED
    BY <2>1, <2>2 DEF KeptSoFar, Writing

<1>18. CASE FillIndex
  <2>1. /\ pc = "parquetFill" /\ pc' \in {"parquet", "record"} /\ map' = map /\ run' = run /\ kept' = kept
        /\ \A k \in Kinds : parquet'[k] = IF k = kind THEN map[k] ELSE parquet[k]
    BY <1>18 DEF FillIndex, TypeOK, rvars
  <2>2. NoFile \notin Rows /\ \A k \in Kinds : map[k] \in Rows
    BY IndexAssumption DEF TypeOK
  <2>3. \A k \in Kinds : parquet'[k] = NoFile => kept[k] = {}
    BY <2>1, <2>2 DEF KeptSoFar
  <2>4. run.op = "objects" =>
           \A k \in Kinds : /\ kept[k] \subseteq IdsOf(map[k])
                            /\ parquet[k] \in Rows => IdsOf(parquet[k]) \subseteq IdsOf(map[k])
    BY <2>1 DEF KeptSoFar, Writing
  <2>5. ASSUME run.op = "objects", NEW k \in Kinds
        PROVE  /\ kept'[k] \subseteq IdsOf(map'[k])
               /\ parquet'[k] \in Rows => IdsOf(parquet'[k]) \subseteq IdsOf(map'[k])
    <3>1. CASE k = kind
      BY <2>1, <2>4, <2>5, <3>1
    <3>2. CASE k # kind
      BY <2>1, <2>4, <2>5, <3>2
    <3> QED
      BY <3>1, <3>2
  <2> QED
    BY <2>1, <2>3, <2>5 DEF KeptSoFar, Writing

<1>19. CASE Record
  BY <1>19 DEF Record, PcOp, KeptSoFar, Writing, Ended, Exit, dvars, fvars, rvars

<1>20. CASE Stop
  BY <1>20 DEF Stop, PcOp, KeptSoFar, Writing, Ended, Exit, dvars, fvars, rvars

<1>21. ASSUME NEW j \in Jobs, NEW k \in Kinds, CreateDelta(j, k) PROVE KeptSoFar'
  BY <1>21 DEF CreateDelta, PcOp, KeptSoFar, Writing, Ended, Exit, dvars, fvars, rvars

<1>22. ASSUME NEW j \in Jobs, NEW k \in Kinds, WriteDelta(j, k) PROVE KeptSoFar'
  BY <1>22 DEF WriteDelta, PcOp, KeptSoFar, Writing, Ended, Exit, dvars, fvars, rvars

<1>23. CASE UNCHANGED vars
  BY <1>23 DEF vars, KeptSoFar, Writing, rvars

<1> QED
  BY <1>1, <1>2, <1>3, <1>4, <1>5, <1>6, <1>7, <1>8, <1>9, <1>10, <1>11, <1>12, <1>13, <1>14,
     <1>15, <1>16, <1>17, <1>18, <1>19, <1>20, <1>21, <1>22, <1>23 DEF Next, Command

LEMMA MergeKeepsStep == PcOp /\ KeptSoFar /\ Written /\ MergeKeeps /\ [Next]_vars => MergeKeeps'
<1> SUFFICES ASSUME PcOp, KeptSoFar, Written, MergeKeeps, [Next]_vars PROVE MergeKeeps'
  OBVIOUS
<1>1. CASE Start
  <2>1. pc' # "done"
    BY <1>1 DEF Start, FirstStep, Runs, Ops
  <2> QED
    BY <2>1 DEF MergeKeeps, Merged

<1>2. CASE WriteTable
  BY <1>2 DEF WriteTable, PcOp, MergeKeeps, Merged, Writing, Ended, Exit, dvars, fvars, rvars

<1>3. CASE CreateFileIndex
  BY <1>3 DEF CreateFileIndex, PcOp, MergeKeeps, Merged, Writing, Ended, Exit, dvars, fvars, rvars

<1>4. CASE FillFileIndex
  BY <1>4 DEF FillFileIndex, AfterScan, PcOp, MergeKeeps, Merged, Writing, Ended, dvars, fvars, rvars

<1>5. CASE ScanFails
  BY <1>5 DEF ScanFails, AfterScan, PcOp, MergeKeeps, Merged, Writing, Ended, dvars, fvars, rvars

<1>6. CASE ReadDelta
  BY <1>6 DEF ReadDelta, NextDelta, MergeKeeps, Merged

<1>7. CASE Unreadable
  BY <1>7 DEF Unreadable, PcOp, MergeKeeps, Merged, Writing, Ended, Exit, dvars, fvars, rvars

<1>8. CASE MergeExisting
  BY <1>8 DEF MergeExisting, PcOp, MergeKeeps, Merged, Writing, Ended, Exit, dvars, fvars, rvars

<1>9. CASE Collect
  BY <1>9 DEF Collect, PcOp, MergeKeeps, Merged, Writing, Ended, Exit, dvars, fvars, rvars

<1>10. CASE CollectFails
  BY <1>10 DEF CollectFails, PcOp, MergeKeeps, Merged, Writing, Ended, Exit, dvars, fvars, rvars

<1>11. CASE CompareJsonl
  BY <1>11 DEF CompareJsonl, PcOp, MergeKeeps, Merged, Writing, Ended, Exit, dvars, fvars, rvars

<1>12. CASE CreateJsonl
  BY <1>12 DEF CreateJsonl, PcOp, MergeKeeps, Merged, Writing, Ended, Exit, dvars, fvars, rvars

<1>13. CASE FillJsonl
  BY <1>13 DEF FillJsonl, MergeKeeps, Merged

<1>14. CASE ReplayEvent
  BY <1>14 DEF ReplayEvent, PcOp, MergeKeeps, Merged, Writing, Ended, Exit, dvars, fvars, rvars

<1>15. CASE ReplayFails
  BY <1>15 DEF ReplayFails, PcOp, MergeKeeps, Merged, Writing, Ended, Exit, dvars, fvars, rvars

<1>16. CASE ReplayEnds
  BY <1>16 DEF ReplayEnds, PcOp, MergeKeeps, Merged, Writing, Ended, Exit, dvars, fvars, rvars

<1>17. CASE CreateIndex
  BY <1>17 DEF CreateIndex, PcOp, MergeKeeps, Merged, Writing, Ended, Exit, dvars, fvars, rvars

<1>18. CASE FillIndex
  BY <1>18 DEF FillIndex, PcOp, MergeKeeps, Merged, Writing, Ended, Exit, dvars, fvars, rvars

<1>19. CASE Record
  <2>1. /\ pc = "record" /\ run' = run /\ parquet' = parquet /\ kept' = kept
    BY <1>19 DEF Record, Exit, fvars, rvars
  <2>2. ASSUME run.op = "objects", NEW k \in Kinds PROVE parquet[k] = map[k]
    <3>1. k <= LastKind
      BY <2>2 DEF LastKind, Kinds
    <3> QED
      BY <2>1, <3>1 DEF Written, Writing
  <2> QED
    BY <2>1, <2>2 DEF MergeKeeps, Merged, KeptSoFar, Writing

<1>20. CASE Stop
  BY <1>20 DEF Stop, PcOp, MergeKeeps, Merged, Writing, Ended, Exit, dvars, fvars, rvars

<1>21. ASSUME NEW j \in Jobs, NEW k \in Kinds, CreateDelta(j, k) PROVE MergeKeeps'
  BY <1>21 DEF CreateDelta, PcOp, MergeKeeps, Merged, Writing, Ended, Exit, dvars, fvars, rvars

<1>22. ASSUME NEW j \in Jobs, NEW k \in Kinds, WriteDelta(j, k) PROVE MergeKeeps'
  BY <1>22 DEF WriteDelta, PcOp, MergeKeeps, Merged, Writing, Ended, Exit, dvars, fvars, rvars

<1>23. CASE UNCHANGED vars
  BY <1>23 DEF vars, MergeKeeps, Merged, rvars

<1> QED
  BY <1>1, <1>2, <1>3, <1>4, <1>5, <1>6, <1>7, <1>8, <1>9, <1>10, <1>11, <1>12, <1>13, <1>14,
     <1>15, <1>16, <1>17, <1>18, <1>19, <1>20, <1>21, <1>22, <1>23 DEF Next, Command

LEMMA RenderedStep == TypeOK /\ PcOp /\ Rendered /\ [Next]_vars => Rendered'
<1> SUFFICES ASSUME TypeOK, PcOp, Rendered, [Next]_vars PROVE Rendered'
  OBVIOUS
<1>1. CASE Start
  <2>1. pc' \notin {"compare", "jsonl", "jsonlFill"} /\ jsonl' = jsonl /\ basis' = basis
    BY <1>1 DEF Start, FirstStep, Runs, Ops, fvars
  <2> QED
    BY <2>1 DEF Rendered

<1>2. CASE WriteTable
  BY <1>2 DEF WriteTable, PcOp, Rendered, Ended, Exit, FoundIds, Indexed, dvars, fvars, rvars

<1>3. CASE CreateFileIndex
  BY <1>3 DEF CreateFileIndex, PcOp, Rendered, Ended, Exit, FoundIds, Indexed, dvars, fvars, rvars

<1>4. CASE FillFileIndex
  BY <1>4 DEF FillFileIndex, AfterScan, Rendered, dvars, fvars, rvars

<1>5. CASE ScanFails
  BY <1>5 DEF ScanFails, AfterScan, Rendered, dvars, fvars, rvars

<1>6. CASE ReadDelta
  BY <1>6 DEF ReadDelta, NextDelta, Rendered, dvars, fvars, rvars

<1>7. CASE Unreadable
  BY <1>7 DEF Unreadable, PcOp, Rendered, Ended, Exit, FoundIds, Indexed, dvars, fvars, rvars

<1>8. CASE MergeExisting
  BY <1>8 DEF MergeExisting, PcOp, Rendered, Ended, Exit, FoundIds, Indexed, dvars, fvars, rvars

<1>9. CASE Collect
  <2>1. /\ pc' \in {"compare", "jsonl"} /\ kind' = 1 /\ run' = run /\ FoundIds' = FoundIds
        /\ jsonl' = jsonl /\ basis' = basis
        /\ \A k \in Kinds : map'[k] = Render(FoundIds, run.hash, k)
    BY <1>9 DEF Collect, PcOp, FoundIds, Indexed, rvars, fvars
  <2>2. \A k \in Kinds : ~(k < 1)
    BY DEF Kinds
  <2> QED
    BY <2>1, <2>2 DEF Rendered

<1>10. CASE CollectFails
  BY <1>10 DEF CollectFails, PcOp, Rendered, Ended, Exit, FoundIds, Indexed, dvars, fvars, rvars

<1>11. CASE CompareJsonl
  <2>1. /\ pc = "compare" /\ run' = run /\ FoundIds' = FoundIds /\ jsonl' = jsonl /\ basis' = basis
        /\ \/ pc' = "jsonl" /\ kind' = kind /\ map' = map
           \/ pc' = "refused"
    BY <1>11 DEF CompareJsonl, Exit, FoundIds, Indexed, rvars, fvars
  <2>2. kind = 1 /\ \A k \in Kinds : ~(k < 1)
    BY <2>1 DEF PcOp, Kinds
  <2> QED
    BY <2>1, <2>2 DEF Rendered

<1>12. CASE CreateJsonl
  <2>1. /\ pc = "jsonl" /\ pc' = "jsonlFill" /\ run' = run /\ FoundIds' = FoundIds /\ basis' = NoBasis
        /\ map' = map /\ kind' = kind
        /\ \A k \in Kinds \ {kind} : jsonl'[k] = jsonl[k]
    BY <1>12 DEF CreateJsonl, FoundIds, Indexed, rvars, TypeOK
  <2> QED
    BY <2>1 DEF Rendered, TypeOK, Kinds

<1>13. CASE FillJsonl
  <2>1. /\ pc = "jsonlFill" /\ run' = run /\ FoundIds' = FoundIds /\ map' = map
        /\ \A k \in Kinds : jsonl'[k] = IF k = kind THEN map[k] ELSE jsonl[k]
    BY <1>13 DEF FillJsonl, FoundIds, Indexed, rvars, TypeOK
  <2>2. /\ \A k \in Kinds : map[k] = Render(FoundIds, run.hash, k)
        /\ \A k \in Kinds : k < kind => jsonl[k] = map[k]
        /\ basis = NoBasis
    BY <2>1 DEF Rendered
  <2>3. kind \in 1 .. NKinds /\ NKinds \in Nat
    BY IndexAssumption DEF TypeOK, Kinds
  <2>4. CASE kind < NKinds
    <3>1. pc' = "jsonl" /\ kind' = kind + 1 /\ basis' = basis
      BY <1>13, <2>4 DEF FillJsonl
    <3>2. \A k \in Kinds : k < kind + 1 => k = kind \/ k < kind
      BY <2>3 DEF Kinds
    <3> QED
      BY <2>1, <2>2, <3>1, <3>2 DEF Rendered
  <2>5. CASE ~(kind < NKinds)
    <3>1. pc' = "parquet" /\ basis' = [ids |-> FoundIds, hash |-> run.hash]
      BY <1>13, <2>5 DEF FillJsonl
    <3>2. \A k \in Kinds : k = kind \/ k < kind
      BY <2>3, <2>5 DEF Kinds
    <3>3. \A k \in Kinds : jsonl'[k] = Render(FoundIds, run.hash, k)
      BY <2>1, <2>2, <3>2
    <3> QED
      BY <2>1, <3>1, <3>3 DEF Rendered
  <2> QED
    BY <2>4, <2>5

<1>14. CASE ReplayEvent
  BY <1>14 DEF ReplayEvent, PcOp, Rendered, Ended, Exit, FoundIds, Indexed, dvars, fvars, rvars

<1>15. CASE ReplayFails
  BY <1>15 DEF ReplayFails, PcOp, Rendered, Ended, Exit, FoundIds, Indexed, dvars, fvars, rvars

<1>16. CASE ReplayEnds
  BY <1>16 DEF ReplayEnds, PcOp, Rendered, Ended, Exit, FoundIds, Indexed, dvars, fvars, rvars

<1>17. CASE CreateIndex
  BY <1>17 DEF CreateIndex, PcOp, Rendered, Ended, Exit, FoundIds, Indexed, dvars, fvars, rvars

<1>18. CASE FillIndex
  BY <1>18 DEF FillIndex, Rendered, dvars, fvars, rvars

<1>19. CASE Record
  BY <1>19 DEF Record, PcOp, Rendered, Ended, Exit, FoundIds, Indexed, dvars, fvars, rvars

<1>20. CASE Stop
  BY <1>20 DEF Stop, PcOp, Rendered, Ended, Exit, FoundIds, Indexed, dvars, fvars, rvars

<1>21. ASSUME NEW j \in Jobs, NEW k \in Kinds, CreateDelta(j, k) PROVE Rendered'
  BY <1>21 DEF CreateDelta, PcOp, Rendered, Ended, Exit, FoundIds, Indexed, dvars, fvars, rvars

<1>22. ASSUME NEW j \in Jobs, NEW k \in Kinds, WriteDelta(j, k) PROVE Rendered'
  BY <1>22 DEF WriteDelta, PcOp, Rendered, Ended, Exit, FoundIds, Indexed, dvars, fvars, rvars

<1>23. CASE UNCHANGED vars
  BY <1>23 DEF vars, Rendered, FoundIds, Indexed, rvars

<1> QED
  BY <1>1, <1>2, <1>3, <1>4, <1>5, <1>6, <1>7, <1>8, <1>9, <1>10, <1>11, <1>12, <1>13, <1>14,
     <1>15, <1>16, <1>17, <1>18, <1>19, <1>20, <1>21, <1>22, <1>23 DEF Next, Command

LEMMA RefusedStep == TypeOK /\ PcOp /\ Rendered /\ RefusedForReason /\ [Next]_vars => RefusedForReason'
<1> SUFFICES ASSUME TypeOK, PcOp, Rendered, RefusedForReason, [Next]_vars PROVE RefusedForReason'
  OBVIOUS
<1>1. CASE Start
  <2>1. pc' # "refused"
    BY <1>1 DEF Start, FirstStep, Runs, Ops
  <2> QED
    BY <2>1 DEF RefusedForReason

<1>2. CASE WriteTable
  BY <1>2 DEF WriteTable, RefusedForReason, Ended, Exit, FoundIds, Indexed, dvars, fvars, rvars

<1>3. CASE CreateFileIndex
  BY <1>3 DEF CreateFileIndex, RefusedForReason, Ended, Exit, FoundIds, Indexed, dvars, fvars, rvars

<1>4. CASE FillFileIndex
  BY <1>4 DEF FillFileIndex, AfterScan, RefusedForReason, dvars, fvars, rvars

<1>5. CASE ScanFails
  BY <1>5 DEF ScanFails, AfterScan, RefusedForReason, dvars, fvars, rvars

<1>6. CASE ReadDelta
  BY <1>6 DEF ReadDelta, NextDelta, RefusedForReason, dvars, fvars, rvars

<1>7. CASE Unreadable
  BY <1>7 DEF Unreadable, RefusedForReason, Ended, Exit, FoundIds, Indexed, dvars, fvars, rvars

<1>8. CASE MergeExisting
  BY <1>8 DEF MergeExisting, RefusedForReason, Ended, Exit, FoundIds, Indexed, dvars, fvars, rvars

<1>9. CASE Collect
  BY <1>9 DEF Collect, RefusedForReason, Ended, Exit, FoundIds, Indexed, dvars, fvars, rvars

<1>10. CASE CollectFails
  BY <1>10 DEF CollectFails, RefusedForReason, Ended, Exit, FoundIds, Indexed, dvars, fvars, rvars

<1>11. CASE CompareJsonl
  <2>1. pc = "compare" /\ run' = run /\ FoundIds' = FoundIds /\ basis' = basis
    BY <1>11 DEF CompareJsonl, Exit, FoundIds, Indexed, rvars, fvars
  <2>2. SUFFICES ASSUME pc' = "refused", basis = [ids |-> FoundIds, hash |-> run.hash] PROVE FALSE
    BY <2>1 DEF RefusedForReason
  <2>3. PICK k \in Kinds : jsonl[k] \notin {NoFile, map[k]}
    BY <1>11, <2>2 DEF CompareJsonl, SafeRewrite
  <2>4. map[k] = Render(FoundIds, run.hash, k)
    BY <2>1 DEF Rendered
  <2>5. CASE basis = NoBasis
    <3>1. [ids |-> FoundIds, hash |-> run.hash] \in [ids : SUBSET Ids, hash : HashModes]
      BY FoundIdsType DEF TypeOK, Runs
    <3> QED
      BY <2>2, <2>5, <3>1, IndexAssumption
  <2>6. CASE basis # NoBasis
    <3>1. basis.ids = FoundIds /\ basis.hash = run.hash
      BY <2>2
    <3>2. jsonl[k] = Render(FoundIds, run.hash, k)
      BY <2>6, <3>1 DEF Rendered
    <3> QED
      BY <2>3, <2>4, <3>2
  <2> QED
    BY <2>5, <2>6

<1>12. CASE CreateJsonl
  BY <1>12 DEF CreateJsonl, RefusedForReason, Ended, Exit, FoundIds, Indexed, dvars, fvars, rvars

<1>13. CASE FillJsonl
  BY <1>13 DEF FillJsonl, RefusedForReason, Ended, Exit, FoundIds, Indexed, dvars, fvars, rvars

<1>14. CASE ReplayEvent
  BY <1>14 DEF ReplayEvent, RefusedForReason, Ended, Exit, FoundIds, Indexed, dvars, fvars, rvars

<1>15. CASE ReplayFails
  BY <1>15 DEF ReplayFails, RefusedForReason, Ended, Exit, FoundIds, Indexed, dvars, fvars, rvars

<1>16. CASE ReplayEnds
  BY <1>16 DEF ReplayEnds, RefusedForReason, Ended, Exit, FoundIds, Indexed, dvars, fvars, rvars

<1>17. CASE CreateIndex
  BY <1>17 DEF CreateIndex, RefusedForReason, Ended, Exit, FoundIds, Indexed, dvars, fvars, rvars

<1>18. CASE FillIndex
  BY <1>18 DEF FillIndex, RefusedForReason, Ended, Exit, FoundIds, Indexed, dvars, fvars, rvars

<1>19. CASE Record
  BY <1>19 DEF Record, RefusedForReason, Ended, Exit, FoundIds, Indexed, dvars, fvars, rvars

<1>20. CASE Stop
  BY <1>20 DEF Stop, RefusedForReason, Ended, Exit, FoundIds, Indexed, dvars, fvars, rvars

<1>21. ASSUME NEW j \in Jobs, NEW k \in Kinds, CreateDelta(j, k) PROVE RefusedForReason'
  BY <1>21 DEF CreateDelta, RefusedForReason, Ended, Exit, FoundIds, Indexed, dvars, fvars, rvars

<1>22. ASSUME NEW j \in Jobs, NEW k \in Kinds, WriteDelta(j, k) PROVE RefusedForReason'
  BY <1>22 DEF WriteDelta, RefusedForReason, Ended, Exit, FoundIds, Indexed, dvars, fvars, rvars

<1>23. CASE UNCHANGED vars
  BY <1>23 DEF vars, RefusedForReason, FoundIds, Indexed, rvars

<1> QED
  BY <1>1, <1>2, <1>3, <1>4, <1>5, <1>6, <1>7, <1>8, <1>9, <1>10, <1>11, <1>12, <1>13, <1>14,
     <1>15, <1>16, <1>17, <1>18, <1>19, <1>20, <1>21, <1>22, <1>23 DEF Next, Command

LEMMA LastPutNext ==
    ASSUME NEW i, NEW n \in Nat
    PROVE  LastPut(i, n + 1) <=> \/ log[n + 1].type = "put" /\ log[n + 1].id = i
                                 \/ LastPut(i, n) /\ ~(log[n + 1].type = "removed" /\ log[n + 1].id = i)
<1> DEFINE puts(m) == log[m].type = "put" /\ log[m].id = i
           drops(l) == log[l].type = "removed" /\ log[l].id = i
<1>1. \A m : LastPut(i, m) <=> \E j \in 1 .. m : puts(j) /\ \A l \in j + 1 .. m : ~drops(l)
  BY DEF LastPut
<1>2. ~(puts(n + 1) /\ drops(n + 1))
  OBVIOUS
<1> HIDE DEF puts, drops
<1>3. ASSUME NEW j \in 1 .. n + 1, puts(j), \A l \in j + 1 .. n + 1 : ~drops(l)
      PROVE  puts(n + 1) \/ (LastPut(i, n) /\ ~drops(n + 1))
  <2>1. CASE j = n + 1
    BY <1>3, <2>1
  <2>2. CASE j # n + 1
    <3>1. j \in 1 .. n /\ n + 1 \in j + 1 .. n + 1 /\ j + 1 .. n \subseteq j + 1 .. n + 1
      BY <2>2
    <3> QED
      BY <1>1, <1>3, <3>1
  <2> QED
    BY <2>1, <2>2
<1>4. ASSUME puts(n + 1) PROVE LastPut(i, n + 1)
  <2>1. n + 1 \in 1 .. n + 1 /\ (n + 1) + 1 .. n + 1 = {}
    OBVIOUS
  <2> QED
    BY <1>1, <1>4, <2>1
<1>5. ASSUME LastPut(i, n), ~drops(n + 1) PROVE LastPut(i, n + 1)
  <2>1. PICK j \in 1 .. n : puts(j) /\ \A l \in j + 1 .. n : ~drops(l)
    BY <1>1, <1>5
  <2>2. j \in 1 .. n + 1 /\ \A l \in j + 1 .. n + 1 : l \in j + 1 .. n \/ l = n + 1
    OBVIOUS
  <2> QED
    BY <1>1, <1>5, <2>1, <2>2
<1>6. LastPut(i, n + 1) <=> puts(n + 1) \/ (LastPut(i, n) /\ ~drops(n + 1))
  BY <1>1, <1>3, <1>4, <1>5
<1> QED
  BY <1>6 DEF puts, drops

LEMMA Applied ==
    ASSUME NEW rows \in Rows, NEW e \in Event, NEW i \in Ids
    PROVE  Apply(rows, e)[i] # Absent <=> \/ e.type = "put" /\ e.id = i
                                          \/ rows[i] # Absent /\ ~(e.type = "removed" /\ e.id = i)
<1>1. FromEvents # Absent
  BY IndexAssumption DEF Sources
<1> QED
  BY <1>1 DEF Apply, Rows, Event

LEMMA ReplayedStep == TypeOK /\ PcOp /\ ReplayedSoFar /\ [Next]_vars => ReplayedSoFar'
<1> SUFFICES ASSUME TypeOK, PcOp, ReplayedSoFar, [Next]_vars PROVE ReplayedSoFar'
  OBVIOUS
<1>1. CASE Start
  <2>1. PICK r \in Runs : run' = r /\ pc' \in {FirstStep(r.op), "skipped"} /\ (r.op = "replay" => item' = 1)
    BY <1>1 DEF Start
  <2>2. log' = log /\ map' = [k \in Kinds |-> NoRows]
    BY <1>1 DEF Start, dvars
  <2>3. \A i \in Ids : map'[1][i] = Absent
    BY <2>2, OneIsAKind DEF NoRows
  <2>4. \A i \in Ids : ~LastPut(i, 0)'
    BY DEF LastPut
  <2>5. log # NoLog => Len(log) \in Nat
    BY IndexAssumption DEF TypeOK
  <2>6. r.op = "replay" => pc' \in {"replay", "skipped"}
    BY <2>1 DEF FirstStep
  <2> QED
    BY <2>1, <2>2, <2>3, <2>4, <2>5, <2>6 DEF ReplayedSoFar, Writing

<1>2. CASE WriteTable
  BY <1>2 DEF WriteTable, PcOp, ReplayedSoFar, LastPut, Writing, Ended, Exit, dvars, fvars, rvars

<1>3. CASE CreateFileIndex
  BY <1>3 DEF CreateFileIndex, PcOp, ReplayedSoFar, LastPut, Writing, Ended, Exit, dvars, fvars, rvars

<1>4. CASE FillFileIndex
  BY <1>4 DEF FillFileIndex, AfterScan, PcOp, ReplayedSoFar, Writing, Ended, dvars, fvars, rvars

<1>5. CASE ScanFails
  BY <1>5 DEF ScanFails, AfterScan, PcOp, ReplayedSoFar, Writing, Ended, dvars, fvars, rvars

<1>6. CASE ReadDelta
  BY <1>6 DEF ReadDelta, PcOp, ReplayedSoFar, Writing, Ended, dvars, fvars, rvars

<1>7. CASE Unreadable
  BY <1>7 DEF Unreadable, PcOp, ReplayedSoFar, LastPut, Writing, Ended, Exit, dvars, fvars, rvars

<1>8. CASE MergeExisting
  BY <1>8 DEF MergeExisting, PcOp, ReplayedSoFar, LastPut, Writing, Ended, Exit, dvars, fvars, rvars

<1>9. CASE Collect
  BY <1>9 DEF Collect, PcOp, ReplayedSoFar, LastPut, Writing, Ended, Exit, dvars, fvars, rvars

<1>10. CASE CollectFails
  BY <1>10 DEF CollectFails, PcOp, ReplayedSoFar, LastPut, Writing, Ended, Exit, dvars, fvars, rvars

<1>11. CASE CompareJsonl
  BY <1>11 DEF CompareJsonl, PcOp, ReplayedSoFar, LastPut, Writing, Ended, Exit, dvars, fvars, rvars

<1>12. CASE CreateJsonl
  BY <1>12 DEF CreateJsonl, PcOp, ReplayedSoFar, LastPut, Writing, Ended, Exit, dvars, fvars, rvars

<1>13. CASE FillJsonl
  BY <1>13 DEF FillJsonl, PcOp, ReplayedSoFar, Writing, Ended, dvars, fvars, rvars

<1>14. CASE ReplayEvent
  <2>1. /\ pc = "replay" /\ pc' = "replay" /\ run' = run /\ log' = log /\ log # NoLog
        /\ item <= Len(log) /\ item' = item + 1
        /\ map' = [map EXCEPT ![1] = Apply(map[1], log[item])]
    BY <1>14 DEF ReplayEvent, dvars, rvars
  <2>2. log \in Seq(Event) /\ Len(log) \in Nat /\ item \in Nat \ {0} /\ map[1] \in Rows
    BY <2>1, IndexAssumption, OneIsAKind DEF TypeOK, PcOp
  <2>3. item \in 1 .. Len(log) /\ log[item] \in Event
    BY <2>1, <2>2
  <2>4. map'[1] = Apply(map[1], log[item])
    BY <2>1, OneIsAKind DEF TypeOK
  <2>5. ASSUME run.op = "replay", NEW i \in Ids PROVE map'[1][i] # Absent <=> LastPut(i, item)
    <3>1. map[1][i] # Absent <=> LastPut(i, item - 1)
      BY <2>1, <2>5 DEF ReplayedSoFar
    <3>2. item - 1 \in Nat /\ (item - 1) + 1 = item
      BY <2>2
    <3>3. LastPut(i, item) <=> \/ log[item].type = "put" /\ log[item].id = i
                               \/ LastPut(i, item - 1) /\ ~(log[item].type = "removed" /\ log[item].id = i)
      BY <3>2, LastPutNext
    <3> QED
      BY <2>2, <2>3, <2>4, <3>1, <3>3, Applied
  <2>6. item' <= Len(log) + 1 /\ item' - 1 = item
    BY <2>1, <2>2
  <2>7. \A i : LastPut(i, item - 1)' <=> LastPut(i, item)
    BY <2>1, <2>6 DEF LastPut
  <2> QED
    BY <2>1, <2>5, <2>6, <2>7 DEF ReplayedSoFar, Writing

<1>15. CASE ReplayFails
  BY <1>15 DEF ReplayFails, PcOp, ReplayedSoFar, LastPut, Writing, Ended, Exit, dvars, fvars, rvars

<1>16. CASE ReplayEnds
  <2>1. /\ pc = "replay" /\ pc' = "parquet" /\ run' = run /\ log' = log /\ map' = map
        /\ log # NoLog /\ item > Len(log)
    BY <1>16 DEF ReplayEnds, dvars, rvars
  <2>2. Len(log) \in Nat /\ item \in Nat
    BY <2>1, IndexAssumption DEF TypeOK
  <2>3. run.op = "replay" => item - 1 = Len(log) /\ \A i \in Ids : map[1][i] # Absent <=> LastPut(i, Len(log))
    BY <2>1, <2>2 DEF ReplayedSoFar
  <2> QED
    BY <2>1, <2>3 DEF ReplayedSoFar, LastPut

<1>17. CASE CreateIndex
  BY <1>17 DEF CreateIndex, PcOp, ReplayedSoFar, LastPut, Writing, Ended, Exit, dvars, fvars, rvars

<1>18. CASE FillIndex
  BY <1>18 DEF FillIndex, ReplayedSoFar, LastPut, Writing, dvars, fvars, rvars

<1>19. CASE Record
  BY <1>19 DEF Record, PcOp, ReplayedSoFar, LastPut, Writing, Ended, Exit, dvars, fvars, rvars

<1>20. CASE Stop
  BY <1>20 DEF Stop, PcOp, ReplayedSoFar, LastPut, Writing, Ended, Exit, dvars, fvars, rvars

<1>21. ASSUME NEW j \in Jobs, NEW k \in Kinds, CreateDelta(j, k) PROVE ReplayedSoFar'
  BY <1>21 DEF CreateDelta, PcOp, ReplayedSoFar, LastPut, Writing, Ended, Exit, dvars, fvars, rvars

<1>22. ASSUME NEW j \in Jobs, NEW k \in Kinds, WriteDelta(j, k) PROVE ReplayedSoFar'
  BY <1>22 DEF WriteDelta, PcOp, ReplayedSoFar, LastPut, Writing, Ended, Exit, dvars, fvars, rvars

<1>23. CASE UNCHANGED vars
  BY <1>23 DEF vars, ReplayedSoFar, LastPut, Writing, rvars

<1> QED
  BY <1>1, <1>2, <1>3, <1>4, <1>5, <1>6, <1>7, <1>8, <1>9, <1>10, <1>11, <1>12, <1>13, <1>14,
     <1>15, <1>16, <1>17, <1>18, <1>19, <1>20, <1>21, <1>22, <1>23 DEF Next, Command

LEMMA LastEventStep == TypeOK /\ PcOp /\ ReplayedSoFar /\ Written /\ ReplayIsLastEvent /\ [Next]_vars => ReplayIsLastEvent'
<1> SUFFICES ASSUME TypeOK, PcOp, ReplayedSoFar, Written, ReplayIsLastEvent, [Next]_vars PROVE ReplayIsLastEvent'
  OBVIOUS
<1>1. CASE Start
  <2>1. pc' # "done"
    BY <1>1 DEF Start, FirstStep, Runs, Ops
  <2> QED
    BY <2>1 DEF ReplayIsLastEvent

<1>2. CASE WriteTable
  BY <1>2 DEF WriteTable, PcOp, ReplayIsLastEvent, Writing, Ended, Exit, dvars, fvars, rvars

<1>3. CASE CreateFileIndex
  BY <1>3 DEF CreateFileIndex, PcOp, ReplayIsLastEvent, Writing, Ended, Exit, dvars, fvars, rvars

<1>4. CASE FillFileIndex
  BY <1>4 DEF FillFileIndex, AfterScan, PcOp, ReplayIsLastEvent, Writing, Ended, dvars, fvars, rvars

<1>5. CASE ScanFails
  BY <1>5 DEF ScanFails, AfterScan, PcOp, ReplayIsLastEvent, Writing, Ended, dvars, fvars, rvars

<1>6. CASE ReadDelta
  BY <1>6 DEF ReadDelta, NextDelta, ReplayIsLastEvent

<1>7. CASE Unreadable
  BY <1>7 DEF Unreadable, PcOp, ReplayIsLastEvent, Writing, Ended, Exit, dvars, fvars, rvars

<1>8. CASE MergeExisting
  BY <1>8 DEF MergeExisting, PcOp, ReplayIsLastEvent, Writing, Ended, Exit, dvars, fvars, rvars

<1>9. CASE Collect
  BY <1>9 DEF Collect, PcOp, ReplayIsLastEvent, Writing, Ended, Exit, dvars, fvars, rvars

<1>10. CASE CollectFails
  BY <1>10 DEF CollectFails, PcOp, ReplayIsLastEvent, Writing, Ended, Exit, dvars, fvars, rvars

<1>11. CASE CompareJsonl
  BY <1>11 DEF CompareJsonl, PcOp, ReplayIsLastEvent, Writing, Ended, Exit, dvars, fvars, rvars

<1>12. CASE CreateJsonl
  BY <1>12 DEF CreateJsonl, PcOp, ReplayIsLastEvent, Writing, Ended, Exit, dvars, fvars, rvars

<1>13. CASE FillJsonl
  BY <1>13 DEF FillJsonl, ReplayIsLastEvent

<1>14. CASE ReplayEvent
  BY <1>14 DEF ReplayEvent, PcOp, ReplayIsLastEvent, Writing, Ended, Exit, dvars, fvars, rvars

<1>15. CASE ReplayFails
  BY <1>15 DEF ReplayFails, PcOp, ReplayIsLastEvent, Writing, Ended, Exit, dvars, fvars, rvars

<1>16. CASE ReplayEnds
  BY <1>16 DEF ReplayEnds, PcOp, ReplayIsLastEvent, Writing, Ended, Exit, dvars, fvars, rvars

<1>17. CASE CreateIndex
  BY <1>17 DEF CreateIndex, PcOp, ReplayIsLastEvent, Writing, Ended, Exit, dvars, fvars, rvars

<1>18. CASE FillIndex
  BY <1>18 DEF FillIndex, PcOp, ReplayIsLastEvent, Writing, Ended, Exit, dvars, fvars, rvars

<1>19. CASE Record
  <2>1. /\ pc = "record" /\ run' = run /\ parquet' = parquet /\ log' = log
    BY <1>19 DEF Record, Exit, dvars, fvars, rvars
  <2>2. ASSUME run.op = "replay", NEW i \in Ids
        PROVE  parquet[1][i] # Absent <=>
                 \E n \in DOMAIN log : /\ log[n].type = "put" /\ log[n].id = i
                                       /\ \A m \in n + 1 .. Len(log) :
                                             ~(log[m].type = "removed" /\ log[m].id = i)
    <3>1. parquet[1] = map[1]
      BY <2>1, <2>2, OneIsAKind DEF Written, Writing, LastKind
    <3>2. log # NoLog /\ (map[1][i] # Absent <=> LastPut(i, Len(log)))
      BY <2>1, <2>2 DEF ReplayedSoFar, Writing
    <3>3. DOMAIN log = 1 .. Len(log)
      BY <3>2, IndexAssumption DEF TypeOK
    <3> QED
      BY <3>1, <3>2, <3>3 DEF LastPut
  <2> QED
    BY <2>1, <2>2 DEF ReplayIsLastEvent

<1>20. CASE Stop
  BY <1>20 DEF Stop, PcOp, ReplayIsLastEvent, Writing, Ended, Exit, dvars, fvars, rvars

<1>21. ASSUME NEW j \in Jobs, NEW k \in Kinds, CreateDelta(j, k) PROVE ReplayIsLastEvent'
  BY <1>21 DEF CreateDelta, PcOp, ReplayIsLastEvent, Writing, Ended, Exit, dvars, fvars, rvars

<1>22. ASSUME NEW j \in Jobs, NEW k \in Kinds, WriteDelta(j, k) PROVE ReplayIsLastEvent'
  BY <1>22 DEF WriteDelta, PcOp, ReplayIsLastEvent, Writing, Ended, Exit, dvars, fvars, rvars

<1>23. CASE UNCHANGED vars
  BY <1>23 DEF vars, ReplayIsLastEvent, rvars

<1> QED
  BY <1>1, <1>2, <1>3, <1>4, <1>5, <1>6, <1>7, <1>8, <1>9, <1>10, <1>11, <1>12, <1>13, <1>14,
     <1>15, <1>16, <1>17, <1>18, <1>19, <1>20, <1>21, <1>22, <1>23 DEF Next, Command

(* What the file indexes and the object deltas name only grows.            *)

Grows == KnownFs \subseteq KnownFs' /\ KnownJobs \subseteq KnownJobs'

LEMMA KnownGrows == TypeOK /\ [Next]_vars => Grows
<1> SUFFICES ASSUME TypeOK, [Next]_vars PROVE Grows
  OBVIOUS
<1>1. CASE Start
  BY <1>1 DEF Start, Grows, KnownFs, KnownJobs, dvars, fvars, rvars

<1>2. CASE WriteTable
  BY <1>2 DEF WriteTable, Grows, KnownFs, KnownJobs, dvars, fvars, rvars

<1>3. CASE CreateFileIndex
  <2>1. \A f \in Filesystems : fileIndex'[f] = fileIndex[f] \/ fileIndex'[f] = Torn
    BY <1>3 DEF CreateFileIndex, TypeOK
  <2>2. NoFile # Torn /\ delta' = delta
    BY <1>3, IndexAssumption DEF CreateFileIndex, dvars
  <2> QED
    BY <2>1, <2>2 DEF Grows, KnownFs, KnownJobs

<1>4. CASE FillFileIndex
  <2>1. \A f \in Filesystems : fileIndex'[f] = fileIndex[f] \/ fileIndex'[f] = Whole
    BY <1>4 DEF FillFileIndex, TypeOK
  <2>2. NoFile # Whole /\ delta' = delta
    BY <1>4, IndexAssumption DEF FillFileIndex, dvars
  <2> QED
    BY <2>1, <2>2 DEF Grows, KnownFs, KnownJobs

<1>5. CASE ScanFails
  BY <1>5 DEF ScanFails, Grows, KnownFs, KnownJobs, dvars, fvars, rvars

<1>6. CASE ReadDelta
  BY <1>6 DEF ReadDelta, Grows, KnownFs, KnownJobs, dvars, fvars, rvars

<1>7. CASE Unreadable
  BY <1>7 DEF Unreadable, Grows, KnownFs, KnownJobs, dvars, fvars, rvars

<1>8. CASE MergeExisting
  BY <1>8 DEF MergeExisting, Grows, KnownFs, KnownJobs, dvars, fvars, rvars

<1>9. CASE Collect
  BY <1>9 DEF Collect, Grows, KnownFs, KnownJobs, dvars, fvars, rvars

<1>10. CASE CollectFails
  BY <1>10 DEF CollectFails, Grows, KnownFs, KnownJobs, dvars, fvars, rvars

<1>11. CASE CompareJsonl
  BY <1>11 DEF CompareJsonl, Grows, KnownFs, KnownJobs, dvars, fvars, rvars

<1>12. CASE CreateJsonl
  BY <1>12 DEF CreateJsonl, Grows, KnownFs, KnownJobs, dvars, fvars, rvars

<1>13. CASE FillJsonl
  BY <1>13 DEF FillJsonl, Grows, KnownFs, KnownJobs, dvars, fvars, rvars

<1>14. CASE ReplayEvent
  BY <1>14 DEF ReplayEvent, Grows, KnownFs, KnownJobs, dvars, fvars, rvars

<1>15. CASE ReplayFails
  BY <1>15 DEF ReplayFails, Grows, KnownFs, KnownJobs, dvars, fvars, rvars

<1>16. CASE ReplayEnds
  BY <1>16 DEF ReplayEnds, Grows, KnownFs, KnownJobs, dvars, fvars, rvars

<1>17. CASE CreateIndex
  BY <1>17 DEF CreateIndex, Grows, KnownFs, KnownJobs, dvars, fvars, rvars

<1>18. CASE FillIndex
  BY <1>18 DEF FillIndex, Grows, KnownFs, KnownJobs, dvars, fvars, rvars

<1>19. CASE Record
  BY <1>19 DEF Record, Grows, KnownFs, KnownJobs, dvars, fvars, rvars

<1>20. CASE Stop
  BY <1>20 DEF Stop, Grows, KnownFs, KnownJobs, dvars, fvars, rvars

<1>21. ASSUME NEW j \in Jobs, NEW k \in Kinds, CreateDelta(j, k) PROVE Grows
  <2>1. delta' = [delta EXCEPT ![j] = [delta[j] EXCEPT ![k] = Partial]] /\ delta[j][k] # Whole
    BY <1>21, IndexAssumption DEF CreateDelta
  <2>2. \A h \in Jobs : delta[h][1] = Whole => delta'[h][1] = Whole
    BY <2>1, OneIsAKind DEF TypeOK
  <2> QED
    BY <1>21, <2>2 DEF CreateDelta, Grows, KnownFs, KnownJobs, fvars

<1>22. ASSUME NEW j \in Jobs, NEW k \in Kinds, WriteDelta(j, k) PROVE Grows
  <2>1. PICK c \in {Torn, Whole} : delta' = [delta EXCEPT ![j] = [delta[j] EXCEPT ![k] = c]]
    BY <1>22 DEF WriteDelta
  <2>2. delta[j][k] # Whole
    BY <1>22, IndexAssumption DEF WriteDelta
  <2>3. \A h \in Jobs : delta[h][1] = Whole => delta'[h][1] = Whole
    BY <2>1, <2>2, OneIsAKind DEF TypeOK
  <2> QED
    BY <1>22, <2>3 DEF WriteDelta, Grows, KnownFs, KnownJobs, fvars

<1>23. CASE UNCHANGED vars
  BY <1>23 DEF vars, Grows, KnownFs, KnownJobs

<1> QED
  BY <1>1, <1>2, <1>3, <1>4, <1>5, <1>6, <1>7, <1>8, <1>9, <1>10, <1>11, <1>12, <1>13, <1>14,
     <1>15, <1>16, <1>17, <1>18, <1>19, <1>20, <1>21, <1>22, <1>23 DEF Next, Command

LEMMA MapIsRows == TypeOK => \A k \in Kinds : map[k] \in Rows /\ map[k] # NoFile /\ Torn \notin Rows
BY IndexAssumption DEF TypeOK

LEMMA WrittenFirst == Written /\ TypeOK /\ pc \in Writing /\ kind # 1 => parquet[1] = map[1]
<1> SUFFICES ASSUME Written, TypeOK, pc \in Writing, kind # 1 PROVE parquet[1] = map[1]
  OBVIOUS
<1>1. 1 < kind
  BY IndexAssumption DEF TypeOK, Kinds
<1> QED
  BY <1>1, OneIsAKind DEF Written

LEMMA ClosedFrame == parquet' = parquet /\ replayed' = replayed /\ Grows /\ Closed => Closed'
BY DEF Grows, Closed

LEMMA ClosedStep == Grows /\ TypeOK /\ PcOp /\ Written /\ KeptSoFar /\ Closed /\ ClosedMap /\ [Next]_vars => Closed'
<1> SUFFICES ASSUME Grows, TypeOK, PcOp, Written, KeptSoFar, Closed, ClosedMap, [Next]_vars PROVE Closed'
  OBVIOUS
<1>1. CASE Start
  <2>1. parquet' = parquet /\ replayed' = replayed
    BY <1>1 DEF Start, fvars
  <2> QED
    BY <2>1, ClosedFrame

<1>2. CASE WriteTable
  <2>1. parquet' = parquet /\ replayed' = replayed
    BY <1>2 DEF WriteTable, fvars
  <2> QED
    BY <2>1, ClosedFrame

<1>3. CASE CreateFileIndex
  <2>1. parquet' = parquet /\ replayed' = replayed
    BY <1>3 DEF CreateFileIndex, fvars
  <2> QED
    BY <2>1, ClosedFrame

<1>4. CASE FillFileIndex
  <2>1. parquet' = parquet /\ replayed' = replayed
    BY <1>4 DEF FillFileIndex, fvars
  <2> QED
    BY <2>1, ClosedFrame

<1>5. CASE ScanFails
  <2>1. parquet' = parquet /\ replayed' = replayed
    BY <1>5 DEF ScanFails, fvars
  <2> QED
    BY <2>1, ClosedFrame

<1>6. CASE ReadDelta
  <2>1. parquet' = parquet /\ replayed' = replayed
    BY <1>6 DEF ReadDelta, fvars
  <2> QED
    BY <2>1, ClosedFrame

<1>7. CASE Unreadable
  <2>1. parquet' = parquet /\ replayed' = replayed
    BY <1>7 DEF Unreadable, fvars
  <2> QED
    BY <2>1, ClosedFrame

<1>8. CASE MergeExisting
  <2>1. parquet' = parquet /\ replayed' = replayed
    BY <1>8 DEF MergeExisting, fvars
  <2> QED
    BY <2>1, ClosedFrame

<1>9. CASE Collect
  <2>1. parquet' = parquet /\ replayed' = replayed
    BY <1>9 DEF Collect, fvars
  <2> QED
    BY <2>1, ClosedFrame

<1>10. CASE CollectFails
  <2>1. parquet' = parquet /\ replayed' = replayed
    BY <1>10 DEF CollectFails, fvars
  <2> QED
    BY <2>1, ClosedFrame

<1>11. CASE CompareJsonl
  <2>1. parquet' = parquet /\ replayed' = replayed
    BY <1>11 DEF CompareJsonl, fvars
  <2> QED
    BY <2>1, ClosedFrame

<1>12. CASE CreateJsonl
  <2>1. parquet' = parquet /\ replayed' = replayed
    BY <1>12 DEF CreateJsonl, fvars
  <2> QED
    BY <2>1, ClosedFrame

<1>13. CASE FillJsonl
  <2>1. parquet' = parquet /\ replayed' = replayed
    BY <1>13 DEF FillJsonl, fvars
  <2> QED
    BY <2>1, ClosedFrame

<1>14. CASE ReplayEvent
  <2>1. parquet' = parquet /\ replayed' = replayed
    BY <1>14 DEF ReplayEvent, fvars
  <2> QED
    BY <2>1, ClosedFrame

<1>15. CASE ReplayFails
  <2>1. parquet' = parquet /\ replayed' = replayed
    BY <1>15 DEF ReplayFails, fvars
  <2> QED
    BY <2>1, ClosedFrame

<1>16. CASE ReplayEnds
  <2>1. parquet' = parquet /\ replayed' = replayed
    BY <1>16 DEF ReplayEnds, fvars
  <2> QED
    BY <2>1, ClosedFrame

<1>17. CASE CreateIndex
  <2>1. /\ pc = "parquet" /\ (replayed' = FALSE => replayed = FALSE)
        /\ \A k \in Kinds : parquet'[k] = IF k = kind THEN Torn ELSE parquet[k]
    BY <1>17 DEF CreateIndex, TypeOK
  <2>2. kind # 1 => parquet[1] # NoFile
    BY <2>1, WrittenFirst, MapIsRows, OneIsAKind DEF Writing
  <2>3. parquet'[1] # NoFile
    BY <2>1, <2>2, OneIsAKind, IndexAssumption
  <2>4. \A k \in Kinds : parquet'[k] \in Rows => parquet[k] \in Rows /\ parquet'[k] = parquet[k]
    BY <2>1, MapIsRows
  <2>5. replayed' \in BOOLEAN /\ replayed \in BOOLEAN
    BY <1>17 DEF CreateIndex, TypeOK
  <2> QED
    BY <2>1, <2>3, <2>4, <2>5, OneIsAKind DEF Closed, Grows

<1>18. CASE FillIndex
  <2>1. /\ pc = "parquetFill" /\ replayed' = replayed
        /\ \A k \in Kinds : parquet'[k] = IF k = kind THEN map[k] ELSE parquet[k]
    BY <1>18 DEF FillIndex, TypeOK
  <2>2. parquet'[1] = map[1] /\ parquet'[1] # NoFile
    BY <2>1, WrittenFirst, MapIsRows, OneIsAKind DEF Writing
  <2>3. run.op = "replay" => kind = 1 /\ replayed
    BY <2>1 DEF PcOp, ClosedMap, Writing
  <2>4. ASSUME NEW k \in Kinds \ {1}, parquet'[k] \in Rows
        PROVE  IdsOf(parquet'[k]) \subseteq KnownFs \cup KnownJobs
    <3>1. CASE k = kind
      BY <2>1, <2>3, <3>1 DEF ClosedMap, Writing
    <3>2. CASE k # kind
      BY <2>1, <2>4, <3>2 DEF Closed
    <3> QED
      BY <3>1, <3>2
  <2>5. ASSUME ~replayed, NEW k \in Kinds, parquet'[k] \in Rows
        PROVE  IdsOf(parquet'[k]) \subseteq IdsOf(map[1]) \cup KnownJobs
    <3>1. CASE run.op = "objects"
      <4>1. parquet[k] \in Rows => IdsOf(parquet[k]) \subseteq IdsOf(map[k])
        BY <2>1, <3>1 DEF KeptSoFar, Writing
      <4>2. IdsOf(parquet'[k]) \subseteq IdsOf(map[k])
        BY <2>1, <2>5, <4>1
      <4>3. IdsOf(map[k]) \subseteq IdsOf(map[1]) \cup KnownJobs
        BY <2>1, <2>5, <3>1 DEF ClosedMap, Writing
      <4> QED
        BY <4>2, <4>3
    <3>2. CASE run.op \in {"rebuild", "full"}
      <4>1. IdsOf(map[1]) = KnownFs
        BY <2>1, <3>2, OneIsAKind DEF ClosedMap, Writing
      <4> QED
        BY <2>2, <2>4, <2>5, <4>1
    <3>3. run.op \in {"objects", "rebuild", "full"}
      BY <2>1, <2>3, <2>5 DEF PcOp, TypeOK, Runs, Ops, Ended
    <3> QED
      BY <3>1, <3>2, <3>3
  <2>6. \A k \in Kinds \ {1} : parquet'[k] \in Rows => IdsOf(parquet'[k]) \subseteq KnownFs' \cup KnownJobs'
    BY <2>4 DEF Grows
  <2>7. ~replayed => \A k \in Kinds : parquet'[k] \in Rows => IdsOf(parquet'[k]) \subseteq IdsOf(map[1]) \cup KnownJobs'
    BY <2>5 DEF Grows
  <2> QED
    BY <2>1, <2>2, <2>6, <2>7 DEF Closed

<1>19. CASE Record
  <2>1. /\ pc = "record" /\ parquet' = parquet /\ replayed' = (replayed /\ run.op \notin {"rebuild", "full"})
    BY <1>19 DEF Record, fvars
  <2>2. CASE replayed' = replayed
    BY <2>1, <2>2, ClosedFrame
  <2>3. CASE run.op \in {"rebuild", "full"}
    <3>1. ASSUME NEW k \in Kinds PROVE IdsOf(parquet[k]) = FoundIds
      <4>1. k <= LastKind
        BY <2>3 DEF LastKind, Kinds
      <4>2. parquet[k] = map[k]
        BY <2>1, <4>1 DEF Written, Writing
      <4> QED
        BY <2>1, <2>3, <4>2 DEF ClosedMap, Writing
    <3> QED
      BY <2>1, <3>1, OneIsAKind DEF Closed, Grows
  <2> QED
    BY <2>1, <2>2, <2>3 DEF TypeOK

<1>20. CASE Stop
  <2>1. parquet' = parquet /\ replayed' = replayed
    BY <1>20 DEF Stop, fvars
  <2> QED
    BY <2>1, ClosedFrame

<1>21. ASSUME NEW j \in Jobs, NEW k \in Kinds, CreateDelta(j, k) PROVE Closed'
  <2>1. parquet' = parquet /\ replayed' = replayed
    BY <1>21 DEF CreateDelta, fvars
  <2> QED
    BY <2>1, ClosedFrame

<1>22. ASSUME NEW j \in Jobs, NEW k \in Kinds, WriteDelta(j, k) PROVE Closed'
  <2>1. parquet' = parquet /\ replayed' = replayed
    BY <1>22 DEF WriteDelta, fvars
  <2> QED
    BY <2>1, ClosedFrame

<1>23. CASE UNCHANGED vars
  <2>1. parquet' = parquet /\ replayed' = replayed
    BY <1>23 DEF vars
  <2> QED
    BY <2>1, ClosedFrame

<1> QED
  BY <1>1, <1>2, <1>3, <1>4, <1>5, <1>6, <1>7, <1>8, <1>9, <1>10, <1>11, <1>12, <1>13, <1>14,
     <1>15, <1>16, <1>17, <1>18, <1>19, <1>20, <1>21, <1>22, <1>23 DEF Next, Command

LEMMA IdsOfRender ==
    ASSUME TypeOK, NEW k
    PROVE  IdsOf(Render(FoundIds, run.hash, k)) = FoundIds
<1>1. run.hash \in HashModes
  BY DEF TypeOK, Runs
<1>2. run.hash # Absent /\ FromFiles # Absent
  BY <1>1, IndexAssumption DEF Sources
<1> QED
  BY <1>2, FoundIdsType DEF IdsOf, Render, RowsFrom

LEMMA ClosedMapStep == Grows /\ TypeOK /\ PcOp /\ DeltasStay /\ Closed /\ ClosedMap /\ [Next]_vars => ClosedMap'
<1> SUFFICES ASSUME Grows, TypeOK, PcOp, DeltasStay, Closed, ClosedMap, [Next]_vars PROVE ClosedMap'
  OBVIOUS
<1>1. CASE Start
  <2>1. /\ pc' \notin {"compare", "jsonl", "jsonlFill"} \cup Writing
        /\ map' = [k \in Kinds |-> NoRows]
    BY <1>1 DEF Start, FirstStep, Runs, Ops, Writing
  <2>2. \A k \in Kinds : IdsOf(map'[k]) = {}
    BY <2>1 DEF NoRows, IdsOf
  <2> QED
    BY <2>1, <2>2 DEF ClosedMap, Writing

<1>2. CASE WriteTable
  BY <1>2 DEF WriteTable, Grows, PcOp, ClosedMap, Writing, Ended, Exit, FoundIds, Indexed, KnownFs, dvars, fvars, rvars

<1>3. CASE CreateFileIndex
  BY <1>3 DEF CreateFileIndex, Grows, PcOp, ClosedMap, Writing, Ended, Exit, FoundIds, Indexed, KnownFs, dvars, fvars, rvars

<1>4. CASE FillFileIndex
  BY <1>4 DEF FillFileIndex, AfterScan, ClosedMap, Writing, dvars, fvars, rvars

<1>5. CASE ScanFails
  BY <1>5 DEF ScanFails, AfterScan, ClosedMap, Writing, dvars, fvars, rvars

<1>6. CASE ReadDelta
  <2>1. PICK ids \in Readable(item, kind) :
            map' = [map EXCEPT ![kind] = OrInsert(map[kind], RowsFrom(item, ids))]
    BY <1>6 DEF ReadDelta
  <2>2. pc = "deltas" /\ pc' \in {"deltas", "existing"} /\ item \in Jobs /\ kind \in Kinds
    BY <1>6 DEF ReadDelta, NextDelta, TypeOK
  <2>3. kind # 1 => ids \subseteq KnownJobs
    <3>1. CASE delta[item][kind] = NoFile
      BY <2>1, <3>1, IndexAssumption DEF Readable
    <3>2. CASE kind # 1 /\ delta[item][kind] # NoFile
      <4>1. delta[item][1] = Whole
        BY <2>2, <3>2 DEF DeltasStay
      <4>2. ids \subseteq Finds[item]
        BY <2>1, <2>2, IndexAssumption DEF Readable, TypeOK
      <4> QED
        BY <2>2, <4>1, <4>2 DEF KnownJobs
    <3> QED
      BY <3>1, <3>2
  <2>4. ASSUME NEW k \in Kinds \ {1} PROVE IdsOf(map'[k]) \subseteq KnownJobs
    <3>1. IdsOf(map[k]) \subseteq KnownJobs
      BY <2>2 DEF ClosedMap
    <3>2. CASE k = kind
      <4>1. IdsOf(map'[k]) = IdsOf(map[k]) \cup IdsOf(RowsFrom(item, ids))
        BY <2>1, <2>2, <3>2, OrInsertIds DEF TypeOK
      <4>2. IdsOf(RowsFrom(item, ids)) \subseteq ids
        BY DEF IdsOf, RowsFrom
      <4> QED
        BY <2>3, <3>1, <3>2, <4>1, <4>2
    <3>3. CASE k # kind
      BY <2>1, <3>1, <3>3 DEF TypeOK
    <3> QED
      BY <3>2, <3>3
  <2>5. \A k \in Kinds \ {1} : IdsOf(map'[k]) \subseteq KnownJobs'
    BY <2>4 DEF Grows
  <2> QED
    BY <2>2, <2>5 DEF ClosedMap, Writing

<1>7. CASE Unreadable
  BY <1>7 DEF Unreadable, Grows, PcOp, ClosedMap, Writing, Ended, Exit, FoundIds, Indexed, KnownFs, dvars, fvars, rvars

<1>8. CASE MergeExisting
  <2>1. /\ pc = "existing" /\ pc' = "parquet" /\ run' = run /\ parquet' = parquet /\ replayed' = replayed
        /\ \A k \in Kinds : parquet[k] # Torn
        /\ \A k \in Kinds : map'[k] = IF parquet[k] = NoFile THEN map[k] ELSE OrInsert(map[k], parquet[k])
    BY <1>8 DEF MergeExisting, rvars, fvars
  <2>2. \A k \in Kinds : parquet[k] = NoFile \/ parquet[k] \in Rows
    BY <2>1 DEF TypeOK, Files
  <2>3. NoFile \notin Rows
    BY IndexAssumption
  <2>4. run.op = "objects"
    BY <2>1 DEF PcOp
  <2>5. ASSUME NEW k \in Kinds
        PROVE  IdsOf(map'[k]) = IdsOf(map[k]) \cup (IF parquet[k] = NoFile THEN {} ELSE IdsOf(parquet[k]))
    BY <2>1, OrInsertIds
  <2>6. \A k \in Kinds \ {1} : IdsOf(map[k]) \subseteq KnownJobs
    BY <2>1 DEF ClosedMap
  <2>7. ASSUME NEW k \in Kinds \ {1} PROVE IdsOf(map'[k]) \subseteq KnownFs \cup KnownJobs
    BY <2>2, <2>5, <2>6 DEF Closed
  <2>8. ASSUME ~replayed, NEW k \in Kinds PROVE IdsOf(map'[k]) \subseteq IdsOf(map'[1]) \cup KnownJobs
    <3>1. CASE parquet[1] = NoFile
      <4>1. parquet[k] = NoFile
        BY <3>1 DEF Closed
      <4> QED
        BY <2>5, <2>6, <4>1
    <3>2. CASE parquet[1] # NoFile
      <4>1. parquet[1] \in Rows /\ IdsOf(parquet[1]) \subseteq IdsOf(map'[1])
        BY <2>2, <2>5, <3>2, OneIsAKind
      <4>2. parquet[k] \in Rows => IdsOf(parquet[k]) \subseteq IdsOf(parquet[1]) \cup KnownJobs
        BY <2>8, <4>1 DEF Closed
      <4> QED
        BY <2>2, <2>5, <2>6, <4>1, <4>2
    <3> QED
      BY <3>1, <3>2
  <2>9. /\ \A k \in Kinds \ {1} : IdsOf(map'[k]) \subseteq KnownFs' \cup KnownJobs'
        /\ ~replayed => \A k \in Kinds : IdsOf(map'[k]) \subseteq IdsOf(map'[1]) \cup KnownJobs'
    BY <2>7, <2>8 DEF Grows
  <2> QED
    BY <2>1, <2>4, <2>9 DEF ClosedMap

<1>9. CASE Collect
  <2>1. /\ pc = "collect" /\ pc' \in {"compare", "jsonl"} /\ run' = run /\ fileIndex' = fileIndex
        /\ \A f \in Filesystems : fileIndex[f] # Torn
        /\ \A k \in Kinds : map'[k] = Render(FoundIds, run.hash, k)
    BY <1>9 DEF Collect, rvars, fvars
  <2>2. FoundIds = KnownFs
    BY <2>1, IndexAssumption DEF FoundIds, Indexed, KnownFs, TypeOK
  <2>3. FoundIds' = FoundIds /\ KnownFs' = KnownFs
    BY <2>1 DEF FoundIds, Indexed, KnownFs
  <2>4. \A k \in Kinds : IdsOf(map'[k]) = FoundIds
    BY <2>1, IdsOfRender
  <2> QED
    BY <2>1, <2>2, <2>3, <2>4 DEF ClosedMap, Writing

<1>10. CASE CollectFails
  BY <1>10 DEF CollectFails, Grows, PcOp, ClosedMap, Writing, Ended, Exit, FoundIds, Indexed, KnownFs, dvars, fvars, rvars

<1>11. CASE CompareJsonl
  BY <1>11 DEF CompareJsonl, Grows, PcOp, ClosedMap, Writing, Ended, Exit, FoundIds, Indexed, KnownFs, dvars, fvars, rvars

<1>12. CASE CreateJsonl
  BY <1>12 DEF CreateJsonl, Grows, PcOp, ClosedMap, Writing, Ended, Exit, FoundIds, Indexed, KnownFs, dvars, fvars, rvars

<1>13. CASE FillJsonl
  <2>1. /\ pc = "jsonlFill" /\ pc' \in {"jsonl", "parquet"} /\ run' = run /\ map' = map
        /\ fileIndex' = fileIndex /\ replayed' = replayed
    BY <1>13 DEF FillJsonl, rvars
  <2>2. FoundIds' = FoundIds /\ KnownFs' = KnownFs
    BY <2>1 DEF FoundIds, Indexed, KnownFs
  <2>3. run.op # "objects" /\ run.op # "replay"
    BY <2>1 DEF PcOp, Ended, Writing
  <2> QED
    BY <2>1, <2>2, <2>3 DEF ClosedMap, Grows, Writing

<1>14. CASE ReplayEvent
  BY <1>14 DEF ReplayEvent, Grows, PcOp, ClosedMap, Writing, Ended, Exit, FoundIds, Indexed, KnownFs, dvars, fvars, rvars

<1>15. CASE ReplayFails
  BY <1>15 DEF ReplayFails, Grows, PcOp, ClosedMap, Writing, Ended, Exit, FoundIds, Indexed, KnownFs, dvars, fvars, rvars

<1>16. CASE ReplayEnds
  BY <1>16 DEF ReplayEnds, Grows, PcOp, ClosedMap, Writing, Ended, Exit, FoundIds, Indexed, KnownFs, dvars, fvars, rvars

<1>17. CASE CreateIndex
  <2>1. /\ pc = "parquet" /\ pc' = "parquetFill" /\ run' = run /\ map' = map /\ fileIndex' = fileIndex
        /\ replayed' = (replayed \/ run.op = "replay")
    BY <1>17 DEF CreateIndex, rvars
  <2>2. FoundIds' = FoundIds /\ KnownFs' = KnownFs
    BY <2>1 DEF FoundIds, Indexed, KnownFs
  <2> QED
    BY <2>1, <2>2 DEF ClosedMap, Grows, Writing

<1>18. CASE FillIndex
  <2>1. /\ pc = "parquetFill" /\ pc' \in {"parquet", "record"} /\ run' = run /\ map' = map
        /\ fileIndex' = fileIndex /\ replayed' = replayed
    BY <1>18 DEF FillIndex, rvars
  <2>2. FoundIds' = FoundIds /\ KnownFs' = KnownFs
    BY <2>1 DEF FoundIds, Indexed, KnownFs
  <2> QED
    BY <2>1, <2>2 DEF ClosedMap, Grows, Writing

<1>19. CASE Record
  BY <1>19 DEF Record, Grows, PcOp, ClosedMap, Writing, Ended, Exit, FoundIds, Indexed, KnownFs, dvars, fvars, rvars

<1>20. CASE Stop
  BY <1>20 DEF Stop, Grows, PcOp, ClosedMap, Writing, Ended, Exit, FoundIds, Indexed, KnownFs, dvars, fvars, rvars

<1>21. ASSUME NEW j \in Jobs, NEW k \in Kinds, CreateDelta(j, k) PROVE ClosedMap'
  <2>1. FoundIds' = FoundIds /\ KnownFs' = KnownFs
    BY <1>21 DEF CreateDelta, fvars, FoundIds, Indexed, KnownFs
  <2> QED
    BY <1>21, <2>1 DEF CreateDelta, rvars, ClosedMap, Grows, Writing

<1>22. ASSUME NEW j \in Jobs, NEW k \in Kinds, WriteDelta(j, k) PROVE ClosedMap'
  <2>1. FoundIds' = FoundIds /\ KnownFs' = KnownFs
    BY <1>22 DEF WriteDelta, fvars, FoundIds, Indexed, KnownFs
  <2> QED
    BY <1>22, <2>1 DEF WriteDelta, rvars, ClosedMap, Grows, Writing

<1>23. CASE UNCHANGED vars
  <2>1. FoundIds' = FoundIds /\ KnownFs' = KnownFs
    BY <1>23 DEF vars, FoundIds, Indexed, KnownFs
  <2> QED
    BY <1>23, <2>1 DEF vars, rvars, ClosedMap, Grows, Writing

<1> QED
  BY <1>1, <1>2, <1>3, <1>4, <1>5, <1>6, <1>7, <1>8, <1>9, <1>10, <1>11, <1>12, <1>13, <1>14,
     <1>15, <1>16, <1>17, <1>18, <1>19, <1>20, <1>21, <1>22, <1>23 DEF Next, Command

-----------------------------------------------------------------------------
(* The theorems.                                                           *)

LEMMA InitIInv == Init => IInv
<1> SUFFICES ASSUME Init PROVE IInv
  OBVIOUS
<1>1. TypeOK /\ PcOp
  BY TypeInit
<1>2. pc = "done" /\ run.op = "full" /\ begun = {} /\ basis = NoBasis
      /\ \A k \in Kinds : parquet[k] = NoFile /\ kept[k] = {}
  BY DEF Init
<1>3. DeltasStay /\ Gathered /\ Written /\ FirstJobWins /\ MergeKeeps
  BY <1>2 DEF Init, DeltasStay, Gathered, Written, FirstJobWins, MergeKeeps, Merged, Writing
<1>4. KeptSoFar /\ Rendered /\ RefusedForReason
  BY <1>2 DEF KeptSoFar, Rendered, RefusedForReason, Writing
<1>5. ReplayedSoFar /\ ReplayIsLastEvent
  BY <1>2 DEF ReplayedSoFar, ReplayIsLastEvent
<1>6. Closed /\ ClosedMap
  BY <1>2, OneIsAKind, IndexAssumption DEF Closed, ClosedMap, Writing
<1> QED
  BY <1>1, <1>3, <1>4, <1>5, <1>6 DEF IInv

LEMMA StepIInv == IInv /\ [Next]_vars => IInv'
<1> SUFFICES ASSUME IInv, [Next]_vars PROVE IInv'
  OBVIOUS
<1>1. TypeOK /\ PcOp /\ DeltasStay /\ Gathered /\ Written /\ KeptSoFar /\ Rendered
      /\ ReplayedSoFar /\ Closed /\ ClosedMap
      /\ FirstJobWins /\ MergeKeeps /\ RefusedForReason /\ ReplayIsLastEvent
  BY DEF IInv
<1>2. TypeOK' /\ PcOp' /\ DeltasStay' /\ Gathered' /\ Written'
  BY <1>1, TypeStep, PcOpStep, DeltasStep, GatheredStep, WrittenStep
<1>3. KeptSoFar' /\ Rendered' /\ ReplayedSoFar'
  BY <1>1, KeptStep, RenderedStep, ReplayedStep
<1>4. Closed' /\ ClosedMap'
  BY <1>1, KnownGrows, ClosedStep, ClosedMapStep
<1>5. FirstJobWins' /\ MergeKeeps' /\ RefusedForReason' /\ ReplayIsLastEvent'
  BY <1>1, FirstJobStep, MergeKeepsStep, RefusedStep, LastEventStep
<1> QED
  BY <1>2, <1>3, <1>4, <1>5 DEF IInv

\* After a merge the objects that the deltas name are indexed, and what belongs
\* to an object is in the index only with it.
LEMMA HealedState == IInv => MergeHeals
<1> SUFFICES ASSUME IInv, Merged, Quiet, ~replayed, NEW k \in Kinds
             PROVE  IdsOf(parquet[k]) \subseteq IdsOf(parquet[1])
  BY DEF MergeHeals
<1>1. parquet[1] \in Rows /\ parquet[k] \in Rows
  BY OneIsAKind DEF IInv, Written
<1>2. IdsOf(parquet[k]) \subseteq IdsOf(parquet[1]) \cup KnownJobs
  BY <1>1 DEF IInv, Closed
<1>3. ASSUME NEW j \in Jobs, delta[j][1] = Whole PROVE Finds[j] \subseteq IdsOf(parquet[1])
  <2>1. <<j, 1>> \in Jobs \X Kinds
    BY OneIsAKind
  <2>2. <<j, 1>> \in begun
    BY <1>3, <2>1 DEF Quiet
  <2>3. \A i \in Finds[j] : parquet[1][i] \in 1 .. j
    BY <2>2, OneIsAKind DEF IInv, FirstJobWins
  <2>4. \A i \in Finds[j] : parquet[1][i] # Absent /\ i \in Ids
    <3>1. 1 .. j \subseteq Jobs
      BY IndexAssumption DEF Jobs
    <3> QED
      BY <2>3, <3>1, NotAJob, IndexAssumption
  <2> QED
    BY <2>4 DEF IdsOf
<1>4. KnownJobs \subseteq IdsOf(parquet[1])
  BY <1>3 DEF KnownJobs
<1> QED
  BY <1>2, <1>4

LEMMA Invariance == Spec => []IInv
BY InitIInv, StepIInv, PTL DEF Spec

\* The state of the indexer has its types.
THEOREM TypeCorrect == Spec => []TypeOK
<1>1. IInv => TypeOK
  BY DEF IInv
<1> QED
  BY <1>1, Invariance, PTL

\* Whatever ran before, and was killed: a merge indexes each id that a delta
\* held when it began, with the row of the first job by name that had it.
THEOREM MergesFirstJob == Spec => []FirstJobWins
<1>1. IInv => FirstJobWins
  BY DEF IInv
<1> QED
  BY <1>1, Invariance, PTL

\* A merge takes no row away from an index that can be read.
THEOREM MergesKeep == Spec => []MergeKeeps
<1>1. IInv => MergeKeeps
  BY DEF IInv
<1> QED
  BY <1>1, Invariance, PTL

\* The merge that no job writes under leaves nothing without its object, whatever
\* killed rebuilds and earlier merges left; it holds for any number of files of
\* an index, and of jobs.
THEOREM MergesHeal == Spec => []MergeHeals
BY HealedState, Invariance, PTL

\* assert_safe_rewrite refuses only what differs from the last rendering.
THEOREM RefusalsHaveReason == Spec => []RefusedForReason
<1>1. IInv => RefusedForReason
  BY DEF IInv
<1> QED
  BY <1>1, Invariance, PTL

\* A replay leaves an object indexed exactly if its last event that counts is a
\* discovery or a change, for any log.
THEOREM ReplaysLastEvent == Spec => []ReplayIsLastEvent
<1>1. IInv => ReplayIsLastEvent
  BY DEF IInv
<1> QED
  BY <1>1, Invariance, PTL

-----------------------------------------------------------------------------
(* The depth-first search of the object graph.                             *)

\* Numbers have a least one.
LEMMA LeastOf ==
    ASSUME NEW S \in SUBSET Nat, S # {}
    PROVE  Min(S) \in S /\ \A m \in S : Min(S) <= m
<1>1. \E x \in S : \A y \in S : ~ (<<y, x>> \in OpToRel(<, Nat))
  BY NatLessThanWellFounded, WFMin, S \subseteq Nat
<1>2. PICK x \in S : \A y \in S : ~ (<<y, x>> \in OpToRel(<, Nat)) BY <1>1
<1>3. \A y \in S : ~ (y < x)
  <2>0. S \subseteq Nat OBVIOUS
  <2> QED BY <1>2, <2>0 DEF OpToRel
<1>4. S \subseteq Nat /\ x \in S BY <1>2
<1>5. \A y \in S : x <= y BY <1>3, <1>4
<1> QED BY <1>4, <1>5 DEF Min

\* Induction over the numbers.
LEMMA NatSteps ==
    ASSUME NEW S, 0 \in S, \A n \in Nat : n \in S => n + 1 \in S
    PROVE  \A n \in Nat : n \in S
<1> SUFFICES ASSUME Nat \ S # {} PROVE FALSE OBVIOUS
<1>1. PICK n \in Nat \ S : \A m \in Nat \ S : n <= m
  <2>1. Nat \ S \in SUBSET Nat OBVIOUS
  <2> QED BY <2>1, LeastOf
<1>2. n # 0 BY <1>1
<1>3. n - 1 \in Nat /\ n - 1 \in S BY <1>1, <1>2
<1> QED BY <1>1, <1>3

\* The nodes that are done.
Finished(visited, path) == visited \ Range(path)

\* The node is on a cycle that was reported.
Hit(cycles, x) == \E n \in DOMAIN cycles : \E k \in DOMAIN cycles[n] : cycles[n][k] = x

\* Each node of it has an edge to the next, the last one to the first.
IsCycle(edges, c) ==
    \A k \in DOMAIN c : <<c[k], IF k < Len(c) THEN c[k + 1] ELSE c[1]>> \in Range(edges)

\* What was reported so far are cycles.
Cyclic(edges, cycles) ==
    cycles \in Seq(Seq(Keys(edges))) /\ \A n \in 1 .. Len(cycles) : IsCycle(edges, cycles[n])

\* The path is one of edges, of nodes that were visited, each once, and what
\* is left to look at for each are rows of it.
Stacked(edges, visited, path, todo) ==
    /\ visited \subseteq Keys(edges)
    /\ path \in Seq(Keys(edges)) /\ todo \in Seq(SUBSET DOMAIN edges) /\ Len(todo) = Len(path)
    /\ \A i \in 1 .. Len(path) : path[i] \in visited /\ todo[i] \subseteq Children(edges, path[i])
    /\ \A i, j \in 1 .. Len(path) : path[i] = path[j] => i = j
    /\ \A i \in 1 .. Len(path) - 1 : <<path[i], path[i + 1]>> \in Range(edges)

\* A row that was looked at for a node of the path leads to a reported cycle, to
\* a node that is done, or to the next node of the path.
Ahead(edges, visited, path, todo, cycles) ==
    \A i \in 1 .. Len(path) : \A n \in Children(edges, path[i]) \ todo[i] :
        \/ Hit(cycles, edges[n][2])
        \/ edges[n][2] \in Finished(visited, path)
        \/ i < Len(path) /\ edges[n][2] = path[i + 1]

\* The same while x is about to be entered.
AheadTo(edges, visited, path, todo, cycles, x) ==
    \A i \in 1 .. Len(path) : \A n \in Children(edges, path[i]) \ todo[i] :
        \/ Hit(cycles, edges[n][2])
        \/ edges[n][2] \in Finished(visited, path)
        \/ IF i < Len(path) THEN edges[n][2] = path[i + 1] ELSE edges[n][2] = x

\* The order in which nodes were done: an edge leads to one that was done
\* before, or to a reported cycle.
Ranked(edges, done, cycles, rank) ==
    /\ rank \in [Keys(edges) -> Nat]
    /\ \A x \in done : rank[x] < Cardinality(done)
    /\ \A n \in DOMAIN edges : edges[n][1] \in done =>
          \/ Hit(cycles, edges[n][2])
          \/ edges[n][2] \in done /\ rank[edges[n][2]] < rank[edges[n][1]]

\* What holds of the search after every step.
Searching(edges, visited, path, todo, cycles) ==
    /\ Stacked(edges, visited, path, todo)
    /\ Cyclic(edges, cycles)
    /\ Ahead(edges, visited, path, todo, cycles)
    /\ \E rank : Ranked(edges, Finished(visited, path), cycles, rank)

\* What holds of it when a row was taken that leads to x.
Towards(edges, visited, path, todo, cycles, x) ==
    /\ Stacked(edges, visited, path, todo)
    /\ Cyclic(edges, cycles)
    /\ AheadTo(edges, visited, path, todo, cycles, x)
    /\ \E rank : Ranked(edges, Finished(visited, path), cycles, rank)

\* A set with one more element, and with one less.
With(S, x) == S \cup {x}
Less(S, x) == S \ {x}

\* The rows that were not looked at.
Unseen(edges, visited, todo) ==
    {n \in DOMAIN edges : edges[n][1] \notin visited \/ \E i \in 1 .. Len(todo) : n \in todo[i]}

\* A table of edges between objects.
IsGraph(edges) == edges \in Seq(Objects \X Objects)

\* The rows of a graph are between its nodes.
LEMMA RowFacts ==
    ASSUME NEW edges, IsGraph(edges)
    PROVE  /\ Keys(edges) \subseteq Objects
           /\ DOMAIN edges = 1 .. Len(edges) /\ Len(edges) \in Nat
           /\ \A n \in DOMAIN edges : /\ edges[n] = <<edges[n][1], edges[n][2]>> /\ edges[n] \in Range(edges)
                                      /\ edges[n][1] \in Keys(edges) /\ edges[n][2] \in Keys(edges)
           /\ \A e \in Range(edges) : \E n \in DOMAIN edges : e = edges[n]
<1>1. DOMAIN edges = 1 .. Len(edges) /\ Len(edges) \in Nat /\ edges \in [1 .. Len(edges) -> Objects \X Objects]
  BY DEF IsGraph
<1>2. ASSUME NEW n \in DOMAIN edges
      PROVE  edges[n] = <<edges[n][1], edges[n][2]>> /\ edges[n][1] \in Objects /\ edges[n][2] \in Objects
  BY <1>1
<1>3. ASSUME NEW n \in DOMAIN edges PROVE edges[n] \in Range(edges) BY DEF Range
<1>4. ASSUME NEW e \in Range(edges) PROVE \E n \in DOMAIN edges : e = edges[n] BY DEF Range
<1>5. Keys(edges) \subseteq Objects BY <1>2, <1>4 DEF Keys
<1>6. ASSUME NEW n \in DOMAIN edges PROVE edges[n][1] \in Keys(edges) /\ edges[n][2] \in Keys(edges)
  BY <1>3 DEF Keys
<1> QED BY <1>1, <1>2, <1>3, <1>4, <1>5, <1>6

\* The last of a sequence, and what is before it.
LEMMA FrontFacts ==
    ASSUME NEW S, NEW s \in Seq(S), Len(s) # 0
    PROVE  /\ Front(s) \in Seq(S) /\ Len(Front(s)) = Len(s) - 1
           /\ \A i \in 1 .. Len(s) - 1 : Front(s)[i] = s[i]
           /\ Last(s) = s[Len(s)] /\ Last(s) \in S /\ Len(s) \in 1 .. Len(s)
<1>1. Len(s) \in Nat \ {0} OBVIOUS
<1> DEFINE m == Len(s) - 1
           f == [i \in 1 .. m |-> s[i]]
<1>2. m \in Nat /\ \A i \in 1 .. m : i \in 1 .. Len(s) /\ s[i] \in S BY <1>1
<1>3. SubSeq(s, 1, m) = f
  <2>1. SubSeq(s, 1, m) = [i \in 1 .. m |-> s[i + 1 - 1]] BY <1>2
  <2> QED BY <2>1
<1>4. f \in Seq(S) /\ Len(f) = m /\ \A i \in 1 .. m : f[i] = s[i] BY <1>2
<1>5. Front(s) \in Seq(S) /\ Len(Front(s)) = Len(s) - 1 /\ \A i \in 1 .. Len(s) - 1 : Front(s)[i] = s[i]
  BY <1>3, <1>4 DEF Front
<1> QED BY <1>1, <1>5 DEF Last

\* A sequence with one more element.
LEMMA AppendFacts ==
    ASSUME NEW S, NEW s \in Seq(S), NEW x \in S
    PROVE  /\ Append(s, x) \in Seq(S) /\ Len(Append(s, x)) = Len(s) + 1 /\ Len(s) \in Nat
           /\ \A i \in 1 .. Len(s) : Append(s, x)[i] = s[i]
           /\ Append(s, x)[Len(s) + 1] = x
OBVIOUS

\* A sequence has its elements.
LEMMA RangeOf ==
    ASSUME NEW S, NEW s \in Seq(S)
    PROVE  \A x : x \in Range(s) <=> \E i \in 1 .. Len(s) : s[i] = x
BY DEF Range

\* What is reported stays reported.
LEMMA HitMore ==
    ASSUME NEW edges, NEW done, NEW cycles, NEW more, NEW rank, Ranked(edges, done, cycles, rank),
           \A x : Hit(cycles, x) => Hit(more, x)
    PROVE  Ranked(edges, done, more, rank)
BY DEF Ranked

\* A new node is entered: it is the next one of the path.
LEMMA EnterSearch ==
    ASSUME NEW edges, IsGraph(edges), NEW visited, NEW path, NEW todo, NEW cycles,
           NEW x \in Keys(edges) \ visited,
           Towards(edges, visited, path, todo, cycles, x),
           Len(path) # 0 => <<path[Len(path)], x>> \in Range(edges)
    PROVE  /\ Searching(edges, With(visited, x), Append(path, x), Append(todo, Children(edges, x)), cycles)
           /\ Unseen(edges, With(visited, x), Append(todo, Children(edges, x))) = Unseen(edges, visited, todo)
           /\ Len(Append(path, x)) = Len(path) + 1
<1> DEFINE v == With(visited, x)
           p == Append(path, x)
           t == Append(todo, Children(edges, x))
           L == Len(path)
<1>0. \A y : y \in v <=> y \in visited \/ y = x BY DEF With
<1>1. Stacked(edges, visited, path, todo) BY DEF Towards
<1>2. Children(edges, x) \in SUBSET DOMAIN edges BY DEF Children
<1>3. path \in Seq(Keys(edges)) /\ todo \in Seq(SUBSET DOMAIN edges) /\ Len(todo) = L /\ L \in Nat
  BY <1>1 DEF Stacked
<1>4. p \in Seq(Keys(edges)) /\ Len(p) = L + 1 /\ (\A i \in 1 .. L : p[i] = path[i]) /\ p[L + 1] = x
  BY <1>3, AppendFacts
<1>5. t \in Seq(SUBSET DOMAIN edges) /\ Len(t) = L + 1 /\ (\A i \in 1 .. L : t[i] = todo[i])
      /\ t[L + 1] = Children(edges, x)
  BY <1>2, <1>3, AppendFacts
<1> HIDE DEF p, t, v
<1>6. \A i \in 1 .. L + 1 : i \in 1 .. L \/ i = L + 1 BY <1>3
<1>7. Range(p) = Range(path) \cup {x}
  <2>1. \A y : y \in Range(p) <=> \E i \in 1 .. L + 1 : p[i] = y BY <1>4, RangeOf
  <2>2. \A y : y \in Range(path) <=> \E i \in 1 .. L : path[i] = y BY <1>3, RangeOf
  <2>3. ASSUME NEW y PROVE y \in Range(p) <=> y \in Range(path) \/ y = x
    <3>1. ASSUME y \in Range(p) PROVE y \in Range(path) \/ y = x BY <1>4, <1>6, <2>1, <2>2, <3>1
    <3>2. ASSUME y \in Range(path) PROVE y \in Range(p)
      <4>1. PICK i \in 1 .. L : path[i] = y BY <2>2, <3>2
      <4>2. i \in 1 .. L + 1 /\ p[i] = y BY <1>3, <1>4, <4>1
      <4> QED BY <2>1, <4>2
    <3>3. L + 1 \in 1 .. L + 1 BY <1>3
    <3> QED BY <1>4, <2>1, <3>1, <3>2, <3>3
  <2> QED BY <2>3
<1>8. Finished(v, p) = Finished(visited, path) BY <1>0, <1>7 DEF Finished
<1>9. Stacked(edges, v, p, t)
  <2>1. v \subseteq Keys(edges) BY <1>0, <1>1 DEF Stacked
  <2>2. ASSUME NEW i \in 1 .. L + 1 PROVE p[i] \in v /\ t[i] \subseteq Children(edges, p[i])
    <3>1. CASE i \in 1 .. L BY <1>0, <1>1, <1>4, <1>5, <3>1 DEF Stacked
    <3>2. CASE i = L + 1 BY <1>0, <1>4, <1>5, <3>2
    <3> QED BY <1>6, <3>1, <3>2
  <2>3. ASSUME NEW i \in 1 .. L + 1, NEW j \in 1 .. L + 1, p[i] = p[j] PROVE i = j
    <3>1. \A k \in 1 .. L : p[k] # x BY <1>1, <1>4 DEF Stacked
    <3>2. CASE i \in 1 .. L /\ j \in 1 .. L BY <1>1, <1>4, <2>3, <3>2 DEF Stacked
    <3>3. CASE i = L + 1 /\ j = L + 1 BY <3>3
    <3>4. CASE i \in 1 .. L /\ j = L + 1 BY <1>4, <2>3, <3>1, <3>4
    <3>5. CASE i = L + 1 /\ j \in 1 .. L BY <1>4, <2>3, <3>1, <3>5
    <3> QED BY <1>6, <3>2, <3>3, <3>4, <3>5
  <2>4. ASSUME NEW i \in 1 .. L PROVE <<p[i], p[i + 1]>> \in Range(edges)
    <3>1. CASE i = L
      <4>1. L # 0 /\ p[i] = path[L] /\ p[i + 1] = x BY <1>3, <1>4, <3>1
      <4> QED BY <4>1
    <3>2. CASE i # L
      <4>1. i \in 1 .. L - 1 /\ i + 1 \in 1 .. L BY <1>3, <3>2
      <4>2. p[i] = path[i] /\ p[i + 1] = path[i + 1] BY <1>4, <4>1
      <4> QED BY <1>1, <4>1, <4>2 DEF Stacked
    <3> QED BY <3>1, <3>2
  <2>5. (L + 1) - 1 = L BY <1>3
  <2> HIDE DEF L
  <2> QED BY <1>4, <1>5, <2>1, <2>2, <2>3, <2>4, <2>5 DEF Stacked
<1>10. Ahead(edges, v, p, t, cycles)
  <2>1. ASSUME NEW i \in 1 .. L + 1, NEW n \in Children(edges, p[i]) \ t[i]
        PROVE  \/ Hit(cycles, edges[n][2])
               \/ edges[n][2] \in Finished(v, p)
               \/ i < L + 1 /\ edges[n][2] = p[i + 1]
    <3>1. i # L + 1 BY <1>4, <1>5, <2>1
    <3>2. i \in 1 .. L /\ n \in Children(edges, path[i]) \ todo[i] BY <1>4, <1>5, <1>6, <2>1, <3>1
    <3>3. \/ Hit(cycles, edges[n][2])
          \/ edges[n][2] \in Finished(visited, path)
          \/ IF i < L THEN edges[n][2] = path[i + 1] ELSE edges[n][2] = x
      BY <3>2 DEF Towards, AheadTo
    <3>4. i < L => i + 1 \in 1 .. L BY <1>3, <3>2
    <3>5. p[i + 1] = IF i < L THEN path[i + 1] ELSE x
      <4>1. ~(i < L) => i = L BY <1>3, <3>2
      <4> QED BY <1>4, <3>4, <4>1
    <3>6. i < L + 1 BY <1>3, <3>2
    <3> QED BY <1>8, <3>3, <3>5, <3>6
  <2> QED BY <1>4, <2>1 DEF Ahead
<1>11. Unseen(edges, v, t) = Unseen(edges, visited, todo)
  <2>1. ASSUME NEW n \in DOMAIN edges
        PROVE  (edges[n][1] \notin v \/ \E i \in 1 .. L + 1 : n \in t[i])
               <=> (edges[n][1] \notin visited \/ \E i \in 1 .. L : n \in todo[i])
    <3>1. n \in Children(edges, x) <=> edges[n][1] = x BY DEF Children
    <3>2. (\E i \in 1 .. L + 1 : n \in t[i]) <=> (\E i \in 1 .. L : n \in todo[i]) \/ n \in Children(edges, x)
      <4>1. L + 1 \in 1 .. L + 1 /\ \A i \in 1 .. L : i \in 1 .. L + 1 BY <1>3
      <4> QED BY <1>5, <1>6, <4>1
    <3> QED BY <1>0, <3>1, <3>2
  <2> QED BY <1>3, <1>5, <2>1 DEF Unseen
<1>12. Cyclic(edges, cycles) /\ \E rank : Ranked(edges, Finished(v, p), cycles, rank) BY <1>8 DEF Towards
<1>13. Searching(edges, v, p, t, cycles) BY <1>9, <1>10, <1>12 DEF Searching
<1> QED BY <1>4, <1>11, <1>13 DEF p, t, v

\* A row of the last node of the path is looked at.
LEMMA LookSearch ==
    ASSUME NEW edges, IsGraph(edges), NEW visited, NEW path, NEW todo, NEW cycles,
           Searching(edges, visited, path, todo, cycles), Len(path) # 0, NEW row \in Last(todo)
    PROVE  LET t == Append(Front(todo), Less(Last(todo), row)) IN
           /\ row \in DOMAIN edges
           /\ Towards(edges, visited, path, t, cycles, edges[row][2])
           /\ Unseen(edges, visited, t) = Less(Unseen(edges, visited, todo), row)
           /\ row \in Unseen(edges, visited, todo)
           /\ <<path[Len(path)], edges[row][2]>> \in Range(edges)
<1> DEFINE L == Len(path)
           t == Append(Front(todo), Less(Last(todo), row))
<1>1. Stacked(edges, visited, path, todo) BY DEF Searching
<1>2. path \in Seq(Keys(edges)) /\ todo \in Seq(SUBSET DOMAIN edges) /\ Len(todo) = L /\ L \in Nat /\ L # 0
  BY <1>1 DEF Stacked
<1>3. /\ Front(todo) \in Seq(SUBSET DOMAIN edges) /\ Len(Front(todo)) = L - 1
      /\ \A i \in 1 .. L - 1 : Front(todo)[i] = todo[i]
      /\ Last(todo) = todo[L] /\ Last(todo) \in SUBSET DOMAIN edges
  BY <1>2, FrontFacts
<1>4. /\ t \in Seq(SUBSET DOMAIN edges) /\ Len(t) = L - 1 + 1
      /\ \A i \in 1 .. L - 1 : t[i] = Front(todo)[i]
      /\ t[L - 1 + 1] = Less(todo[L], row)
  <2>1. Less(Last(todo), row) \in SUBSET DOMAIN edges BY <1>3 DEF Less
  <2> HIDE DEF L
  <2> QED BY <1>3, <2>1, AppendFacts
<1>5. Len(t) = L /\ (\A i \in 1 .. L - 1 : t[i] = todo[i]) /\ t[L] = todo[L] \ {row}
  <2>1. L - 1 + 1 = L BY <1>2
  <2> QED BY <1>3, <1>4, <2>1 DEF Less
<1> HIDE DEF t
<1>6. \A i \in 1 .. L : i \in 1 .. L - 1 \/ i = L BY <1>2
<1>7. L \in 1 .. L BY <1>2
<1>8. row \in todo[L] /\ row \in Children(edges, path[L]) BY <1>1, <1>3, <1>7 DEF Stacked
<1>9. row \in DOMAIN edges /\ edges[row][1] = path[L] BY <1>8 DEF Children
<1>10. <<path[L], edges[row][2]>> \in Range(edges) BY <1>9, RowFacts
<1>11. ASSUME NEW i \in 1 .. L PROVE t[i] = todo[i] \ {row}
  <2>1. CASE i = L BY <1>5, <2>1
  <2>2. CASE i \in 1 .. L - 1
    <3>1. row \notin todo[i]
      <4>1. SUFFICES ASSUME row \in todo[i] PROVE FALSE OBVIOUS
      <4>2. edges[row][1] = path[i] BY <1>1, <4>1 DEF Stacked, Children
      <4>3. i = L BY <1>1, <1>7, <1>9, <4>2 DEF Stacked
      <4> QED BY <1>2, <2>2, <4>3
    <3> QED BY <1>5, <2>2, <3>1
  <2> QED BY <1>6, <2>1, <2>2
<1>12. Stacked(edges, visited, path, t) BY <1>1, <1>4, <1>5, <1>11 DEF Stacked
<1>13. AheadTo(edges, visited, path, t, cycles, edges[row][2])
  <2>1. ASSUME NEW i \in 1 .. L, NEW n \in Children(edges, path[i]) \ t[i]
        PROVE  \/ Hit(cycles, edges[n][2])
               \/ edges[n][2] \in Finished(visited, path)
               \/ IF i < L THEN edges[n][2] = path[i + 1] ELSE edges[n][2] = edges[row][2]
    <3>1. CASE n \notin todo[i]
      <4>1. n \in Children(edges, path[i]) \ todo[i] BY <3>1
      <4> QED BY <4>1 DEF Searching, Ahead
    <3>2. CASE n \in todo[i]
      <4>1. n = row BY <1>11, <2>1, <3>2
      <4>2. edges[n][1] = path[i] BY <2>1 DEF Children
      <4>3. i = L BY <1>1, <1>7, <1>9, <4>1, <4>2 DEF Stacked
      <4>4. ~(i < L) BY <1>2, <4>3
      <4> QED BY <4>1, <4>4
    <3> QED BY <3>1, <3>2
  <2> QED BY <2>1 DEF AheadTo
<1>14. Unseen(edges, visited, t) = Unseen(edges, visited, todo) \ {row}
  <2>1. path[L] \in visited BY <1>1, <1>7 DEF Stacked
  <2>2. ASSUME NEW n \in DOMAIN edges
        PROVE  (edges[n][1] \notin visited \/ \E i \in 1 .. L : n \in t[i])
               <=> (edges[n][1] \notin visited \/ \E i \in 1 .. L : n \in todo[i]) /\ n # row
    BY <1>9, <1>11, <2>1
  <2> QED BY <1>2, <1>5, <2>2 DEF Unseen
<1>15. row \in Unseen(edges, visited, todo) BY <1>2, <1>7, <1>8, <1>9 DEF Unseen
<1>16. Towards(edges, visited, path, t, cycles, edges[row][2]) BY <1>12, <1>13 DEF Searching, Towards
<1> QED BY <1>9, <1>10, <1>14, <1>15, <1>16 DEF t, Less

\* It leads to a node that is done.
LEMMA SkipSearch ==
    ASSUME NEW edges, NEW visited, NEW path, NEW todo, NEW cycles, NEW x \in Finished(visited, path),
           Towards(edges, visited, path, todo, cycles, x)
    PROVE  Searching(edges, visited, path, todo, cycles)
<1>1. Ahead(edges, visited, path, todo, cycles) BY DEF Towards, AheadTo, Ahead
<1> QED BY <1>1 DEF Searching, Towards

\* Nothing has to be ahead.
LEMMA AnySearch ==
    ASSUME NEW edges, NEW visited, NEW path, NEW todo, NEW cycles, NEW x,
           Searching(edges, visited, path, todo, cycles)
    PROVE  Towards(edges, visited, path, todo, cycles, x)
<1>1. AheadTo(edges, visited, path, todo, cycles, x)
  BY DEF Searching, Ahead, AheadTo
<1> QED BY <1>1 DEF Searching, Towards

\* What follows the place of a node on the path is a cycle if an edge leads
\* from the last node back to it.
LEMMA FromIsCycle ==
    ASSUME NEW edges, IsGraph(edges), NEW visited, NEW path, NEW todo, Stacked(edges, visited, path, todo),
           NEW x \in Range(path), <<path[Len(path)], x>> \in Range(edges)
    PROVE  /\ From(path, x) \in Seq(Keys(edges)) /\ IsCycle(edges, From(path, x))
           /\ 1 \in DOMAIN From(path, x) /\ From(path, x)[1] = x
<1> DEFINE L == Len(path)
           c == CHOOSE n \in DOMAIN path : path[n] = x
           q == From(path, x)
           f == [k \in 1 .. L - c + 1 |-> path[c + k - 1]]
<1>1. path \in Seq(Keys(edges)) /\ L \in Nat /\ DOMAIN path = 1 .. L BY DEF Stacked
<1>2. \E n \in DOMAIN path : path[n] = x BY DEF Range
<1>3. c \in 1 .. L /\ path[c] = x BY <1>1, <1>2
<1>4. q = SubSeq(path, c, L) BY DEF From
<1> HIDE DEF c
<1>5. q = f
  <2>1. c \in Int /\ L \in Int BY <1>1, <1>3
  <2>2. SubSeq(path, c, L) = [k \in 1 .. 1 + L - c |-> path[k + c - 1]] BY <2>1
  <2>3. 1 + L - c = L - c + 1 BY <2>1
  <2>4. \A k \in 1 .. L - c + 1 : k + c - 1 = c + k - 1 BY <2>1
  <2> HIDE DEF L
  <2>5. SubSeq(path, c, L) = [k \in 1 .. L - c + 1 |-> path[k + c - 1]] BY <2>2, <2>3
  <2> QED BY <1>4, <2>4, <2>5
<1> HIDE DEF q
<1>6. L - c + 1 \in Nat \ {0} BY <1>1, <1>3
<1>7. \A k \in 1 .. L - c + 1 : c + k - 1 \in 1 .. L BY <1>1, <1>3
<1>8. q \in Seq(Keys(edges)) /\ Len(q) = L - c + 1 /\ DOMAIN q = 1 .. L - c + 1
      /\ \A k \in 1 .. L - c + 1 : q[k] = path[c + k - 1]
  <2>1. \A k \in 1 .. L - c + 1 : path[c + k - 1] \in Keys(edges) BY <1>1, <1>7
  <2> QED BY <1>5, <1>6, <2>1
<1>9. 1 \in 1 .. L - c + 1 /\ q[1] = x
  <2>1. c + 1 - 1 = c /\ 1 \in 1 .. L - c + 1 BY <1>3, <1>6
  <2> QED BY <1>3, <1>8, <2>1
<1>10. ASSUME NEW k \in 1 .. L - c + 1
       PROVE  <<q[k], IF k < Len(q) THEN q[k + 1] ELSE q[1]>> \in Range(edges)
  <2>1. CASE k < Len(q)
    <3>1. k + 1 \in 1 .. L - c + 1 /\ c + (k + 1) - 1 = (c + k - 1) + 1 BY <1>3, <1>6, <1>8, <2>1
    <3>2. c + k - 1 \in 1 .. L - 1 BY <1>1, <1>3, <1>8, <2>1
    <3>3. q[k] = path[c + k - 1] /\ q[k + 1] = path[(c + k - 1) + 1] BY <1>8, <3>1
    <3>4. <<path[c + k - 1], path[(c + k - 1) + 1]>> \in Range(edges) BY <3>2 DEF Stacked
    <3> QED BY <2>1, <3>3, <3>4
  <2>2. CASE ~(k < Len(q))
    <3>1. c + k - 1 = L BY <1>1, <1>3, <1>8, <2>2
    <3>2. q[k] = path[L] BY <1>8, <3>1
    <3> QED BY <1>9, <2>2, <3>2
  <2> QED BY <2>1, <2>2
<1>11. IsCycle(edges, q) BY <1>8, <1>10 DEF IsCycle
<1> QED BY <1>8, <1>9, <1>11 DEF q

\* It leads back to a node of the path: the cycle is reported.
LEMMA CloseSearch ==
    ASSUME NEW edges, IsGraph(edges), NEW visited, NEW path, NEW todo, NEW cycles, NEW x \in Range(path),
           Towards(edges, visited, path, todo, cycles, x), <<path[Len(path)], x>> \in Range(edges)
    PROVE  Searching(edges, visited, path, todo, Append(cycles, From(path, x)))
<1> DEFINE q == From(path, x)
           more == Append(cycles, q)
<1>1. Stacked(edges, visited, path, todo) /\ Cyclic(edges, cycles) BY DEF Towards
<1>2. q \in Seq(Keys(edges)) /\ IsCycle(edges, q) /\ 1 \in DOMAIN q /\ q[1] = x BY <1>1, FromIsCycle
<1> HIDE DEF q
<1>3. cycles \in Seq(Seq(Keys(edges))) /\ Len(cycles) \in Nat BY <1>1 DEF Cyclic
<1>4. /\ more \in Seq(Seq(Keys(edges))) /\ Len(more) = Len(cycles) + 1
      /\ (\A n \in 1 .. Len(cycles) : more[n] = cycles[n]) /\ more[Len(cycles) + 1] = q
  BY <1>2, <1>3, AppendFacts
<1>5. /\ DOMAIN more = 1 .. Len(cycles) + 1 /\ DOMAIN cycles = 1 .. Len(cycles)
      /\ \A n \in 1 .. Len(cycles) + 1 : n \in 1 .. Len(cycles) \/ n = Len(cycles) + 1
      /\ Len(cycles) + 1 \in 1 .. Len(cycles) + 1
      /\ \A n \in 1 .. Len(cycles) : n \in 1 .. Len(cycles) + 1
  BY <1>3, <1>4
<1> HIDE DEF more
<1>6. Cyclic(edges, more) BY <1>1, <1>2, <1>4, <1>5 DEF Cyclic
<1>7. \A y : Hit(cycles, y) => Hit(more, y) BY <1>4, <1>5 DEF Hit
<1>8. Hit(more, x) BY <1>2, <1>4, <1>5 DEF Hit
<1>9. Ahead(edges, visited, path, todo, more)
  <2>1. AheadTo(edges, visited, path, todo, cycles, x) BY DEF Towards
  <2> QED BY <1>7, <1>8, <2>1 DEF Ahead, AheadTo
<1>10. \E rank : Ranked(edges, Finished(visited, path), more, rank)
  <2>1. PICK rank : Ranked(edges, Finished(visited, path), cycles, rank) BY DEF Towards
  <2>2. Ranked(edges, Finished(visited, path), more, rank) BY <1>7, <2>1, HitMore
  <2> QED BY <2>2
<1>11. Searching(edges, visited, path, todo, more) BY <1>1, <1>6, <1>9, <1>10 DEF Searching
<1> QED BY <1>11 DEF more, q

\* The last node of the path is done.
LEMMA LeaveSearch ==
    ASSUME NEW edges, IsGraph(edges), IsFiniteSet(Objects), NEW visited, NEW path, NEW todo, NEW cycles,
           Searching(edges, visited, path, todo, cycles), Len(path) # 0, Last(todo) = {}
    PROVE  /\ Searching(edges, visited, Front(path), Front(todo), cycles)
           /\ Unseen(edges, visited, Front(todo)) = Unseen(edges, visited, todo)
           /\ Len(Front(path)) = Len(path) - 1
<1> DEFINE L == Len(path)
           p == Front(path)
           t == Front(todo)
           u == path[L]
           done == Finished(visited, path)
<1>1. Stacked(edges, visited, path, todo) BY DEF Searching
<1>2. path \in Seq(Keys(edges)) /\ todo \in Seq(SUBSET DOMAIN edges) /\ Len(todo) = L /\ L \in Nat /\ L # 0
  BY <1>1 DEF Stacked
<1>3. /\ t \in Seq(SUBSET DOMAIN edges) /\ Len(t) = L - 1 /\ (\A i \in 1 .. L - 1 : t[i] = todo[i])
      /\ todo[L] = {}
  BY <1>2, FrontFacts
<1>4. p \in Seq(Keys(edges)) /\ Len(p) = L - 1 /\ (\A i \in 1 .. L - 1 : p[i] = path[i])
  BY <1>2, FrontFacts
<1> HIDE DEF p, t
<1>5. /\ \A i \in 1 .. L : i \in 1 .. L - 1 \/ i = L
      /\ \A i \in 1 .. L - 1 : i \in 1 .. L /\ i # L
      /\ L \in 1 .. L
  BY <1>2
<1>6. u \in visited /\ u \in Keys(edges) BY <1>1, <1>5 DEF Stacked
<1>7. ASSUME NEW y PROVE y \in Range(path) <=> y \in Range(p) \/ y = u
  <2>1. y \in Range(p) <=> \E i \in 1 .. L - 1 : p[i] = y BY <1>4, RangeOf
  <2>2. y \in Range(path) <=> \E i \in 1 .. L : path[i] = y BY <1>2, RangeOf
  <2> QED BY <1>4, <1>5, <2>1, <2>2
<1>8. u \notin Range(p)
  <2>1. u \in Range(p) <=> \E i \in 1 .. L - 1 : p[i] = u BY <1>4, RangeOf
  <2> QED BY <1>1, <1>4, <1>5, <2>1 DEF Stacked
<1>9. Finished(visited, p) = done \cup {u} /\ u \notin done BY <1>6, <1>7, <1>8 DEF Finished
<1>10. Stacked(edges, visited, p, t)
  <2>1. \A i \in 1 .. L - 1 : p[i] \in visited /\ t[i] \subseteq Children(edges, p[i])
    BY <1>1, <1>3, <1>4, <1>5 DEF Stacked
  <2>2. \A i, j \in 1 .. L - 1 : p[i] = p[j] => i = j BY <1>1, <1>4, <1>5 DEF Stacked
  <2>3. ASSUME NEW i \in 1 .. L - 1 - 1 PROVE <<p[i], p[i + 1]>> \in Range(edges)
    <3>1. i \in 1 .. L - 1 /\ i + 1 \in 1 .. L - 1 BY <1>2
    <3> QED BY <1>1, <1>4, <3>1 DEF Stacked
  <2>4. visited \subseteq Keys(edges) BY <1>1 DEF Stacked
  <2> QED BY <1>3, <1>4, <2>1, <2>2, <2>3, <2>4 DEF Stacked
<1>11. ASSUME NEW n \in Children(edges, u) PROVE Hit(cycles, edges[n][2]) \/ edges[n][2] \in done
  <2>1. n \in Children(edges, path[L]) \ todo[L] BY <1>3
  <2>2. \/ Hit(cycles, edges[n][2]) \/ edges[n][2] \in done
        \/ L < L /\ edges[n][2] = path[L + 1]
    BY <1>5, <2>1 DEF Searching, Ahead
  <2>3. ~(L < L) BY <1>2
  <2> QED BY <2>2, <2>3
<1>12. Ahead(edges, visited, p, t, cycles)
  <2>1. ASSUME NEW i \in 1 .. L - 1, NEW n \in Children(edges, p[i]) \ t[i]
        PROVE  \/ Hit(cycles, edges[n][2])
               \/ edges[n][2] \in Finished(visited, p)
               \/ i < L - 1 /\ edges[n][2] = p[i + 1]
    <3>1. i \in 1 .. L /\ n \in Children(edges, path[i]) \ todo[i] BY <1>3, <1>4, <1>5, <2>1
    <3>2. \/ Hit(cycles, edges[n][2]) \/ edges[n][2] \in done
          \/ i < L /\ edges[n][2] = path[i + 1]
      BY <3>1 DEF Searching, Ahead
    <3>3. i < L BY <1>2
    <3>4. CASE i < L - 1
      <4>1. i + 1 \in 1 .. L - 1 BY <1>2, <3>4
      <4> QED BY <1>4, <1>9, <3>2, <3>3, <3>4, <4>1
    <3>5. CASE ~(i < L - 1)
      <4>1. i + 1 = L BY <1>2, <3>5
      <4> QED BY <1>9, <3>2, <3>3, <4>1
    <3> QED BY <3>4, <3>5
  <2> QED BY <1>4, <2>1 DEF Ahead
<1>13. IsFiniteSet(done) /\ Cardinality(done) \in Nat
       /\ Cardinality(done \cup {u}) = Cardinality(done) + 1
  <2>1. done \in SUBSET Objects BY <1>1, RowFacts DEF Stacked, Finished
  <2> HIDE DEF done
  <2>2. IsFiniteSet(done) BY <2>1, FS_Subset
  <2> QED BY <1>9, <2>2, FS_CardinalityType, FS_AddElement
<1>14. \E rank : Ranked(edges, done \cup {u}, cycles, rank)
  <2>1. PICK rank : Ranked(edges, done, cycles, rank) BY DEF Searching
  <2> DEFINE c == Cardinality(done)
             new == [rank EXCEPT ![u] = c]
  <2> HIDE DEF done, u
  <2>2. rank \in [Keys(edges) -> Nat] BY <2>1 DEF Ranked
  <2>3. new \in [Keys(edges) -> Nat] /\ new[u] = c /\ \A y \in Keys(edges) : y # u => new[y] = rank[y]
    BY <1>6, <1>13, <2>2
  <2>4. done \subseteq Keys(edges) BY <1>1 DEF done, Stacked, Finished
  <2>5. \A y \in done : y # u /\ new[y] = rank[y] /\ rank[y] < c BY <1>9, <2>1, <2>3, <2>4 DEF Ranked
  <2> HIDE DEF new
  <2>6. ASSUME NEW y \in done \cup {u} PROVE new[y] < Cardinality(done \cup {u})
    <3>1. CASE y = u BY <1>13, <2>3, <3>1
    <3>2. CASE y \in done
      <4>1. new[y] \in Nat BY <2>3, <2>4, <3>2
      <4> QED BY <1>13, <2>5, <3>2, <4>1
    <3> QED BY <3>1, <3>2
  <2>7. ASSUME NEW n \in DOMAIN edges, edges[n][1] \in done \cup {u}
        PROVE  \/ Hit(cycles, edges[n][2])
               \/ edges[n][2] \in done \cup {u} /\ new[edges[n][2]] < new[edges[n][1]]
    <3>1. CASE edges[n][1] = u
      <4>1. n \in Children(edges, u) BY <3>1 DEF Children
      <4>2. Hit(cycles, edges[n][2]) \/ edges[n][2] \in done BY <1>11, <4>1
      <4> QED BY <2>3, <2>5, <3>1, <4>2
    <3>2. CASE edges[n][1] \in done
      <4>1. Hit(cycles, edges[n][2]) \/ (edges[n][2] \in done /\ rank[edges[n][2]] < rank[edges[n][1]])
        BY <2>1, <3>2 DEF Ranked
      <4> QED BY <2>5, <3>2, <4>1
    <3> QED BY <2>7, <3>1, <3>2
  <2>8. Ranked(edges, done \cup {u}, cycles, new) BY <2>3, <2>6, <2>7 DEF Ranked
  <2> QED BY <2>8
<1>15. Unseen(edges, visited, t) = Unseen(edges, visited, todo)
  <2>1. \A n \in DOMAIN edges : (\E i \in 1 .. L - 1 : n \in t[i]) <=> (\E i \in 1 .. L : n \in todo[i])
    BY <1>3, <1>5
  <2> QED BY <1>2, <1>3, <2>1 DEF Unseen
<1>16. Searching(edges, visited, p, t, cycles) BY <1>9, <1>10, <1>12, <1>14 DEF Searching
<1> QED BY <1>4, <1>15, <1>16 DEF p, t

\* A state of the search, and those that a search can be in.
Searches(edges) ==
    [visited : SUBSET Keys(edges), path : Seq(Keys(edges)), todo : Seq(SUBSET DOMAIN edges),
     cycles : Seq(Seq(Keys(edges)))]

Sound(edges) == {st \in Searches(edges) : Searching(edges, st.visited, st.path, st.todo, st.cycles)}

\* The steps that are left, at most: of rows, of nodes that are left and of
\* nodes that are entered.
Work(edges, st) ==
    Cardinality(Unseen(edges, st.visited, st.todo)) + Len(st.path) + Cardinality(Keys(edges) \ st.visited)

\* The state that has these parts.
StateOf(visited, path, todo, cycles) ==
    [visited |-> visited, path |-> path, todo |-> todo, cycles |-> cycles]

\* A search is in a sound state if its parts fit.
LEMMA SoundParts ==
    ASSUME NEW edges, NEW visited, NEW path, NEW todo, NEW cycles, Searching(edges, visited, path, todo, cycles)
    PROVE  StateOf(visited, path, todo, cycles) \in Sound(edges)
<1> DEFINE st == StateOf(visited, path, todo, cycles)
<1>1. visited \in SUBSET Keys(edges) /\ path \in Seq(Keys(edges)) /\ todo \in Seq(SUBSET DOMAIN edges)
  BY DEF Searching, Stacked
<1>2. cycles \in Seq(Seq(Keys(edges))) BY DEF Searching, Cyclic
<1>3. st \in Searches(edges) BY <1>1, <1>2 DEF Searches, StateOf
<1>4. st.visited = visited /\ st.path = path /\ st.todo = todo /\ st.cycles = cycles BY DEF StateOf
<1> QED BY <1>3, <1>4 DEF Sound

\* Its parts, the other way round.
LEMMA PartsSound ==
    ASSUME NEW edges, NEW st \in Sound(edges)
    PROVE  /\ Searching(edges, st.visited, st.path, st.todo, st.cycles)
           /\ st.visited \subseteq Keys(edges) /\ st.path \in Seq(Keys(edges))
           /\ st.todo \in Seq(SUBSET DOMAIN edges) /\ Len(st.todo) = Len(st.path) /\ Len(st.path) \in Nat
           /\ (st.todo = <<>> <=> Len(st.path) = 0)
           /\ st = StateOf(st.visited, st.path, st.todo, st.cycles)
<1>1. st \in Searches(edges) /\ Searching(edges, st.visited, st.path, st.todo, st.cycles) BY DEF Sound
<1>2. st = StateOf(st.visited, st.path, st.todo, st.cycles) BY <1>1 DEF Searches, StateOf
<1>3. Len(st.todo) = Len(st.path) /\ st.path \in Seq(Keys(edges)) /\ st.todo \in Seq(SUBSET DOMAIN edges)
      /\ st.visited \subseteq Keys(edges)
  BY <1>1 DEF Searching, Stacked
<1>4. Len(st.path) \in Nat /\ (st.todo = <<>> <=> Len(st.path) = 0) BY <1>3
<1> QED BY <1>1, <1>2, <1>3, <1>4

\* What is counted is finite.
LEMMA CountsFinite ==
    ASSUME NEW edges, IsGraph(edges), IsFiniteSet(Objects), NEW visited, NEW todo
    PROVE  /\ IsFiniteSet(Keys(edges)) /\ Cardinality(Keys(edges)) \in Nat
           /\ IsFiniteSet(Unseen(edges, visited, todo)) /\ Cardinality(Unseen(edges, visited, todo)) \in Nat
           /\ Cardinality(Unseen(edges, visited, todo)) <= Len(edges)
           /\ IsFiniteSet(Keys(edges) \ visited) /\ Cardinality(Keys(edges) \ visited) \in Nat
           /\ Cardinality(Keys(edges) \ visited) <= Cardinality(Keys(edges))
<1>1. Keys(edges) \in SUBSET Objects /\ DOMAIN edges = 1 .. Len(edges) /\ Len(edges) \in Nat BY RowFacts
<1>2. IsFiniteSet(Keys(edges)) BY <1>1, FS_Subset
<1>3. IsFiniteSet(1 .. Len(edges)) /\ Cardinality(1 .. Len(edges)) = Len(edges)
  <2>1. 1 \in Int /\ Len(edges) \in Int BY <1>1
  <2>2. IsFiniteSet(1 .. Len(edges))
        /\ Cardinality(1 .. Len(edges)) = IF 1 > Len(edges) THEN 0 ELSE Len(edges) - 1 + 1
    BY <2>1, FS_Interval
  <2> QED BY <1>1, <2>2
<1>4. Unseen(edges, visited, todo) \in SUBSET (1 .. Len(edges)) BY <1>1 DEF Unseen
<1>5. IsFiniteSet(Unseen(edges, visited, todo)) /\ Cardinality(Unseen(edges, visited, todo)) <= Len(edges)
  BY <1>3, <1>4, FS_Subset
<1>6. Keys(edges) \ visited \in SUBSET Keys(edges) OBVIOUS
<1>7. IsFiniteSet(Keys(edges) \ visited) /\ Cardinality(Keys(edges) \ visited) <= Cardinality(Keys(edges))
  BY <1>2, <1>6, FS_Subset
<1> QED BY <1>2, <1>5, <1>7, FS_CardinalityType

\* One node less is new.
LEMMA OneLess ==
    ASSUME NEW edges, IsGraph(edges), IsFiniteSet(Objects), NEW visited, NEW x \in Keys(edges) \ visited
    PROVE  /\ Cardinality(Keys(edges) \ With(visited, x)) = Cardinality(Keys(edges) \ visited) - 1
           /\ Cardinality(Keys(edges) \ visited) \in Nat
<1>1. Keys(edges) \ With(visited, x) = (Keys(edges) \ visited) \ {x} BY DEF With
<1>2. IsFiniteSet(Keys(edges) \ visited) /\ Cardinality(Keys(edges) \ visited) \in Nat BY CountsFinite
<1> HIDE DEF IsGraph
<1> QED BY <1>1, <1>2, FS_RemoveElement

\* The parts of a state.
LEMMA FieldsOf ==
    ASSUME NEW v, NEW p, NEW t, NEW c
    PROVE  /\ StateOf(v, p, t, c).visited = v /\ StateOf(v, p, t, c).path = p
           /\ StateOf(v, p, t, c).todo = t /\ StateOf(v, p, t, c).cycles = c
BY DEF StateOf

\* They have names of their own.
LEMMA PartsOf ==
    ASSUME NEW edges, NEW st \in Sound(edges)
    PROVE  \E v, p, t, c :
              /\ st = StateOf(v, p, t, c)
              /\ Searching(edges, v, p, t, c)
              /\ Len(p) \in Nat /\ (t = <<>> <=> Len(p) = 0)
              /\ t \in Seq(SUBSET DOMAIN edges) /\ Len(t) = Len(p)
BY PartsSound

\* What a node that is entered changes.
LEMMA EnterIs ==
    ASSUME NEW edges, NEW v, NEW p, NEW t, NEW c, NEW x
    PROVE  Enter(edges, StateOf(v, p, t, c), x)
              = StateOf(With(v, x), Append(p, x), Append(t, Children(edges, x)), c)
<1> DEFINE st == StateOf(v, p, t, c)
           a == With(v, x)
           b == Append(p, x)
           d == Append(t, Children(edges, x))
           one == [st EXCEPT !.visited = a]
           two == [one EXCEPT !.path = b]
           three == [two EXCEPT !.todo = d]
<1>1. st.visited = v /\ st.path = p /\ st.todo = t BY FieldsOf
<1>2. st = [visited |-> v, path |-> p, todo |-> t, cycles |-> c] BY DEF StateOf
<1> HIDE DEF st
<1>3. Enter(edges, st, x) = three BY <1>1 DEF Enter, With
<1> HIDE DEF a, b, d
<1>4. one = [visited |-> a, path |-> p, todo |-> t, cycles |-> c] BY <1>2
<1> HIDE DEF one
<1>5. two = [visited |-> a, path |-> b, todo |-> t, cycles |-> c] BY <1>4
<1> HIDE DEF two
<1>6. three = [visited |-> a, path |-> b, todo |-> d, cycles |-> c] BY <1>5
<1> HIDE DEF three
<1>7. Enter(edges, st, x) = StateOf(a, b, d, c) BY <1>3, <1>6 DEF StateOf
<1> QED BY <1>7 DEF st, a, b, d

\* What a node that is left changes.
LEMMA LeaveIs ==
    ASSUME NEW v, NEW p, NEW t, NEW c
    PROVE  Leave(StateOf(v, p, t, c)) = StateOf(v, Front(p), Front(t), c)
<1> DEFINE st == StateOf(v, p, t, c)
           b == Front(p)
           d == Front(t)
           one == [st EXCEPT !.todo = d]
           two == [one EXCEPT !.path = b]
<1>1. st.path = p /\ st.todo = t BY FieldsOf
<1>2. st = [visited |-> v, path |-> p, todo |-> t, cycles |-> c] BY DEF StateOf
<1> HIDE DEF st
<1>3. Leave(st) = two BY <1>1 DEF Leave
<1> HIDE DEF b, d
<1>4. one = [visited |-> v, path |-> p, todo |-> d, cycles |-> c] BY <1>2
<1> HIDE DEF one
<1>5. two = [visited |-> v, path |-> b, todo |-> d, cycles |-> c] BY <1>4
<1> HIDE DEF two
<1>6. Leave(st) = StateOf(v, b, d, c) BY <1>3, <1>5 DEF StateOf
<1> QED BY <1>6 DEF st, b, d

\* What is left of the children of the last node.
Rest(t, row) == Append(Front(t), Less(Last(t), row))

\* What a row that is looked at changes.
LEMMA LookIs ==
    ASSUME NEW edges, NEW v, NEW p, NEW t, NEW c, NEW row, NEW x, x = edges[row][2]
    PROVE  /\ x \notin v => Look(edges, StateOf(v, p, t, c), row) = Enter(edges, StateOf(v, p, Rest(t, row), c), x)
           /\ x \in v /\ x \in Range(p) =>
                 Look(edges, StateOf(v, p, t, c), row) = StateOf(v, p, Rest(t, row), Append(c, From(p, x)))
           /\ x \in v /\ x \notin Range(p) =>
                 Look(edges, StateOf(v, p, t, c), row) = StateOf(v, p, Rest(t, row), c)
<1> DEFINE st == StateOf(v, p, t, c)
           u == Rest(t, row)
           e == Append(c, From(p, x))
           rest == [st EXCEPT !.todo = u]
           more == [rest EXCEPT !.cycles = e]
<1>1. st.visited = v /\ st.path = p /\ st.todo = t BY FieldsOf
<1>2. st = [visited |-> v, path |-> p, todo |-> t, cycles |-> c] BY DEF StateOf
<1> HIDE DEF st
<1>3. [st EXCEPT !.todo = Append(Front(st.todo), Last(st.todo) \ {row})] = rest BY <1>1 DEF Rest, Less
<1> HIDE DEF u
<1>4. rest = [visited |-> v, path |-> p, todo |-> u, cycles |-> c] BY <1>2
<1> HIDE DEF rest
<1>5. rest.cycles = c BY <1>4
<1>6. Look(edges, st, row) =
         IF x \notin v THEN Enter(edges, rest, x)
         ELSE IF x \in Range(p) THEN [rest EXCEPT !.cycles = Append(rest.cycles, From(p, x))] ELSE rest
  BY <1>1, <1>3 DEF Look
<1>7. [rest EXCEPT !.cycles = Append(rest.cycles, From(p, x))] = more BY <1>5
<1> HIDE DEF e
<1>8. more = [visited |-> v, path |-> p, todo |-> u, cycles |-> e] BY <1>4
<1> HIDE DEF more
<1>9. rest = StateOf(v, p, u, c) /\ more = StateOf(v, p, u, e) BY <1>4, <1>8 DEF StateOf
<1>10. /\ x \notin v => Look(edges, st, row) = Enter(edges, rest, x)
       /\ x \in v /\ x \in Range(p) => Look(edges, st, row) = more
       /\ x \in v /\ x \notin Range(p) => Look(edges, st, row) = rest
  BY <1>6, <1>7
<1> QED BY <1>9, <1>10 DEF st, u, e

\* The work of a state by its parts.
LEMMA WorkIs ==
    ASSUME NEW edges, NEW v, NEW p, NEW t, NEW c
    PROVE  Work(edges, StateOf(v, p, t, c))
              = Cardinality(Unseen(edges, v, t)) + Len(p) + Cardinality(Keys(edges) \ v)
<1> DEFINE st == StateOf(v, p, t, c)
<1>1. st.visited = v /\ st.path = p /\ st.todo = t BY FieldsOf
<1> HIDE DEF st
<1>2. Work(edges, st) = Cardinality(Unseen(edges, v, t)) + Len(p) + Cardinality(Keys(edges) \ v)
  BY <1>1 DEF Work
<1> QED BY <1>2 DEF st

\* What the state is once a node was entered: as much work is left as before.
Entered(edges, v, p, t, c, x, to) ==
    /\ to \in Sound(edges) /\ to.visited = With(v, x)
    /\ Work(edges, to) = Cardinality(Unseen(edges, v, t)) + Len(p) + Cardinality(Keys(edges) \ v)

\* Entering a node that was not visited: a node less is new, and the path is
\* one longer.
LEMMA EnterSound ==
    ASSUME NEW edges, IsGraph(edges), IsFiniteSet(Objects), NEW v, NEW p, NEW t, NEW c,
           NEW x \in Keys(edges) \ v, Towards(edges, v, p, t, c, x), Len(p) \in Nat,
           Len(p) # 0 => <<p[Len(p)], x>> \in Range(edges)
    PROVE  Entered(edges, v, p, t, c, x, Enter(edges, StateOf(v, p, t, c), x))
<1> DEFINE w == With(v, x)
           q == Append(p, x)
           u == Append(t, Children(edges, x))
<1>1. Searching(edges, w, q, u, c) /\ Unseen(edges, w, u) = Unseen(edges, v, t) /\ Len(q) = Len(p) + 1
  BY EnterSearch
<1>2. Enter(edges, StateOf(v, p, t, c), x) = StateOf(w, q, u, c) BY EnterIs
<1>3. Cardinality(Keys(edges) \ w) = Cardinality(Keys(edges) \ v) - 1 /\ Cardinality(Keys(edges) \ v) \in Nat
  BY OneLess
<1> HIDE DEF w, q, u
<1>4. Cardinality(Unseen(edges, v, t)) \in Nat BY CountsFinite
<1>5. StateOf(w, q, u, c) \in Sound(edges) BY <1>1, SoundParts
<1>6. Work(edges, StateOf(w, q, u, c)) = Cardinality(Unseen(edges, w, u)) + Len(q) + Cardinality(Keys(edges) \ w)
  BY WorkIs
<1>7. Work(edges, StateOf(w, q, u, c)) = Cardinality(Unseen(edges, v, t)) + Len(p) + Cardinality(Keys(edges) \ v)
  BY <1>1, <1>3, <1>4, <1>6
<1>8. StateOf(w, q, u, c).visited = w BY FieldsOf
<1> QED BY <1>2, <1>5, <1>7, <1>8 DEF w, Entered

\* A search begins with a node that was not visited.
LEMMA BeginSearch ==
    ASSUME NEW edges, IsGraph(edges), IsFiniteSet(Objects), NEW st \in Sound(edges), st.todo = <<>>,
           NEW x \in Keys(edges), x \notin st.visited
    PROVE  /\ Enter(edges, st, x) \in Sound(edges)
           /\ Enter(edges, st, x).visited = With(st.visited, x)
           /\ Work(edges, Enter(edges, st, x)) \in Nat
           /\ Work(edges, Enter(edges, st, x)) <= Len(edges) + Cardinality(Keys(edges))
<1> DEFINE to == Enter(edges, st, x)
<1>1. PICK v, p, t, c : st = StateOf(v, p, t, c) /\ Searching(edges, v, p, t, c) /\ (t = <<>> <=> Len(p) = 0)
  BY PartsOf
<1>2. st.visited = v /\ st.todo = t
  <2>1. StateOf(v, p, t, c).visited = v /\ StateOf(v, p, t, c).todo = t BY FieldsOf
  <2> QED BY <1>1, <2>1
<1>3. Len(p) = 0 /\ x \in Keys(edges) \ v BY <1>1, <1>2
<1>4. Towards(edges, v, p, t, c, x) BY <1>1, AnySearch
<1>5. /\ to \in Sound(edges) /\ to.visited = With(v, x)
      /\ Work(edges, to) = Cardinality(Unseen(edges, v, t)) + Len(p) + Cardinality(Keys(edges) \ v)
  <2>1. Len(p) \in Nat /\ (Len(p) # 0 => <<p[Len(p)], x>> \in Range(edges)) BY <1>3
  <2>2. Entered(edges, v, p, t, c, x, Enter(edges, StateOf(v, p, t, c), x)) BY <1>3, <1>4, <2>1, EnterSound
  <2> QED BY <1>1, <2>2 DEF Entered
<1> HIDE DEF to
<1>6. /\ Cardinality(Unseen(edges, v, t)) <= Len(edges) /\ Cardinality(Unseen(edges, v, t)) \in Nat
      /\ Cardinality(Keys(edges)) \in Nat /\ Len(edges) \in Nat
      /\ Cardinality(Keys(edges) \ v) <= Cardinality(Keys(edges)) /\ Cardinality(Keys(edges) \ v) \in Nat
  BY CountsFinite, RowFacts
<1>7. Work(edges, to) \in Nat /\ Work(edges, to) <= Len(edges) + Cardinality(Keys(edges))
  BY <1>3, <1>5, <1>6
<1> QED BY <1>2, <1>5, <1>7 DEF to

\* A step of the search leaves a sound state, with less work.
LEMMA StepSearch ==
    ASSUME NEW edges, IsGraph(edges), IsFiniteSet(Objects), NEW st \in Sound(edges), st.todo # <<>>
    PROVE  /\ DfsStep(edges, st) \in Sound(edges)
           /\ st.visited \subseteq DfsStep(edges, st).visited
           /\ Work(edges, st) \in Nat /\ Work(edges, DfsStep(edges, st)) = Work(edges, st) - 1
<1> DEFINE to == DfsStep(edges, st)
           Fits(o) == o \in Sound(edges) /\ st.visited \subseteq o.visited /\ Work(edges, o) = Work(edges, st) - 1
<1>1. PICK v, p, t, c : /\ st = StateOf(v, p, t, c)
                        /\ Searching(edges, v, p, t, c)
                        /\ Len(p) \in Nat /\ (t = <<>> <=> Len(p) = 0)
                        /\ t \in Seq(SUBSET DOMAIN edges) /\ Len(t) = Len(p)
  BY PartsOf
<1>2. st.visited = v /\ st.todo = t
  <2>1. StateOf(v, p, t, c).visited = v /\ StateOf(v, p, t, c).todo = t BY FieldsOf
  <2> QED BY <1>1, <2>1
<1>3. Len(p) # 0 /\ Len(t) # 0 BY <1>1, <1>2
<1>4. \A w, u : /\ Cardinality(Unseen(edges, w, u)) \in Nat /\ Cardinality(Keys(edges) \ w) \in Nat
                /\ IsFiniteSet(Unseen(edges, w, u))
  BY CountsFinite
<1>5. Work(edges, st) = Cardinality(Unseen(edges, v, t)) + Len(p) + Cardinality(Keys(edges) \ v)
  <2>1. Work(edges, StateOf(v, p, t, c)) = Cardinality(Unseen(edges, v, t)) + Len(p) + Cardinality(Keys(edges) \ v)
    BY WorkIs
  <2> QED BY <1>1, <2>1
<1>6. Work(edges, st) \in Nat BY <1>1, <1>4, <1>5
<1>7. ASSUME Last(t) = {} PROVE Fits(to)
  <2> DEFINE q == Front(p)
             u == Front(t)
  <2>1. to = Leave(st) BY <1>2, <1>7 DEF DfsStep
  <2>2. Leave(StateOf(v, p, t, c)) = StateOf(v, q, u, c) BY LeaveIs
  <2>3. Searching(edges, v, q, u, c) /\ Unseen(edges, v, u) = Unseen(edges, v, t) /\ Len(q) = Len(p) - 1
    BY <1>1, <1>3, <1>7, LeaveSearch
  <2> HIDE DEF q, u
  <2>4. to = StateOf(v, q, u, c) BY <1>1, <2>1, <2>2
  <2>5. StateOf(v, q, u, c) \in Sound(edges) BY <2>3, SoundParts
  <2>6. Work(edges, StateOf(v, q, u, c)) = Cardinality(Unseen(edges, v, u)) + Len(q) + Cardinality(Keys(edges) \ v)
    BY WorkIs
  <2>7. StateOf(v, q, u, c).visited = v BY FieldsOf
  <2> HIDE DEF to
  <2>8. Work(edges, to) = Work(edges, st) - 1 BY <1>1, <1>4, <1>5, <2>3, <2>4, <2>6
  <2> QED BY <1>2, <2>4, <2>5, <2>7, <2>8
<1>8. ASSUME Last(t) # {} PROVE Fits(to)
  <2> DEFINE row == Min(Last(t))
             x == edges[row][2]
             u == Rest(t, row)
  <2>1. row \in Last(t)
    <3>1. Last(t) \in SUBSET DOMAIN edges BY <1>1, <1>3, FrontFacts
    <3>2. Last(t) \in SUBSET Nat BY <3>1, RowFacts
    <3> QED BY <1>8, <3>2, LeastOf
  <2>2. to = Look(edges, StateOf(v, p, t, c), row) BY <1>1, <1>2, <1>8 DEF DfsStep
  <2> HIDE DEF row
  <2>3. /\ row \in DOMAIN edges
        /\ Towards(edges, v, p, u, c, x)
        /\ Unseen(edges, v, u) = Less(Unseen(edges, v, t), row)
        /\ row \in Unseen(edges, v, t)
        /\ <<p[Len(p)], x>> \in Range(edges)
    <3>1. LET r == Append(Front(t), Less(Last(t), row)) IN
          /\ row \in DOMAIN edges
          /\ Towards(edges, v, p, r, c, edges[row][2])
          /\ Unseen(edges, v, r) = Less(Unseen(edges, v, t), row)
          /\ row \in Unseen(edges, v, t)
          /\ <<p[Len(p)], edges[row][2]>> \in Range(edges)
      BY <1>1, <1>3, <2>1, LookSearch
    <3> QED BY <3>1 DEF Rest
  <2>4. x \in Keys(edges) BY <2>3, RowFacts
  <2> HIDE DEF u, to
  <2>5. Cardinality(Unseen(edges, v, u)) = Cardinality(Unseen(edges, v, t)) - 1
    <3> DEFINE S == Unseen(edges, v, t)
    <3>1. IsFiniteSet(S) /\ row \in S BY <1>4, <2>3
    <3> HIDE DEF S
    <3>2. Cardinality(S \ {row}) = Cardinality(S) - 1 BY <3>1, FS_RemoveElement
    <3> QED BY <2>3, <3>2 DEF S, Less
  <2>6. /\ x \notin v => to = Enter(edges, StateOf(v, p, u, c), x)
        /\ x \in v /\ x \in Range(p) => to = StateOf(v, p, u, Append(c, From(p, x)))
        /\ x \in v /\ x \notin Range(p) => to = StateOf(v, p, u, c)
    BY <2>2, LookIs DEF u
  <2> HIDE DEF x
  <2>7. ASSUME x \notin v PROVE Fits(to)
    <3> DEFINE o == Enter(edges, StateOf(v, p, u, c), x)
    <3>1. x \in Keys(edges) \ v BY <2>4, <2>7
    <3>2. /\ o \in Sound(edges) /\ o.visited = With(v, x)
          /\ Work(edges, o) = Cardinality(Unseen(edges, v, u)) + Len(p) + Cardinality(Keys(edges) \ v)
      <4>1. Len(p) \in Nat /\ (Len(p) # 0 => <<p[Len(p)], x>> \in Range(edges)) BY <1>1, <2>3
      <4>2. Entered(edges, v, p, u, c, x, o) BY <2>3, <3>1, <4>1, EnterSound
      <4> QED BY <4>2 DEF Entered
    <3>3. to = o BY <2>6, <2>7
    <3> HIDE DEF o
    <3>4. Work(edges, o) = Work(edges, st) - 1 BY <1>1, <1>4, <1>5, <2>5, <3>2
    <3> QED BY <1>2, <3>2, <3>3, <3>4 DEF With
  <2>8. ASSUME NEW d, Searching(edges, v, p, u, d), to = StateOf(v, p, u, d) PROVE Fits(to)
    <3>1. StateOf(v, p, u, d) \in Sound(edges) BY <2>8, SoundParts
    <3>2. Work(edges, StateOf(v, p, u, d)) = Cardinality(Unseen(edges, v, u)) + Len(p) + Cardinality(Keys(edges) \ v)
      BY WorkIs
    <3>3. StateOf(v, p, u, d).visited = v BY FieldsOf
    <3>4. Work(edges, to) = Work(edges, st) - 1 BY <1>1, <1>4, <1>5, <2>5, <2>8, <3>2
    <3> QED BY <1>2, <2>8, <3>1, <3>3, <3>4
  <2> HIDE DEF Fits
  <2>9. ASSUME x \in v, x \in Range(p) PROVE Fits(to)
    <3> DEFINE d == Append(c, From(p, x))
    <3>1. Searching(edges, v, p, u, d) BY <2>3, <2>9, CloseSearch
    <3>2. to = StateOf(v, p, u, d) BY <2>6, <2>9
    <3> HIDE DEF d
    <3> QED BY <2>8, <3>1, <3>2
  <2>10. ASSUME x \in v, x \notin Range(p) PROVE Fits(to)
    <3>1. x \in Finished(v, p) BY <2>10 DEF Finished
    <3>2. Searching(edges, v, p, u, c) BY <2>3, <3>1, SkipSearch
    <3>3. to = StateOf(v, p, u, c) BY <2>6, <2>10
    <3> QED BY <2>8, <3>2, <3>3
  <2> QED BY <2>7, <2>9, <2>10
<1> QED BY <1>6, <1>7, <1>8

\* A sequence of states, each of which follows from the one before it.
Chain(f, first, next, n) == f = [k \in 0 .. n |-> IF k = 0 THEN first ELSE next[k][f[k - 1]]]

\* There is one of every length.
LEMMA ChainExists == ASSUME NEW first, NEW next PROVE \A n \in Nat : \E f : Chain(f, first, next, n)
<1> DEFINE S == {n \in Nat : \E f : Chain(f, first, next, n)}
<1>1. 0 \in S
  <2> DEFINE g == [k \in 0 .. 0 |-> first]
  <2>1. Chain(g, first, next, 0) BY DEF Chain
  <2> QED BY <2>1
<1>2. ASSUME NEW n \in Nat, n \in S PROVE n + 1 \in S
  <2>1. PICK f : Chain(f, first, next, n) BY <1>2
  <2> DEFINE last == next[n + 1][f[n]]
             g == [k \in 0 .. n + 1 |-> IF k = n + 1 THEN last ELSE f[k]]
  <2>2. ASSUME NEW k \in 0 .. n + 1 PROVE g[k] = IF k = 0 THEN first ELSE next[k][g[k - 1]]
    <3>1. CASE k = n + 1
      <4>1. g[k] = last /\ g[k - 1] = f[n] BY <3>1
      <4> QED BY <3>1, <4>1
    <3>2. CASE k # n + 1
      <4>1. k \in 0 .. n /\ g[k] = f[k] BY <3>2
      <4>2. k # 0 => g[k - 1] = f[k - 1] BY <3>2
      <4>3. f[k] = IF k = 0 THEN first ELSE next[k][f[k - 1]] BY <2>1, <4>1 DEF Chain
      <4> HIDE DEF g
      <4> QED BY <4>1, <4>2, <4>3
    <3> QED BY <3>1, <3>2
  <2>3. g = [k \in 0 .. n + 1 |-> g[k]] OBVIOUS
  <2> HIDE DEF g
  <2>4. Chain(g, first, next, n + 1) BY <2>2, <2>3 DEF Chain
  <2> QED BY <2>4
<1>3. \A n \in Nat : n \in S
  <2> HIDE DEF S
  <2> QED BY <1>1, <1>2, NatSteps
<1> QED BY <1>3

\* The states that the search goes through.
After(edges, st, last, f) ==
    f = [n \in 0 .. last |->
            IF n = 0 THEN st ELSE IF f[n - 1].todo = <<>> THEN f[n - 1] ELSE DfsStep(edges, f[n - 1])]

\* What the search has come to after so many steps.
Progress(edges, st, x, n) ==
    /\ x \in Sound(edges) /\ st.visited \subseteq x.visited
    /\ x.todo = <<>> \/ (Work(edges, x) \in Nat /\ Work(edges, x) + n <= Work(edges, st))

\* It gets on with every step.
LEMMA ProgressMade ==
    ASSUME NEW edges, IsGraph(edges), IsFiniteSet(Objects), NEW st \in Sound(edges), Work(edges, st) \in Nat,
           NEW last \in Nat, NEW f, After(edges, st, last, f)
    PROVE  \A n \in Nat : n <= last => Progress(edges, st, f[n], n)
<1> DEFINE S == {n \in Nat : n <= last => Progress(edges, st, f[n], n)}
<1>1. 0 \in S
  <2>1. f[0] = st BY DEF After
  <2> QED BY <2>1 DEF Progress
<1>2. ASSUME NEW n \in Nat, n \in S PROVE n + 1 \in S
  <2> SUFFICES ASSUME n + 1 <= last PROVE Progress(edges, st, f[n + 1], n + 1) OBVIOUS
  <2> DEFINE x == f[n]
             y == DfsStep(edges, x)
  <2>1. Progress(edges, st, x, n) BY <1>2
  <2>2. f[n + 1] = IF x.todo = <<>> THEN x ELSE y
    <3>1. n + 1 \in 0 .. last /\ n + 1 # 0 /\ (n + 1) - 1 = n OBVIOUS
    <3> QED BY <3>1 DEF After
  <2> HIDE DEF x
  <2>3. CASE x.todo = <<>> BY <2>1, <2>2, <2>3 DEF Progress
  <2>4. CASE x.todo # <<>>
    <3>1. /\ y \in Sound(edges) /\ x.visited \subseteq y.visited
          /\ Work(edges, x) \in Nat /\ Work(edges, y) = Work(edges, x) - 1
      BY <2>1, <2>4, StepSearch DEF Progress
    <3> HIDE DEF y
    <3>2. y.todo = <<>> \/ (Work(edges, y) \in Nat /\ Work(edges, y) + (n + 1) <= Work(edges, st))
      <4> SUFFICES ASSUME y.todo # <<>> PROVE Work(edges, y) \in Nat /\ Work(edges, y) + (n + 1) <= Work(edges, st)
        OBVIOUS
      <4>1. Work(edges, x) + n <= Work(edges, st) BY <2>1, <2>4 DEF Progress
      <4>2. Work(edges, y) \in Nat BY <3>1, StepSearch
      <4> QED BY <3>1, <4>1, <4>2
    <3>3. f[n + 1] = y BY <2>2, <2>4
    <3> QED BY <2>1, <3>1, <3>2, <3>3 DEF Progress
  <2> QED BY <2>3, <2>4
<1>3. \A n \in Nat : n \in S
  <2> HIDE DEF S
  <2> QED BY <1>1, <1>2, NatSteps
<1> QED BY <1>3

\* The search comes to an end, with nothing left to look at.
LEMMA DfsSearch ==
    ASSUME NEW edges, IsGraph(edges), IsFiniteSet(Objects), NEW st \in Sound(edges),
           Work(edges, st) \in Nat, Work(edges, st) <= Len(edges) + Cardinality(Keys(edges))
    PROVE  /\ Dfs(edges, st) \in Sound(edges) /\ Dfs(edges, st).todo = <<>>
           /\ st.visited \subseteq Dfs(edges, st).visited
<1> DEFINE last == Len(edges) + Cardinality(Keys(edges)) + 1
           after == CHOOSE f : After(edges, st, last, f)
<1>1. Cardinality(Keys(edges)) \in Nat /\ Len(edges) \in Nat BY CountsFinite, RowFacts
<1>2. last \in Nat BY <1>1
<1>3. Dfs(edges, st) = after[last] BY DEF Dfs, After
<1>4. Work(edges, st) < last BY <1>1
<1> HIDE DEF last
<1>5. \E f : After(edges, st, last, f)
  <2> DEFINE next == [k \in 1 .. last |-> [x \in Sound(edges) |-> IF x.todo = <<>> THEN x ELSE DfsStep(edges, x)]]
  <2>1. PICK f : Chain(f, st, next, last) BY <1>2, ChainExists
  <2>2. \A n \in Nat : n <= last => f[n] \in Sound(edges)
    <3> DEFINE S == {n \in Nat : n <= last => f[n] \in Sound(edges)}
    <3>1. 0 \in S BY <1>2, <2>1 DEF Chain
    <3>2. ASSUME NEW n \in Nat, n \in S PROVE n + 1 \in S
      <4> SUFFICES ASSUME n + 1 <= last PROVE f[n + 1] \in Sound(edges) OBVIOUS
      <4>1. n + 1 \in 0 .. last /\ n + 1 \in 1 .. last /\ n + 1 # 0 /\ (n + 1) - 1 = n BY <1>2
      <4>2. f[n + 1] = next[n + 1][f[n]] BY <2>1, <4>1 DEF Chain
      <4>3. f[n] \in Sound(edges) BY <1>2, <3>2
      <4>4. f[n + 1] = IF f[n].todo = <<>> THEN f[n] ELSE DfsStep(edges, f[n]) BY <4>1, <4>2, <4>3
      <4> QED BY <4>3, <4>4, StepSearch
    <3>3. \A n \in Nat : n \in S
      <4> HIDE DEF S
      <4> QED BY <3>1, <3>2, NatSteps
    <3> QED BY <3>3
  <2>3. ASSUME NEW n \in 0 .. last
        PROVE  f[n] = IF n = 0 THEN st ELSE IF f[n - 1].todo = <<>> THEN f[n - 1] ELSE DfsStep(edges, f[n - 1])
    <3>1. CASE n = 0 BY <1>2, <2>1, <3>1 DEF Chain
    <3>2. CASE n # 0
      <4>1. n \in 1 .. last /\ n - 1 \in Nat /\ n - 1 <= last BY <1>2, <3>2
      <4>2. f[n - 1] \in Sound(edges) BY <2>2, <4>1
      <4>3. f[n] = next[n][f[n - 1]] BY <2>1, <3>2 DEF Chain
      <4> QED BY <3>2, <4>1, <4>2, <4>3
    <3> QED BY <3>1, <3>2
  <2>4. f = [n \in 0 .. last |-> f[n]] BY <2>1 DEF Chain
  <2> HIDE DEF next
  <2>5. After(edges, st, last, f) BY <2>3, <2>4 DEF After
  <2> QED BY <2>5
<1>6. After(edges, st, last, after) BY <1>5
<1> HIDE DEF after
<1>7. \A n \in Nat : n <= last => Progress(edges, st, after[n], n) BY <1>2, <1>6, ProgressMade
<1>8. Progress(edges, st, after[last], last) BY <1>2, <1>7
<1>9. after[last].todo = <<>>
  <2> SUFFICES ASSUME Work(edges, after[last]) \in Nat, Work(edges, after[last]) + last <= Work(edges, st)
               PROVE FALSE
    BY <1>8 DEF Progress
  <2> QED BY <1>2, <1>4
<1> QED BY <1>3, <1>8, <1>9 DEF Progress

\* A search that did not begin yet.
NoSearch == StateOf({}, <<>>, <<>>, <<>>)

\* A search with nothing left to look at.
Idle(edges) == {st \in Sound(edges) : st.todo = <<>>}

\* A node that is tried.
Visit(edges, st, node) == IF node \in st.visited THEN st ELSE Dfs(edges, Enter(edges, st, node))

\* Nothing was searched: nothing is on the path and nothing is done.
LEMMA NoSearchIdle == ASSUME NEW edges PROVE NoSearch \in Idle(edges)
<1> DEFINE e == <<>>
           rank == [x \in Keys(edges) |-> 0]
<1>1. /\ e \in Seq(Keys(edges)) /\ e \in Seq(SUBSET DOMAIN edges) /\ e \in Seq(Seq(Keys(edges)))
      /\ Len(e) = 0 /\ Range(e) = {} /\ DOMAIN e = {}
  BY DEF Range
<1>2. 1 .. 0 = {} /\ 1 .. 0 - 1 = {} OBVIOUS
<1> HIDE DEF e
<1>3. Stacked(edges, {}, e, e) BY <1>1, <1>2 DEF Stacked
<1>4. Cyclic(edges, e) BY <1>1, <1>2 DEF Cyclic
<1>5. Ahead(edges, {}, e, e, e) BY <1>1, <1>2 DEF Ahead
<1>6. Finished({}, e) = {} BY DEF Finished
<1>7. Ranked(edges, {}, e, rank) BY DEF Ranked
<1>8. Searching(edges, {}, e, e, e) BY <1>3, <1>4, <1>5, <1>6, <1>7 DEF Searching
<1>9. StateOf({}, e, e, e) \in Sound(edges) BY <1>8, SoundParts
<1>10. StateOf({}, e, e, e).todo = e BY DEF StateOf
<1> QED BY <1>9, <1>10 DEF Idle, NoSearch, e

\* A node that is tried was visited then.
LEMMA VisitSearch ==
    ASSUME NEW edges, IsGraph(edges), IsFiniteSet(Objects), NEW st \in Idle(edges), NEW node \in Keys(edges)
    PROVE  /\ Visit(edges, st, node) \in Idle(edges)
           /\ st.visited \subseteq Visit(edges, st, node).visited
           /\ node \in Visit(edges, st, node).visited
<1>1. st \in Sound(edges) /\ st.todo = <<>> BY DEF Idle
<1>2. CASE node \in st.visited BY <1>2 DEF Visit
<1>3. CASE node \notin st.visited
  <2> DEFINE in == Enter(edges, st, node)
             to == Dfs(edges, in)
  <2>1. /\ in \in Sound(edges) /\ in.visited = With(st.visited, node)
        /\ Work(edges, in) \in Nat /\ Work(edges, in) <= Len(edges) + Cardinality(Keys(edges))
    BY <1>1, <1>3, BeginSearch
  <2> HIDE DEF in
  <2>2. to \in Sound(edges) /\ to.todo = <<>> /\ in.visited \subseteq to.visited BY <2>1, DfsSearch
  <2>3. Visit(edges, st, node) = to BY <1>3 DEF Visit, in
  <2> HIDE DEF to
  <2>4. st.visited \subseteq to.visited /\ node \in to.visited BY <2>1, <2>2 DEF With
  <2> QED BY <2>2, <2>3, <2>4 DEF Idle
<1> QED BY <1>2, <1>3

\* The states after each node that is tried.
Tried(edges, order, f) ==
    f = [n \in 0 .. Len(order) |-> IF n = 0 THEN NoSearch ELSE Visit(edges, f[n - 1], order[n])]

\* Each node that was tried was visited.
LEMMA TriedSearch ==
    ASSUME NEW edges, IsGraph(edges), IsFiniteSet(Objects), NEW order \in Seq(Keys(edges)),
           NEW f, Tried(edges, order, f)
    PROVE  \A n \in Nat : n <= Len(order) => f[n] \in Idle(edges) /\ \A k \in 1 .. n : order[k] \in f[n].visited
<1> DEFINE Ok(n) == n <= Len(order) => f[n] \in Idle(edges) /\ \A k \in 1 .. n : order[k] \in f[n].visited
           S == {n \in Nat : Ok(n)}
<1>1. 0 \in S
  <2>1. f[0] = NoSearch BY DEF Tried
  <2> QED BY <2>1, NoSearchIdle
<1>2. ASSUME NEW n \in Nat, n \in S PROVE n + 1 \in S
  <2> SUFFICES ASSUME n + 1 <= Len(order)
               PROVE  f[n + 1] \in Idle(edges) /\ \A k \in 1 .. n + 1 : order[k] \in f[n + 1].visited
    OBVIOUS
  <2> DEFINE x == f[n]
             y == Visit(edges, x, order[n + 1])
  <2>1. x \in Idle(edges) /\ \A k \in 1 .. n : order[k] \in x.visited BY <1>2
  <2>2. order[n + 1] \in Keys(edges) BY <1>2
  <2>3. f[n + 1] = y
    <3>1. n + 1 \in 0 .. Len(order) /\ n + 1 # 0 /\ (n + 1) - 1 = n OBVIOUS
    <3> QED BY <3>1 DEF Tried
  <2> HIDE DEF x
  <2>4. y \in Idle(edges) /\ x.visited \subseteq y.visited /\ order[n + 1] \in y.visited
    BY <2>1, <2>2, VisitSearch
  <2> HIDE DEF y
  <2>5. \A k \in 1 .. n + 1 : k \in 1 .. n \/ k = n + 1 OBVIOUS
  <2> QED BY <2>1, <2>3, <2>4, <2>5
<1>3. \A n \in Nat : n \in S
  <2> HIDE DEF S
  <2> QED BY <1>1, <1>2, NatSteps
<1> QED BY <1>3

\* The nodes of a graph are tried one after the other.
LEMMA TriedExists ==
    ASSUME NEW edges, IsGraph(edges), IsFiniteSet(Objects), NEW order \in Seq(Keys(edges))
    PROVE  \E f : Tried(edges, order, f)
<1> DEFINE L == Len(order)
           next == [k \in 1 .. L |-> [x \in Idle(edges) |-> Visit(edges, x, order[k])]]
<1>1. L \in Nat OBVIOUS
<1>2. PICK f : Chain(f, NoSearch, next, L) BY <1>1, ChainExists
<1>3. \A n \in Nat : n <= L => f[n] \in Idle(edges)
  <2> DEFINE S == {n \in Nat : n <= L => f[n] \in Idle(edges)}
  <2>1. 0 \in S
    <3>1. f[0] = NoSearch BY <1>1, <1>2 DEF Chain
    <3> QED BY <3>1, NoSearchIdle
  <2>2. ASSUME NEW n \in Nat, n \in S PROVE n + 1 \in S
    <3> SUFFICES ASSUME n + 1 <= L PROVE f[n + 1] \in Idle(edges) OBVIOUS
    <3>1. n + 1 \in 0 .. L /\ n + 1 \in 1 .. L /\ n + 1 # 0 /\ (n + 1) - 1 = n BY <1>1
    <3>2. f[n + 1] = next[n + 1][f[n]] BY <1>2, <3>1 DEF Chain
    <3>3. f[n] \in Idle(edges) BY <1>1, <2>2
    <3>4. f[n + 1] = Visit(edges, f[n], order[n + 1]) BY <3>1, <3>2, <3>3
    <3>5. order[n + 1] \in Keys(edges) BY <3>1
    <3> QED BY <3>3, <3>4, <3>5, VisitSearch
  <2>3. \A n \in Nat : n \in S
    <3> HIDE DEF S
    <3> QED BY <2>1, <2>2, NatSteps
  <2> QED BY <2>3
<1>4. ASSUME NEW n \in 0 .. L PROVE f[n] = IF n = 0 THEN NoSearch ELSE Visit(edges, f[n - 1], order[n])
  <2>1. CASE n = 0 BY <1>1, <1>2, <2>1 DEF Chain
  <2>2. CASE n # 0
    <3>1. n \in 1 .. L /\ n - 1 \in Nat /\ n - 1 <= L BY <1>1, <2>2
    <3>2. f[n - 1] \in Idle(edges) BY <1>3, <3>1
    <3>3. f[n] = next[n][f[n - 1]] BY <1>2, <2>2 DEF Chain
    <3> QED BY <2>2, <3>1, <3>2, <3>3
  <2> QED BY <2>1, <2>2
<1>5. f = [n \in 0 .. L |-> f[n]] BY <1>2 DEF Chain
<1> HIDE DEF next
<1>6. Tried(edges, order, f) BY <1>4, <1>5 DEF Tried
<1> QED BY <1>6

\* An order of the nodes of a graph has each of them.
LEMMA OrderHas ==
    ASSUME NEW edges, IsGraph(edges), IsFiniteSet(Objects), NEW order \in SetToSeqs(Keys(edges))
    PROVE  /\ order \in Seq(Keys(edges))
           /\ \A x \in Keys(edges) : \E n \in 1 .. Len(order) : order[n] = x
<1> DEFINE K == Keys(edges)
           D == 1 .. Cardinality(K)
<1>1. IsFiniteSet(K) /\ Cardinality(K) \in Nat BY CountsFinite
<1>2. order \in [D -> K] /\ \A a, b \in D : a # b => order[a] # order[b] BY DEF SetToSeqs
<1> HIDE DEF K
<1>3. order \in Seq(K) /\ Len(order) = Cardinality(K) BY <1>1, <1>2
<1>4. order \in Injection(D, K) BY <1>2 DEF Injection, IsInjective
<1>5. Cardinality(D) = Cardinality(K)
  <2>1. 1 \in Int /\ Cardinality(K) \in Int BY <1>1
  <2>2. Cardinality(D) = IF 1 > Cardinality(K) THEN 0 ELSE Cardinality(K) - 1 + 1 BY <2>1, FS_Interval
  <2> QED BY <1>1, <2>2
<1> HIDE DEF D
<1>6. order \in Surjection(D, K) BY <1>1, <1>4, <1>5, FS_Injection
<1>7. \A x \in K : \E n \in D : order[n] = x BY <1>6 DEF Surjection
<1> QED BY <1>3, <1>7 DEF K, D

\* What the search reports are cycles, and the nodes that no cycle was
\* reported for can be ranked.
Detected(edges, cycles) == Cyclic(edges, cycles) /\ \E rank : Ranked(edges, Keys(edges), cycles, rank)

LEMMA CyclesDetected ==
    ASSUME NEW edges, IsGraph(edges), IsFiniteSet(Objects), NEW order \in SetToSeqs(Keys(edges))
    PROVE  Detected(edges, detect_cycles(edges, order))
<1> DEFINE tried == CHOOSE f : Tried(edges, order, f)
           st == tried[Len(order)]
<1>1. order \in Seq(Keys(edges)) /\ Len(order) \in Nat BY OrderHas
<1>2. detect_cycles(edges, order) = st.cycles BY DEF detect_cycles, Tried, Visit, NoSearch, StateOf
<1>3. Tried(edges, order, tried) BY <1>1, TriedExists
<1> HIDE DEF tried
<1>4. st \in Idle(edges) /\ \A k \in 1 .. Len(order) : order[k] \in st.visited BY <1>1, <1>3, TriedSearch
<1> HIDE DEF st
<1>5. \A x \in Keys(edges) : x \in st.visited BY <1>4, OrderHas
<1>6. st \in Sound(edges) /\ st.todo = <<>> BY <1>4 DEF Idle
<1>7. PICK v, p, t, c : st = StateOf(v, p, t, c) /\ Searching(edges, v, p, t, c) /\ (t = <<>> <=> Len(p) = 0)
  BY <1>6, PartsOf
<1>8. st.visited = v /\ st.todo = t /\ st.cycles = c
  <2>1. StateOf(v, p, t, c).visited = v /\ StateOf(v, p, t, c).todo = t /\ StateOf(v, p, t, c).cycles = c
    BY FieldsOf
  <2> QED BY <1>7, <2>1
<1>9. Finished(v, p) = Keys(edges)
  <2>1. v = Keys(edges) BY <1>5, <1>7, <1>8 DEF Searching, Stacked
  <2>2. p \in Seq(Keys(edges)) /\ Len(p) = 0 BY <1>6, <1>7, <1>8 DEF Searching, Stacked
  <2>3. Range(p) = {} BY <2>2 DEF Range
  <2> QED BY <2>1, <2>3 DEF Finished
<1>10. Detected(edges, c) BY <1>7, <1>9 DEF Searching, Detected
<1> QED BY <1>2, <1>8, <1>10

-----------------------------------------------------------------------------
(* Cycles.                                                                 *)

\* What is below an object has its children, and an object is above what its
\* children are above.
LEMMA BelowFacts ==
    ASSUME NEW edges, IsGraph(edges), NEW o, NEW e \in Range(edges)
    PROVE  /\ e[1] \in Objects /\ e[2] \in Objects /\ e[1] \in Keys(edges) /\ e[2] \in Keys(edges)
           /\ e[1] = o \/ e[1] \in Below(edges, o) => e[2] \in Below(edges, o)
           /\ o = e[2] \/ o \in Below(edges, e[2]) => o \in Below(edges, e[1])
<1>1. PICK n \in DOMAIN edges : e = edges[n] BY RowFacts
<1>2. e[1] \in Keys(edges) /\ e[2] \in Keys(edges) BY <1>1, RowFacts
<1>3. e[1] \in Objects /\ e[2] \in Objects BY <1>2, RowFacts
<1> HIDE DEF IsGraph
<1>4. ASSUME e[1] = o \/ e[1] \in Below(edges, o) PROVE e[2] \in Below(edges, o)
  <2>1. ASSUME NEW S \in SUBSET Objects, HasChildren(edges, S), \A d \in Range(edges) : d[1] = o => d[2] \in S
        PROVE  e[2] \in S
    <3>1. CASE e[1] = o BY <2>1, <3>1
    <3>2. CASE e[1] \in Below(edges, o)
      <4>1. e[1] \in S BY <2>1, <3>2 DEF Below
      <4> QED BY <2>1, <4>1 DEF HasChildren
    <3> QED BY <1>4, <3>1, <3>2
  <2> QED BY <1>3, <2>1 DEF Below
<1>5. ASSUME o = e[2] \/ o \in Below(edges, e[2]) PROVE o \in Below(edges, e[1])
  <2>1. ASSUME NEW S \in SUBSET Objects, HasChildren(edges, S), \A d \in Range(edges) : d[1] = e[1] => d[2] \in S
        PROVE  o \in S
    <3>1. e[2] \in S BY <2>1
    <3>2. \A d \in Range(edges) : d[1] = e[2] => d[2] \in S BY <2>1, <3>1 DEF HasChildren
    <3>3. CASE o = e[2] BY <3>1, <3>3
    <3>4. CASE o \in Below(edges, e[2]) BY <2>1, <3>2, <3>4 DEF Below
    <3> QED BY <1>5, <3>3, <3>4
  <2>2. o \in Objects BY <1>3, <1>5 DEF Below
  <2> QED BY <2>1, <2>2 DEF Below
<1> QED BY <1>2, <1>3, <1>4, <1>5

\* To each object on a cycle a cycle of its component is reported: if none
\* were, the ranks would fall along the cycle.
LEMMA CycleReported ==
    ASSUME NEW edges, IsGraph(edges), NEW cycles, Detected(edges, cycles),
           NEW o \in Objects, o \in Below(edges, o)
    PROVE  \E x : Hit(cycles, x) /\ Together(edges, o, x)
<1> SUFFICES ASSUME \A x : Hit(cycles, x) => ~ Together(edges, o, x) PROVE FALSE OBVIOUS
<1>1. PICK rank : Ranked(edges, Keys(edges), cycles, rank) BY DEF Detected
<1> DEFINE S == {x \in Below(edges, o) : x # o /\ (o \in Below(edges, x) => rank[x] < rank[o])}
<1>2. \A x \in Keys(edges) : rank[x] \in Nat BY <1>1 DEF Ranked
<1>3. o \in Keys(edges)
  <2> SUFFICES ASSUME o \notin Keys(edges) PROVE FALSE OBVIOUS
  <2>1. \A e \in Range(edges) : e[1] # o BY BelowFacts
  <2>2. HasChildren(edges, {}) BY DEF HasChildren
  <2>3. o \in {}
    <3>1. {} \in SUBSET Objects OBVIOUS
    <3> QED BY <2>1, <2>2, <3>1 DEF Below
  <2> QED BY <2>3
<1>4. ASSUME NEW e \in Range(edges), e[1] = o \/ e[1] \in S PROVE e[2] \in S
  <2> DEFINE u == e[1]
             y == e[2]
  <2>1. /\ u \in Keys(edges) /\ y \in Keys(edges)
        /\ u = o \/ u \in Below(edges, o) => y \in Below(edges, o)
        /\ o = y \/ o \in Below(edges, y) => o \in Below(edges, u)
    BY BelowFacts
  <2>2. PICK n \in DOMAIN edges : e = edges[n] BY RowFacts
  <2>3. Hit(cycles, y) \/ rank[y] < rank[u] BY <1>1, <2>1, <2>2 DEF Ranked
  <2> HIDE DEF u, y
  <2>4. u = o \/ (u \in Below(edges, o) /\ u # o /\ (o \in Below(edges, u) => rank[u] < rank[o]))
    BY <1>4 DEF u
  <2>5. y \in Below(edges, o) BY <2>1, <2>4
  <2>6. CASE o \in Below(edges, y) \/ y = o
    <3>1. Together(edges, o, y) BY <2>5, <2>6 DEF Together
    <3>2. rank[y] < rank[u] BY <2>3, <3>1
    <3>3. u = o \/ rank[u] < rank[o] BY <2>1, <2>4, <2>6
    <3>4. rank[y] \in Nat /\ rank[u] \in Nat /\ rank[o] \in Nat BY <1>2, <1>3, <2>1
    <3>5. rank[y] < rank[o] BY <3>2, <3>3, <3>4
    <3>6. y # o BY <3>4, <3>5
    <3>7. y \in S BY <2>5, <3>5, <3>6
    <3> QED BY <3>7 DEF y
  <2>7. CASE ~ (o \in Below(edges, y) \/ y = o)
    <3>1. y \in S BY <2>5, <2>7
    <3> QED BY <3>1 DEF y
  <2> QED BY <2>6, <2>7
<1>5. S \in SUBSET Objects BY DEF Below
<1>6. HasChildren(edges, S) /\ \A e \in Range(edges) : e[1] = o => e[2] \in S
  <2> HIDE DEF S
  <2> QED BY <1>4 DEF HasChildren
<1>7. o \in S
  <2> HIDE DEF S
  <2> QED BY <1>5, <1>6 DEF Below
<1> QED BY <1>7

\* A generation for each object of a graph without cycles.
LEMMA GenerationsExist ==
    ASSUME NEW edges, IsGraph(edges), IsFiniteSet(Objects), Detected(edges, <<>>), NEW objects
    PROVE  \E g \in [objects -> 0 .. Cardinality(Objects)] :
              \A e \in Range(edges) : e[1] \in objects /\ e[2] \in objects => g[e[1]] < g[e[2]]
<1> DEFINE K == Keys(edges)
           N == Cardinality(K)
<1>1. PICK rank : Ranked(edges, K, <<>>, rank) BY DEF Detected
<1>2. \A x : ~ Hit(<<>>, x) BY DEF Hit
<1>3. N \in Nat /\ Cardinality(Objects) \in Nat /\ N <= Cardinality(Objects)
  <2>1. K \in SUBSET Objects BY RowFacts
  <2> HIDE DEF K
  <2> QED BY <2>1, FS_Subset, FS_CardinalityType
<1>4. \A x \in K : rank[x] \in Nat /\ rank[x] < N BY <1>1 DEF Ranked
<1>5. ASSUME NEW e \in Range(edges) PROVE e[1] \in K /\ e[2] \in K /\ rank[e[2]] < rank[e[1]]
  <2>1. PICK n \in DOMAIN edges : e = edges[n] BY RowFacts
  <2>2. edges[n][1] \in K /\ edges[n][2] \in K BY RowFacts
  <2> QED BY <1>1, <1>2, <2>1, <2>2 DEF Ranked
<1> HIDE DEF K, N
<1> DEFINE g == [x \in objects |-> IF x \in K THEN N - 1 - rank[x] ELSE 0]
<1>6. g \in [objects -> 0 .. Cardinality(Objects)]
  <2>1. ASSUME NEW x \in objects PROVE (IF x \in K THEN N - 1 - rank[x] ELSE 0) \in 0 .. Cardinality(Objects)
    BY <1>3, <1>4
  <2> QED BY <2>1
<1>7. ASSUME NEW e \in Range(edges), e[1] \in objects, e[2] \in objects PROVE g[e[1]] < g[e[2]]
  <2>1. g[e[1]] = N - 1 - rank[e[1]] /\ g[e[2]] = N - 1 - rank[e[2]] BY <1>5, <1>7
  <2>2. rank[e[1]] \in Nat /\ rank[e[2]] \in Nat /\ rank[e[2]] < rank[e[1]] BY <1>4, <1>5
  <2> HIDE DEF g
  <2> QED BY <1>3, <2>1, <2>2
<1> HIDE DEF g
<1> QED BY <1>6, <1>7

\* Questions are about graphs, with their nodes in some order.
GraphAsked ==
    question.kind \in {"graph", "links"} =>
        IsGraph(question.edges) /\ question.order \in SetToSeqs(Keys(question.edges))

\* Every question about a graph is.
LEMMA GraphNext ==
    ASSUME GraphAsked, [question'.kind \in {"graph", "links"} => AskGraphs]_question
    PROVE  GraphAsked'
<1>1. CASE UNCHANGED question BY <1>1 DEF GraphAsked
<1>2. CASE question'.kind \notin {"graph", "links"} BY <1>2 DEF GraphAsked
<1>3. ASSUME NEW k \in Nat, NEW edges \in [1 .. k -> Objects \X Objects] PROVE IsGraph(edges)
  BY <1>3 DEF IsGraph
<1>4. CASE AskGraph
  <2>1. PICK k \in 0 .. MaxEdges : \E edges \in [1 .. k -> Objects \X Objects] :
            \E order \in SetToSeqs(Keys(edges)) :
                question' = [kind |-> "graph", edges |-> edges, order |-> order]
    BY <1>4 DEF AskGraph
  <2>2. PICK edges \in [1 .. k -> Objects \X Objects] : \E order \in SetToSeqs(Keys(edges)) :
            question' = [kind |-> "graph", edges |-> edges, order |-> order]
    BY <2>1
  <2>3. PICK order \in SetToSeqs(Keys(edges)) :
            question' = [kind |-> "graph", edges |-> edges, order |-> order]
    BY <2>2
  <2>4. question'.edges = edges /\ question'.order = order BY <2>3
  <2>5. IsGraph(edges) BY <1>3
  <2> QED BY <2>4, <2>5 DEF GraphAsked
<1>5. CASE AskLinks
  <2>1. PICK k \in 0 .. MaxEdges - 1 :
            \E edges \in [1 .. k -> Objects \X Objects], d \in Objects \X Objects :
            \E lost \in SUBSET Objects, order \in SetToSeqs(Keys(edges)) :
                /\ Cardinality(lost) <= 1
                /\ question' = [kind |-> "links", objects |-> Objects \ lost, edges |-> edges,
                                derivations |-> <<d>>, order |-> order]
    BY <1>5 DEF AskLinks
  <2>2. PICK edges \in [1 .. k -> Objects \X Objects] : \E d \in Objects \X Objects :
            \E lost \in SUBSET Objects, order \in SetToSeqs(Keys(edges)) :
                question' = [kind |-> "links", objects |-> Objects \ lost, edges |-> edges,
                             derivations |-> <<d>>, order |-> order]
    BY <2>1
  <2>3. PICK d \in Objects \X Objects, lost \in SUBSET Objects, order \in SetToSeqs(Keys(edges)) :
            question' = [kind |-> "links", objects |-> Objects \ lost, edges |-> edges,
                         derivations |-> <<d>>, order |-> order]
    BY <2>2
  <2>4. question'.edges = edges /\ question'.order = order BY <2>3
  <2>5. IsGraph(edges) BY <1>3
  <2> QED BY <2>4, <2>5 DEF GraphAsked
<1> QED BY <1>1, <1>2, <1>4, <1>5 DEF AskGraphs

\* lineage.rs: whatever the edges and whatever order a hash map gives the
\* nodes, every cycle that the depth-first search reports is one, it reports one
\* for each component that has any, and a graph that passes as valid can be laid
\* out in generations.
THEOREM CyclesAlwaysFound == GraphSpec => []CyclesChecked
<1>1. question.kind \notin {"graph", "links"} => GraphAsked BY DEF GraphAsked
<1>2. GraphAsked => CyclesChecked
  <2> SUFFICES ASSUME GraphAsked PROVE CyclesChecked OBVIOUS
  <2> DEFINE edges == question.edges
             cycles == detect_cycles(edges, question.order)
  <2>1. IsFiniteSet(Objects) BY GraphAssumption
  <2>2. ASSUME question.kind \in {"graph", "links"} PROVE IsGraph(edges) /\ Detected(edges, cycles)
    BY <2>1, <2>2, CyclesDetected DEF GraphAsked
  <2> HIDE DEF cycles
  <2>3. CyclesFound
    <3> SUFFICES ASSUME question.kind = "graph"
                 PROVE  /\ \A n \in DOMAIN cycles : \A k \in DOMAIN cycles[n] :
                              <<cycles[n][k], IF k < Len(cycles[n]) THEN cycles[n][k + 1] ELSE cycles[n][1]>>
                                 \in Range(edges)
                        /\ \A o \in Objects : o \in Below(edges, o) =>
                              \E n \in DOMAIN cycles : \E k \in DOMAIN cycles[n] : Together(edges, o, cycles[n][k])
      BY DEF CyclesFound, cycles
    <3>1. IsGraph(edges) /\ Detected(edges, cycles) BY <2>2
    <3> HIDE DEF edges
    <3>2. ASSUME NEW n \in DOMAIN cycles PROVE IsCycle(edges, cycles[n])
      <4>1. cycles \in Seq(Seq(Keys(edges))) BY <3>1 DEF Detected, Cyclic
      <4>2. n \in 1 .. Len(cycles) BY <4>1
      <4> QED BY <3>1, <4>2 DEF Detected, Cyclic
    <3>3. ASSUME NEW o \in Objects, o \in Below(edges, o)
          PROVE  \E n \in DOMAIN cycles : \E k \in DOMAIN cycles[n] : Together(edges, o, cycles[n][k])
      <4>1. PICK x : Hit(cycles, x) /\ Together(edges, o, x) BY <3>1, <3>3, CycleReported
      <4> QED BY <4>1 DEF Hit
    <3> QED BY <3>2, <3>3 DEF IsCycle
  <2>4. ValidIsLayered
    <3> DEFINE objects == question.objects
               derivations == question.derivations
    <3> SUFFICES ASSUME question.kind = "links", is_valid(objects, edges, derivations, question.order)
                 PROVE  \E g \in [objects -> 0 .. Cardinality(Objects)] :
                           \A link \in Range(edges) \cup Range(derivations) : g[link[1]] < g[link[2]]
      BY DEF ValidIsLayered
    <3>1. /\ \A e \in Range(edges) : e[1] \in objects /\ e[2] \in objects
          /\ \A d \in Range(derivations) : d \in Range(edges)
          /\ cycles = <<>>
      BY DEF is_valid, Linked, cycles
    <3>2. IsGraph(edges) /\ Detected(edges, <<>>) BY <2>2, <3>1
    <3> HIDE DEF edges, objects, derivations
    <3>3. PICK g \in [objects -> 0 .. Cardinality(Objects)] :
              \A e \in Range(edges) : e[1] \in objects /\ e[2] \in objects => g[e[1]] < g[e[2]]
      BY <2>1, <3>2, GenerationsExist
    <3> QED BY <3>1, <3>3
  <2> QED BY <2>3, <2>4 DEF CyclesChecked
<1>3. GraphAsked /\ [question'.kind \in {"graph", "links"} => AskGraphs]_question => GraphAsked'
  BY GraphNext
<1> QED BY <1>1, <1>2, <1>3, PTL DEF GraphSpec, OnlyAsked

-----------------------------------------------------------------------------
(* The breadth-first searches of the object graph.                         *)

\* The states that steps lead to, which stay among the good ones and come to
\* those that are done.
ComesTo(f, Good, done, step, st, last) ==
    /\ f = [n \in 0 .. last |-> IF n = 0 THEN st ELSE IF f[n - 1] \in done THEN f[n - 1] ELSE step[f[n - 1]]]
    /\ \A n \in 0 .. last : f[n] \in Good
    /\ f[last] \in done

\* Steps that each leave less work come to an end.
LEMMA RunEnds ==
    ASSUME NEW Good, NEW done, NEW step \in [Good -> Good], NEW work \in [Good -> Nat], NEW st \in Good,
           NEW last \in Nat, work[st] <= last,
           \A x \in Good : x \notin done => work[step[x]] < work[x]
    PROVE  \E f : ComesTo(f, Good, done, step, st, last)
<1> DEFINE one == [x \in Good |-> IF x \in done THEN x ELSE step[x]]
           next == [k \in 1 .. last |-> one]
<1>1. PICK f : Chain(f, st, next, last) BY ChainExists
<1>2. \A x \in Good : one[x] = (IF x \in done THEN x ELSE step[x]) /\ one[x] \in Good OBVIOUS
<1>3. \A k \in 1 .. last : next[k] = one OBVIOUS
<1> HIDE DEF next, one
<1>4. f = [n \in 0 .. last |-> IF n = 0 THEN st ELSE next[n][f[n - 1]]] BY <1>1 DEF Chain
<1> DEFINE Ok(n) == n <= last => f[n] \in Good /\ (f[n] \in done \/ work[f[n]] + n <= work[st])
           S == {n \in Nat : Ok(n)}
<1>5. 0 \in S
  <2>1. f[0] = st BY <1>4
  <2> QED BY <2>1
<1>6. ASSUME NEW n \in Nat, n \in S PROVE n + 1 \in S
  <2> SUFFICES ASSUME n + 1 <= last
               PROVE  f[n + 1] \in Good /\ (f[n + 1] \in done \/ work[f[n + 1]] + (n + 1) <= work[st])
    OBVIOUS
  <2>1. n + 1 \in 0 .. last /\ n + 1 \in 1 .. last /\ n + 1 # 0 /\ (n + 1) - 1 = n OBVIOUS
  <2>2. f[n + 1] = next[n + 1][f[n]] BY <1>4, <2>1
  <2> DEFINE x == f[n]
  <2>3. x \in Good /\ (x \in done \/ work[x] + n <= work[st]) BY <1>6
  <2> HIDE DEF x
  <2>4. f[n + 1] = (IF x \in done THEN x ELSE step[x]) BY <1>2, <1>3, <2>1, <2>2, <2>3 DEF x
  <2>5. CASE x \in done BY <2>3, <2>4, <2>5
  <2>6. CASE x \notin done
    <3> DEFINE y == step[x]
    <3>1. y \in Good /\ work[y] < work[x] BY <2>3, <2>6
    <3>2. f[n + 1] = y BY <2>4, <2>6
    <3> HIDE DEF y
    <3>3. work[y] \in Nat /\ work[x] \in Nat /\ work[st] \in Nat BY <2>3, <3>1
    <3>4. work[y] + (n + 1) <= work[st] BY <2>3, <2>6, <3>1, <3>3
    <3> QED BY <3>1, <3>2, <3>4
  <2> QED BY <2>5, <2>6
<1>7. \A n \in Nat : Ok(n)
  <2>1. \A n \in Nat : n \in S
    <3> HIDE DEF S
    <3> QED BY <1>5, <1>6, NatSteps
  <2> QED BY <2>1
<1>8. \A n \in 0 .. last : f[n] \in Good BY <1>7
<1>9. f[last] \in done
  <2> SUFFICES ASSUME f[last] \notin done PROVE FALSE OBVIOUS
  <2> DEFINE x == f[last]
  <2>1. x \in Good /\ work[x] + last <= work[st] BY <1>7
  <2> HIDE DEF x
  <2>2. work[step[x]] < work[x] /\ step[x] \in Good BY <2>1 DEF x
  <2>3. work[step[x]] \in Nat /\ work[x] \in Nat /\ work[st] \in Nat BY <2>1, <2>2
  <2> QED BY <2>1, <2>2, <2>3
<1>10. ASSUME NEW n \in 0 .. last
       PROVE  f[n] = IF n = 0 THEN st ELSE IF f[n - 1] \in done THEN f[n - 1] ELSE step[f[n - 1]]
  <2>1. CASE n = 0 BY <1>4, <2>1
  <2>2. CASE n # 0
    <3>1. n \in 1 .. last /\ n - 1 \in 0 .. last BY <2>2
    <3>2. f[n] = next[n][f[n - 1]] BY <1>4, <2>2
    <3>3. f[n - 1] \in Good BY <1>8, <3>1
    <3> QED BY <1>2, <1>3, <2>2, <3>1, <3>2, <3>3
  <2> QED BY <2>1, <2>2
<1>11. f = [n \in 0 .. last |-> f[n]] BY <1>4
<1>12. f = [n \in 0 .. last |-> IF n = 0 THEN st ELSE IF f[n - 1] \in done THEN f[n - 1] ELSE step[f[n - 1]]]
  BY <1>10, <1>11
<1>13. ComesTo(f, Good, done, step, st, last) BY <1>8, <1>9, <1>12 DEF ComesTo
<1> QED BY <1>13

\* The elements of a finite set of numbers in increasing order.
Sorted(f, S) ==
    /\ f \in [1 .. Cardinality(S) -> S]
    /\ \A a, b \in 1 .. Cardinality(S) : a < b => f[a] < f[b]

\* Every set of numbers up to m can be put in order.
LEMMA SortedExists == \A m \in Nat : \A S \in SUBSET (1 .. m) : Cardinality(S) \in Nat /\ \E f : Sorted(f, S)
<1> DEFINE P == {m \in Nat : \A S \in SUBSET (1 .. m) : Cardinality(S) \in Nat /\ \E f : Sorted(f, S)}
<1>1. 0 \in P
  <2>1. ASSUME NEW S \in SUBSET (1 .. 0) PROVE Cardinality(S) \in Nat /\ \E f : Sorted(f, S)
    <3>1. S = {} OBVIOUS
    <3>2. Cardinality(S) = 0 BY <3>1, FS_EmptySet
    <3> DEFINE g == [a \in 1 .. 0 |-> a]
    <3>3. Sorted(g, S)
      <4>1. 1 .. 0 = {} OBVIOUS
      <4> QED BY <3>1, <3>2, <4>1 DEF Sorted
    <3> QED BY <3>2, <3>3
  <2> QED BY <2>1
<1>2. ASSUME NEW m \in Nat, m \in P PROVE m + 1 \in P
  <2>1. ASSUME NEW S \in SUBSET (1 .. m + 1) PROVE Cardinality(S) \in Nat /\ \E f : Sorted(f, S)
    <3>1. CASE m + 1 \notin S
      <4>1. S \in SUBSET (1 .. m) BY <3>1
      <4> QED BY <1>2, <4>1
    <3>2. CASE m + 1 \in S
      <4> DEFINE T == S \ {m + 1}
                 c == Cardinality(T)
      <4>1. T \in SUBSET (1 .. m) OBVIOUS
      <4>2. c \in Nat /\ \E f : Sorted(f, T) BY <1>2, <4>1
      <4>3. PICK f : Sorted(f, T) BY <4>2
      <4>4. Cardinality(S) = c + 1
        <5>1. 1 \in Int /\ m \in Int OBVIOUS
        <5>2. IsFiniteSet(1 .. m) BY <5>1, FS_Interval
        <5>3. IsFiniteSet(T) BY <4>1, <5>2, FS_Subset
        <5>4. T \cup {m + 1} = S /\ m + 1 \notin T BY <3>2
        <5> HIDE DEF T
        <5> QED BY <5>3, <5>4, FS_AddElement
      <4> DEFINE g == [a \in 1 .. c + 1 |-> IF a = c + 1 THEN m + 1 ELSE f[a]]
      <4>5. f \in [1 .. c -> T] /\ \A a, b \in 1 .. c : a < b => f[a] < f[b] BY <4>3 DEF Sorted
      <4>6. \A x \in T : x \in S /\ x \in Nat /\ x < m + 1 BY <4>1
      <4> HIDE DEF T, c
      <4>7. \A a \in 1 .. c + 1 : a = c + 1 \/ a \in 1 .. c BY <4>2
      <4>8. \A a \in 1 .. c : g[a] = f[a] /\ g[a] \in S /\ g[a] < m + 1 BY <4>2, <4>5, <4>6
      <4>9. g[c + 1] = m + 1 BY <4>2
      <4>10. DOMAIN g = 1 .. c + 1 /\ g = [a \in 1 .. c + 1 |-> g[a]] OBVIOUS
      <4> HIDE DEF g
      <4>11. g \in [1 .. c + 1 -> S] BY <3>2, <4>7, <4>8, <4>9, <4>10
      <4>12. ASSUME NEW a \in 1 .. c + 1, NEW b \in 1 .. c + 1, a < b PROVE g[a] < g[b]
        <5>1. a \in 1 .. c BY <4>2, <4>12
        <5>2. CASE b = c + 1 BY <4>8, <4>9, <5>1, <5>2
        <5>3. CASE b \in 1 .. c BY <4>5, <4>8, <4>12, <5>1, <5>3
        <5> QED BY <4>7, <5>2, <5>3
      <4>13. Sorted(g, S) BY <4>4, <4>11, <4>12 DEF Sorted
      <4> QED BY <4>2, <4>4, <4>13
    <3> QED BY <3>1, <3>2
  <2> QED BY <2>1
<1>3. \A m \in Nat : m \in P
  <2> HIDE DEF P
  <2> QED BY <1>1, <1>2, NatSteps
<1> QED BY <1>3

\* The rows in the order of the table are these rows.
LEMMA InOrderFacts ==
    ASSUME NEW m \in Nat, NEW rows \in SUBSET (1 .. m)
    PROVE  /\ IsFiniteSet(rows) /\ Cardinality(rows) \in Nat
           /\ InOrder(rows) \in [1 .. Cardinality(rows) -> rows]
           /\ \A n \in rows : \E a \in 1 .. Cardinality(rows) : InOrder(rows)[a] = n
<1> DEFINE c == Cardinality(rows)
           g == InOrder(rows)
<1>1. c \in Nat /\ \E f : Sorted(f, rows) BY SortedExists
<1>2. PICK f : Sorted(f, rows) BY <1>1
<1>3. f \in [1 .. c -> rows] /\ \A a, b \in DOMAIN f : a < b => f[a] < f[b] BY <1>2 DEF Sorted
<1>4. g \in [1 .. c -> rows] /\ \A a, b \in DOMAIN g : a < b => g[a] < g[b] BY <1>3 DEF InOrder
<1>5. IsFiniteSet(rows)
  <2>1. 1 \in Int /\ m \in Int OBVIOUS
  <2>2. IsFiniteSet(1 .. m) BY <2>1, FS_Interval
  <2> QED BY <2>2, FS_Subset
<1> HIDE DEF g
<1>6. ASSUME NEW a \in 1 .. c, NEW b \in 1 .. c, g[a] = g[b] PROVE a = b
  <2>1. g[a] \in Nat
    <3>1. g[a] \in rows BY <1>4
    <3>2. \A x \in rows : x \in Nat OBVIOUS
    <3> QED BY <3>1, <3>2
  <2>2. ~ (a < b) /\ ~ (b < a) BY <1>4, <1>6, <2>1
  <2> QED BY <2>2
<1>7. g \in Injection(1 .. c, rows) BY <1>4, <1>6 DEF Injection, IsInjective
<1>8. Cardinality(1 .. c) = c
  <2>1. 1 \in Int /\ c \in Int BY <1>1
  <2>2. Cardinality(1 .. c) = IF 1 > c THEN 0 ELSE c - 1 + 1 BY <2>1, FS_Interval
  <2> QED BY <1>1, <2>2
<1>9. g \in Surjection(1 .. c, rows) BY <1>5, <1>7, <1>8, FS_Injection
<1>10. \A n \in rows : \E a \in 1 .. c : g[a] = n BY <1>9 DEF Surjection
<1> QED BY <1>1, <1>4, <1>5, <1>10 DEF g

\* The parents, and the children, of rows in the order of the table.
ParentsIn(edges, rows) == [n \in DOMAIN InOrder(rows) |-> edges[InOrder(rows)[n]][1]]

\* With a number for each.
KidsAt(edges, rows, d) == [n \in DOMAIN InOrder(rows) |-> <<edges[InOrder(rows)[n]][2], d>>]

\* They are those of the rows, one for each.
LEMMA ParentsFacts ==
    ASSUME NEW edges, IsGraph(edges), NEW rows \in SUBSET DOMAIN edges
    PROVE  /\ ParentsIn(edges, rows) \in Seq(Objects)
           /\ Len(ParentsIn(edges, rows)) = Cardinality(rows)
           /\ \A x : x \in Range(ParentsIn(edges, rows)) <=> \E n \in rows : edges[n][1] = x
<1> DEFINE g == InOrder(rows)
           c == Cardinality(rows)
           s == ParentsIn(edges, rows)
<1>1. Len(edges) \in Nat /\ DOMAIN edges = 1 .. Len(edges) BY RowFacts
<1>2. c \in Nat /\ g \in [1 .. c -> rows] /\ \A n \in rows : \E a \in 1 .. c : g[a] = n
  BY <1>1, InOrderFacts
<1>3. s = [n \in DOMAIN g |-> edges[g[n]][1]] BY DEF ParentsIn
<1> HIDE DEF g, s, c
<1>4. s = [n \in 1 .. c |-> edges[g[n]][1]] BY <1>2, <1>3
<1>5. \A n \in DOMAIN edges : edges[n][1] \in Objects
  <2>1. \A n \in DOMAIN edges : edges[n][1] \in Keys(edges) BY RowFacts
  <2>2. Keys(edges) \subseteq Objects BY RowFacts
  <2> QED BY <2>1, <2>2
<1>6. \A n \in 1 .. c : g[n] \in rows /\ s[n] = edges[g[n]][1] /\ s[n] \in Objects BY <1>2, <1>4, <1>5
<1>7. s \in Seq(Objects) /\ Len(s) = c
  <2>1. DOMAIN s = 1 .. c /\ s = [n \in 1 .. c |-> s[n]] BY <1>4
  <2> QED BY <1>2, <1>6, <2>1
<1>8. ASSUME NEW x PROVE x \in Range(s) <=> \E n \in rows : edges[n][1] = x
  <2>1. x \in Range(s) <=> \E a \in 1 .. c : s[a] = x BY <1>7, RangeOf
  <2>2. (\E a \in 1 .. c : s[a] = x) => \E n \in rows : edges[n][1] = x BY <1>6
  <2>3. (\E n \in rows : edges[n][1] = x) => \E a \in 1 .. c : s[a] = x BY <1>2, <1>6
  <2> QED BY <2>1, <2>2, <2>3
<1> QED BY <1>7, <1>8 DEF s, c

\* The first of a queue, and what is behind it.
LEMMA TailFacts ==
    ASSUME NEW S, NEW q \in Seq(S), Len(q) # 0
    PROVE  /\ Len(q) \in Nat /\ Head(q) = q[1] /\ Head(q) \in S
           /\ Tail(q) \in Seq(S) /\ Len(Tail(q)) = Len(q) - 1
           /\ \A i \in 1 .. Len(q) - 1 : Tail(q)[i] = q[i + 1]
<1>1. Len(q) \in Nat /\ q \in [1 .. Len(q) -> S] /\ q # <<>> OBVIOUS
<1>2. 1 \in 1 .. Len(q) BY <1>1
<1>3. Head(q) = q[1] /\ Head(q) \in S BY <1>1, <1>2
<1>4. Tail(q) \in Seq(S) /\ Len(Tail(q)) = Len(q) - 1 BY <1>1
<1>5. \A i \in 1 .. Len(q) - 1 : Tail(q)[i] = q[i + 1] BY <1>1
<1> QED BY <1>1, <1>3, <1>4, <1>5

\* The elements of what is behind it.
LEMMA TailRange ==
    ASSUME NEW S, NEW q \in Seq(S), Len(q) # 0
    PROVE  \A x : x \in Range(q) <=> x = Head(q) \/ x \in Range(Tail(q))
<1> DEFINE t == Tail(q)
<1>1. /\ Len(q) \in Nat /\ Head(q) = q[1] /\ t \in Seq(S) /\ Len(t) = Len(q) - 1
      /\ \A i \in 1 .. Len(q) - 1 : t[i] = q[i + 1]
  BY TailFacts
<1> HIDE DEF t
<1> SUFFICES ASSUME NEW x PROVE x \in Range(q) <=> x = Head(q) \/ x \in Range(t) BY DEF t
<1>2. x \in Range(q) <=> \E i \in 1 .. Len(q) : q[i] = x BY RangeOf
<1>3. x \in Range(t) <=> \E i \in 1 .. Len(q) - 1 : t[i] = x BY <1>1, RangeOf
<1>4. ASSUME x \in Range(q) PROVE x = Head(q) \/ x \in Range(t)
  <2>1. PICK i \in 1 .. Len(q) : q[i] = x BY <1>2, <1>4
  <2>2. CASE i = 1 BY <1>1, <2>1, <2>2
  <2>3. CASE i # 1
    <3>1. i - 1 \in 1 .. Len(q) - 1 /\ (i - 1) + 1 = i BY <1>1, <2>1, <2>3
    <3>2. t[i - 1] = x BY <1>1, <2>1, <3>1
    <3> QED BY <1>3, <3>1, <3>2
  <2> QED BY <2>2, <2>3
<1>5. ASSUME x = Head(q) PROVE x \in Range(q)
  <2>1. 1 \in 1 .. Len(q) BY <1>1
  <2> QED BY <1>1, <1>2, <1>5, <2>1
<1>6. ASSUME x \in Range(t) PROVE x \in Range(q)
  <2>1. PICK i \in 1 .. Len(q) - 1 : t[i] = x BY <1>3, <1>6
  <2>2. i + 1 \in 1 .. Len(q) /\ q[i + 1] = x BY <1>1, <2>1
  <2> QED BY <1>2, <2>2
<1> QED BY <1>4, <1>5, <1>6

\* The elements of a queue that another is put behind.
LEMMA JoinFacts ==
    ASSUME NEW S, NEW p \in Seq(S), NEW q \in Seq(S)
    PROVE  /\ p \o q \in Seq(S) /\ Len(p \o q) = Len(p) + Len(q) /\ Len(p) \in Nat /\ Len(q) \in Nat
           /\ \A i \in 1 .. Len(p) : (p \o q)[i] = p[i]
           /\ \A i \in 1 .. Len(q) : (p \o q)[Len(p) + i] = q[i]
           /\ \A i \in 1 .. Len(p) + Len(q) : i \in 1 .. Len(p) \/ \E j \in 1 .. Len(q) : i = Len(p) + j
           /\ \A x : x \in Range(p \o q) <=> x \in Range(p) \/ x \in Range(q)
<1> DEFINE r == p \o q
<1>1. Len(p) \in Nat /\ Len(q) \in Nat OBVIOUS
<1>2. r \in Seq(S) /\ Len(r) = Len(p) + Len(q) OBVIOUS
<1>3. \A i \in 1 .. Len(p) : r[i] = p[i] BY <1>1
<1>4. \A i \in 1 .. Len(q) : r[Len(p) + i] = q[i] BY <1>1
<1> HIDE DEF r
<1>5. ASSUME NEW i \in 1 .. Len(p) + Len(q) PROVE i \in 1 .. Len(p) \/ \E j \in 1 .. Len(q) : i = Len(p) + j
  <2>1. CASE i <= Len(p) BY <1>1, <2>1
  <2>2. CASE i > Len(p)
    <3>1. i - Len(p) \in 1 .. Len(q) /\ i = Len(p) + (i - Len(p)) BY <1>1, <2>2
    <3> QED BY <3>1
  <2> QED BY <1>1, <2>1, <2>2
<1>6. ASSUME NEW x PROVE x \in Range(r) <=> x \in Range(p) \/ x \in Range(q)
  <2>1. x \in Range(r) <=> \E i \in 1 .. Len(p) + Len(q) : r[i] = x BY <1>2, RangeOf
  <2>2. x \in Range(p) <=> \E i \in 1 .. Len(p) : p[i] = x BY RangeOf
  <2>3. x \in Range(q) <=> \E i \in 1 .. Len(q) : q[i] = x BY RangeOf
  <2>4. x \in Range(r) => x \in Range(p) \/ x \in Range(q) BY <1>3, <1>4, <1>5, <2>1, <2>2, <2>3
  <2>5. x \in Range(p) => x \in Range(r)
    <3>1. \A i \in 1 .. Len(p) : i \in 1 .. Len(p) + Len(q) BY <1>1
    <3> QED BY <1>3, <2>1, <2>2, <3>1
  <2>6. x \in Range(q) => x \in Range(r)
    <3>1. \A i \in 1 .. Len(q) : Len(p) + i \in 1 .. Len(p) + Len(q) BY <1>1
    <3> QED BY <1>4, <2>1, <2>3, <3>1
  <2> QED BY <2>4, <2>5, <2>6
<1> QED BY <1>1, <1>2, <1>3, <1>4, <1>5, <1>6 DEF r

\* The rows to a node, but for those from what was seen.
UpRows(edges, seen, node) == {n \in DOMAIN edges : edges[n][2] = node /\ edges[n][1] \notin seen}

\* What holds while the lineage of an object is searched: R has the nodes that
\* are seen or in the queue.
Climbing(edges, id, R, seen, rows) ==
    /\ R \subseteq Objects /\ seen \subseteq R /\ id \in R /\ rows \subseteq DOMAIN edges
    /\ \A x \in R : x = id \/ id \in Below(edges, x)
    /\ \A x \in R : x = id \/ \E n \in rows : edges[n][1] = x
    /\ \A n \in rows : edges[n][2] \in seen /\ edges[n][1] \in R
    /\ \A n \in DOMAIN edges : edges[n][2] \in seen => edges[n][1] \in R
    /\ \A n \in rows, k \in DOMAIN edges : edges[n] = edges[k] => k \in rows

\* The parents of rows.
ParentSet(edges, rows) == {edges[n][1] : n \in rows}

\* Two sets together.
Both(S, T) == S \cup T

\* A node that is seen adds its parents.
LEMMA ClimbOn ==
    ASSUME NEW edges, IsGraph(edges), NEW id, NEW R, NEW seen, NEW rows, Climbing(edges, id, R, seen, rows),
           NEW node \in R, node \notin seen
    PROVE  LET up == UpRows(edges, With(seen, node), node) IN
           Climbing(edges, id, Both(R, ParentSet(edges, up)), With(seen, node), Both(rows, up))
<1> DEFINE new == With(seen, node)
           up == UpRows(edges, new, node)
           T == Both(R, ParentSet(edges, up))
           all == Both(rows, up)
<1>1. \A x : x \in new <=> x \in seen \/ x = node BY DEF With
<1>2. \A n : n \in up <=> n \in DOMAIN edges /\ edges[n][2] = node /\ edges[n][1] \notin new BY DEF UpRows
<1>3. \A x : x \in T <=> x \in R \/ \E n \in up : edges[n][1] = x BY DEF Both, ParentSet
<1>4. \A n : n \in all <=> n \in rows \/ n \in up BY DEF Both
<1> HIDE DEF new, up, T, all
<1>5. /\ R \subseteq Objects /\ seen \subseteq R /\ id \in R /\ rows \subseteq DOMAIN edges
      /\ \A x \in R : x = id \/ id \in Below(edges, x)
      /\ \A x \in R : x = id \/ \E n \in rows : edges[n][1] = x
      /\ \A n \in rows : edges[n][2] \in seen /\ edges[n][1] \in R
      /\ \A n \in DOMAIN edges : edges[n][2] \in seen => edges[n][1] \in R
      /\ \A n \in rows, k \in DOMAIN edges : edges[n] = edges[k] => k \in rows
  BY DEF Climbing
<1>6. ASSUME NEW n \in up PROVE edges[n][1] \in Objects /\ (id = edges[n][1] \/ id \in Below(edges, edges[n][1]))
  <2>1. edges[n] \in Range(edges) BY <1>2, RowFacts
  <2>2. edges[n][1] \in Objects /\ (id = edges[n][2] \/ id \in Below(edges, edges[n][2]) => id \in Below(edges, edges[n][1]))
    BY <2>1, BelowFacts
  <2> QED BY <1>2, <1>5, <2>2
<1>7. T \subseteq Objects /\ new \subseteq T /\ id \in T /\ all \subseteq DOMAIN edges
  BY <1>1, <1>2, <1>3, <1>4, <1>5, <1>6
<1>8. \A x \in T : x = id \/ id \in Below(edges, x) BY <1>3, <1>5, <1>6
<1>9. \A x \in T : x = id \/ \E n \in all : edges[n][1] = x BY <1>3, <1>4, <1>5
<1>10. \A n \in all : edges[n][2] \in new /\ edges[n][1] \in T BY <1>1, <1>2, <1>3, <1>4, <1>5
<1>11. ASSUME NEW n \in DOMAIN edges, edges[n][2] \in new PROVE edges[n][1] \in T
  <2>1. CASE edges[n][2] \in seen BY <1>3, <1>5, <2>1
  <2>2. CASE edges[n][2] = node
    <3>1. CASE edges[n][1] \in new BY <1>7, <3>1
    <3>2. CASE edges[n][1] \notin new BY <1>2, <1>3, <2>2, <3>2
    <3> QED BY <3>1, <3>2
  <2> QED BY <1>1, <1>11, <2>1, <2>2
<1>12. \A n \in all, k \in DOMAIN edges : edges[n] = edges[k] => k \in all BY <1>2, <1>4, <1>5
<1>13. Climbing(edges, id, T, new, all) BY <1>7, <1>8, <1>9, <1>10, <1>11, <1>12 DEF Climbing
<1> QED BY <1>13 DEF new, up, T, all

\* The ancestors are what is seen in the end.
LEMMA ClimbEnds ==
    ASSUME NEW edges, IsGraph(edges), NEW id \in Objects, NEW seen, NEW rows, Climbing(edges, id, seen, seen, rows)
    PROVE  LET ancestors == {x \in Objects : id \in Below(edges, x)} IN
           /\ {edges[n][1] : n \in rows} \cup {id} = ancestors \cup {id}
           /\ \A n \in rows : edges[n][2] \in ancestors \cup {id}
           /\ \A n \in rows, k \in DOMAIN edges : edges[n] = edges[k] => k \in rows
<1> DEFINE ancestors == {x \in Objects : id \in Below(edges, x)}
<1>1. /\ seen \subseteq Objects /\ id \in seen
      /\ \A x \in seen : x = id \/ id \in Below(edges, x)
      /\ \A x \in seen : x = id \/ \E n \in rows : edges[n][1] = x
      /\ \A n \in rows : edges[n][2] \in seen /\ edges[n][1] \in seen
      /\ \A n \in DOMAIN edges : edges[n][2] \in seen => edges[n][1] \in seen
      /\ \A n \in rows, k \in DOMAIN edges : edges[n] = edges[k] => k \in rows
  BY DEF Climbing
<1>2. ASSUME NEW x \in ancestors PROVE x \in seen
  <2> SUFFICES ASSUME x \notin seen PROVE FALSE OBVIOUS
  <2> DEFINE S == Objects \ seen
  <2>1. ASSUME NEW e \in Range(edges), e[1] \notin seen PROVE e[2] \in S
    <3>1. PICK n \in DOMAIN edges : e = edges[n] BY RowFacts
    <3>2. e[2] \in Objects BY BelowFacts
    <3> QED BY <1>1, <2>1, <3>1, <3>2
  <2>2. HasChildren(edges, S) BY <2>1 DEF HasChildren
  <2>3. \A e \in Range(edges) : e[1] = x => e[2] \in S BY <2>1
  <2>4. id \in S
    <3>1. S \in SUBSET Objects OBVIOUS
    <3> HIDE DEF S
    <3> QED BY <2>2, <2>3, <3>1 DEF Below
  <2> QED BY <1>1, <2>4
<1>3. \A x \in seen : x = id \/ x \in ancestors BY <1>1
<1> HIDE DEF ancestors
<1>4. {edges[n][1] : n \in rows} \cup {id} = ancestors \cup {id}
  <2>1. ASSUME NEW x \in {edges[n][1] : n \in rows} PROVE x \in ancestors \cup {id} BY <1>1, <1>3
  <2>2. ASSUME NEW x \in ancestors PROVE x \in {edges[n][1] : n \in rows} \cup {id} BY <1>1, <1>2
  <2> QED BY <2>1, <2>2
<1>5. \A n \in rows : edges[n][2] \in ancestors \cup {id} BY <1>1, <1>3
<1> QED BY <1>1, <1>4, <1>5 DEF ancestors

\* A state of this search, and those that it can be in.
ClimbOf(queue, visited, lineage) == [queue |-> queue, visited |-> visited, lineage |-> lineage]

Climbs(edges, id) ==
    {st \in [queue : Seq(Objects), visited : SUBSET Objects, lineage : SUBSET DOMAIN edges] :
        Climbing(edges, id, Both(st.visited, Range(st.queue)), st.visited, st.lineage)}

\* The rows to what was not seen.
Unclimbed(edges, seen) == {n \in DOMAIN edges : edges[n][2] \notin seen}

\* The nodes that are still to be taken from the queue, at most.
ClimbWork(edges, st) == Len(st.queue) + Cardinality(Unclimbed(edges, st.visited))

\* The parts of a state.
LEMMA ClimbFields ==
    ASSUME NEW q, NEW v, NEW l
    PROVE  ClimbOf(q, v, l).queue = q /\ ClimbOf(q, v, l).visited = v /\ ClimbOf(q, v, l).lineage = l
BY DEF ClimbOf

\* It is one of the search if they fit.
LEMMA ClimbSound ==
    ASSUME NEW edges, NEW id, NEW q \in Seq(Objects), NEW v, NEW l, Climbing(edges, id, Both(v, Range(q)), v, l)
    PROVE  ClimbOf(q, v, l) \in Climbs(edges, id)
<1> DEFINE st == ClimbOf(q, v, l)
<1>1. st.queue = q /\ st.visited = v /\ st.lineage = l BY ClimbFields
<1>2. v \in SUBSET Objects /\ l \in SUBSET DOMAIN edges BY DEF Climbing, Both
<1>3. st \in [queue : Seq(Objects), visited : SUBSET Objects, lineage : SUBSET DOMAIN edges] BY <1>2 DEF ClimbOf
<1> HIDE DEF st
<1>4. st \in Climbs(edges, id) BY <1>1, <1>3 DEF Climbs
<1> QED BY <1>4 DEF st

\* Its parts, the other way round.
LEMMA ClimbParts ==
    ASSUME NEW edges, NEW id, NEW st \in Climbs(edges, id)
    PROVE  \E q, v, l : /\ st = ClimbOf(q, v, l) /\ q \in Seq(Objects)
                        /\ Climbing(edges, id, Both(v, Range(q)), v, l)
<1>1. /\ st \in [queue : Seq(Objects), visited : SUBSET Objects, lineage : SUBSET DOMAIN edges]
      /\ Climbing(edges, id, Both(st.visited, Range(st.queue)), st.visited, st.lineage)
  BY DEF Climbs
<1>2. st = ClimbOf(st.queue, st.visited, st.lineage) BY <1>1 DEF ClimbOf
<1>3. st.queue \in Seq(Objects) BY <1>1
<1> QED BY <1>1, <1>2, <1>3

\* What is counted is finite.
LEMMA UnclimbedCount ==
    ASSUME NEW edges, IsGraph(edges), NEW seen
    PROVE  /\ IsFiniteSet(Unclimbed(edges, seen)) /\ Cardinality(Unclimbed(edges, seen)) \in Nat
           /\ Cardinality(Unclimbed(edges, seen)) <= Len(edges)
<1> DEFINE A == Unclimbed(edges, seen)
<1>1. Len(edges) \in Nat /\ DOMAIN edges = 1 .. Len(edges) BY RowFacts
<1>2. IsFiniteSet(1 .. Len(edges)) /\ Cardinality(1 .. Len(edges)) = Len(edges)
  <2>1. 1 \in Int /\ Len(edges) \in Int BY <1>1
  <2>2. IsFiniteSet(1 .. Len(edges))
        /\ Cardinality(1 .. Len(edges)) = IF 1 > Len(edges) THEN 0 ELSE Len(edges) - 1 + 1
    BY <2>1, FS_Interval
  <2> QED BY <1>1, <2>2
<1>3. A \in SUBSET (1 .. Len(edges)) BY <1>1 DEF Unclimbed
<1> HIDE DEF A
<1>4. IsFiniteSet(A) /\ Cardinality(A) <= Len(edges) BY <1>2, <1>3, FS_Subset
<1>5. Cardinality(A) \in Nat BY <1>4, FS_CardinalityType
<1> QED BY <1>4, <1>5 DEF A

\* A node that is seen makes them less by the rows to it.
LEMMA UnclimbedLess ==
    ASSUME NEW edges, IsGraph(edges), NEW seen, NEW node, node \notin seen
    PROVE  /\ Cardinality(UpRows(edges, With(seen, node), node)) \in Nat
           /\ Cardinality(Unclimbed(edges, With(seen, node))) \in Nat
           /\ Cardinality(UpRows(edges, With(seen, node), node)) + Cardinality(Unclimbed(edges, With(seen, node)))
                 <= Cardinality(Unclimbed(edges, seen))
<1> DEFINE A == Unclimbed(edges, seen)
           B == Unclimbed(edges, With(seen, node))
           C == UpRows(edges, With(seen, node), node)
           D == B \cup C
<1>4. D \in SUBSET A /\ B \cap C = {} BY DEF Unclimbed, UpRows, With
<1> HIDE DEF A, B, C
<1>5. IsFiniteSet(A) BY UnclimbedCount DEF A
<1>6. IsFiniteSet(D) /\ Cardinality(D) <= Cardinality(A) BY <1>4, <1>5, FS_Subset
<1>7. B \in SUBSET D /\ C \in SUBSET D OBVIOUS
<1> HIDE DEF D
<1>8. IsFiniteSet(B) /\ IsFiniteSet(C) BY <1>6, <1>7, FS_Subset
<1>9. Cardinality(A) \in Nat /\ Cardinality(B) \in Nat /\ Cardinality(C) \in Nat /\ Cardinality(D) \in Nat
  BY <1>5, <1>6, <1>8, FS_CardinalityType
<1>10. Cardinality(D) = Cardinality(B) + Cardinality(C) - Cardinality(B \cap C) BY <1>8, FS_Union DEF D
<1>11. Cardinality(B \cap C) = 0 BY <1>4, FS_EmptySet
<1>12. Cardinality(C) + Cardinality(B) <= Cardinality(A) BY <1>6, <1>9, <1>10, <1>11
<1> QED BY <1>5, <1>9, <1>12 DEF A, B, C

\* What a step of the search changes.
LEMMA AscendIs ==
    ASSUME NEW edges, NEW q, NEW v, NEW l
    PROVE  /\ Head(q) \in v => Ascend(edges, ClimbOf(q, v, l)) = ClimbOf(Tail(q), v, l)
           /\ Head(q) \notin v =>
                 LET up == UpRows(edges, With(v, Head(q)), Head(q)) IN
                 Ascend(edges, ClimbOf(q, v, l))
                    = ClimbOf(Tail(q) \o ParentsIn(edges, up), With(v, Head(q)), Both(l, up))
<1> DEFINE st == ClimbOf(q, v, l)
           t == Tail(q)
<1>1. st.queue = q /\ st.visited = v /\ st.lineage = l BY ClimbFields
<1>2. st = [queue |-> q, visited |-> v, lineage |-> l] BY DEF ClimbOf
<1> HIDE DEF st
<1>3. ASSUME Head(q) \in v PROVE Ascend(edges, st) = ClimbOf(t, v, l)
  <2>1. Ascend(edges, st) = [st EXCEPT !.queue = t] BY <1>1, <1>3 DEF Ascend
  <2> HIDE DEF t
  <2>2. [st EXCEPT !.queue = t] = [queue |-> t, visited |-> v, lineage |-> l] BY <1>2
  <2> QED BY <2>1, <2>2 DEF ClimbOf
<1>4. ASSUME Head(q) \notin v
      PROVE  LET up == UpRows(edges, With(v, Head(q)), Head(q)) IN
             Ascend(edges, st) = ClimbOf(t \o ParentsIn(edges, up), With(v, Head(q)), Both(l, up))
  BY <1>1, <1>4 DEF Ascend, ClimbOf, UpRows, With, Both, ParentsIn
<1> QED BY <1>3, <1>4 DEF st, t

\* A step of it leaves a state of the search, with less work.
LEMMA AscendStep ==
    ASSUME NEW edges, IsGraph(edges), NEW id, NEW st \in Climbs(edges, id)
    PROVE  /\ ClimbWork(edges, st) \in Nat
           /\ st.queue # <<>> =>
                 /\ Ascend(edges, st) \in Climbs(edges, id)
                 /\ ClimbWork(edges, Ascend(edges, st)) < ClimbWork(edges, st)
<1>1. PICK q, v, l : /\ st = ClimbOf(q, v, l) /\ q \in Seq(Objects)
                     /\ Climbing(edges, id, Both(v, Range(q)), v, l)
  BY ClimbParts
<1>2. st.queue = q /\ st.visited = v
  <2>1. ClimbOf(q, v, l).queue = q /\ ClimbOf(q, v, l).visited = v BY ClimbFields
  <2> QED BY <1>1, <2>1
<1>3. Len(q) \in Nat BY <1>1
<1>4. Cardinality(Unclimbed(edges, v)) \in Nat
  BY UnclimbedCount
<1>5. ClimbWork(edges, st) = Len(q) + Cardinality(Unclimbed(edges, v)) BY <1>2 DEF ClimbWork
<1>6. ASSUME q # <<>>
      PROVE  Ascend(edges, st) \in Climbs(edges, id) /\ ClimbWork(edges, Ascend(edges, st)) < ClimbWork(edges, st)
  <2> DEFINE node == Head(q)
             t == Tail(q)
             to == Ascend(edges, st)
  <2>1. Len(q) # 0 BY <1>1, <1>6
  <2>2. node \in Objects /\ t \in Seq(Objects) /\ Len(t) = Len(q) - 1 BY <1>1, <2>1, TailFacts
  <2>3. \A x : x \in Range(q) <=> x = node \/ x \in Range(t) BY <1>1, <2>1, TailRange
  <2>4. node \in v => to = ClimbOf(t, v, l) BY <1>1, AscendIs
  <2>5. node \notin v =>
           LET up == UpRows(edges, With(v, node), node) IN
           to = ClimbOf(t \o ParentsIn(edges, up), With(v, node), Both(l, up))
    BY <1>1, AscendIs
  <2> HIDE DEF node, t, to
  <2>6. CASE node \in v
    <3>1. Both(v, Range(t)) = Both(v, Range(q)) BY <2>3, <2>6 DEF Both
    <3>2. Climbing(edges, id, Both(v, Range(t)), v, l) BY <1>1, <3>1
    <3>3. to \in Climbs(edges, id) BY <2>2, <2>4, <2>6, <3>2, ClimbSound
    <3>4. to.queue = t /\ to.visited = v
      <4>1. ClimbOf(t, v, l).queue = t /\ ClimbOf(t, v, l).visited = v BY ClimbFields
      <4> QED BY <2>4, <2>6, <4>1
    <3>5. ClimbWork(edges, to) = Len(t) + Cardinality(Unclimbed(edges, v)) BY <3>4 DEF ClimbWork
    <3>6. ClimbWork(edges, to) < ClimbWork(edges, st) BY <1>3, <1>4, <1>5, <2>2, <3>5
    <3> QED BY <3>3, <3>6 DEF to
  <2>7. CASE node \notin v
    <3> DEFINE w == With(v, node)
               up == UpRows(edges, w, node)
               p == ParentsIn(edges, up)
               r == t \o p
               rows == Both(l, up)
    <3>1. to = ClimbOf(r, w, rows) BY <2>5, <2>7
    <3>2. up \in SUBSET DOMAIN edges BY DEF UpRows
    <3>3. Climbing(edges, id, Both(Both(v, Range(q)), ParentSet(edges, up)), w, rows)
      <4>1. node \in Both(v, Range(q)) BY <2>3 DEF Both
      <4>2. LET u == UpRows(edges, With(v, node), node) IN
            Climbing(edges, id, Both(Both(v, Range(q)), ParentSet(edges, u)), With(v, node), Both(l, u))
        BY <1>1, <2>7, <4>1, ClimbOn
      <4> QED BY <4>2
    <3>4. /\ Cardinality(up) \in Nat /\ Cardinality(Unclimbed(edges, w)) \in Nat
          /\ Cardinality(up) + Cardinality(Unclimbed(edges, w)) <= Cardinality(Unclimbed(edges, v))
      BY <2>7, UnclimbedLess
    <3> HIDE DEF up, rows
    <3>5. /\ p \in Seq(Objects) /\ Len(p) = Cardinality(up)
          /\ \A x : x \in Range(p) <=> \E n \in up : edges[n][1] = x
      BY <3>2, ParentsFacts
    <3> HIDE DEF p
    <3>6. r \in Seq(Objects) /\ Len(r) = Len(t) + Len(p) /\ \A x : x \in Range(r) <=> x \in Range(t) \/ x \in Range(p)
      BY <2>2, <3>5, JoinFacts
    <3> HIDE DEF r
    <3>7. Both(w, Range(r)) = Both(Both(v, Range(q)), ParentSet(edges, up))
      <4>1. ASSUME NEW x PROVE x \in Both(w, Range(r)) <=> x \in Both(Both(v, Range(q)), ParentSet(edges, up))
        BY <2>3, <3>5, <3>6 DEF Both, With, ParentSet
      <4> QED BY <4>1
    <3> HIDE DEF w
    <3>8. Climbing(edges, id, Both(w, Range(r)), w, rows) BY <3>3, <3>7
    <3>9. to \in Climbs(edges, id) BY <3>1, <3>6, <3>8, ClimbSound
    <3>10. to.queue = r /\ to.visited = w
      <4>1. ClimbOf(r, w, rows).queue = r /\ ClimbOf(r, w, rows).visited = w BY ClimbFields
      <4> QED BY <3>1, <4>1
    <3>11. ClimbWork(edges, to) = Len(r) + Cardinality(Unclimbed(edges, w)) BY <3>10 DEF ClimbWork
    <3>12. ClimbWork(edges, to) < ClimbWork(edges, st) BY <1>3, <1>4, <1>5, <2>2, <3>4, <3>5, <3>6, <3>11
    <3> QED BY <3>9, <3>12 DEF to
  <2> QED BY <2>6, <2>7
<1> QED BY <1>2, <1>3, <1>4, <1>5, <1>6

\* The search begins with the object.
LEMMA ClimbBegins ==
    ASSUME NEW edges, IsGraph(edges), NEW id \in Objects,
           NEW q \in Seq(Objects), Len(q) = 1, q[1] = id
    PROVE  /\ ClimbOf(q, {}, {}) \in Climbs(edges, id)
           /\ ClimbWork(edges, ClimbOf(q, {}, {})) <= Len(edges) + 1
<1> DEFINE none == {}
           st == ClimbOf(q, none, none)
<1>1. q \in Seq(Objects) /\ Len(q) = 1 /\ \A x : x \in Range(q) <=> x = id
  <2>1. \A x : x \in Range(q) <=> \E i \in 1 .. Len(q) : q[i] = x BY RangeOf
  <2>2. 1 .. 1 = {1} OBVIOUS
  <2> QED BY <2>1, <2>2
<1>2. Climbing(edges, id, Both(none, Range(q)), none, none)
  <2>1. \A x : x \in Both(none, Range(q)) <=> x = id BY <1>1 DEF Both
  <2> QED BY <2>1 DEF Climbing
<1>3. Cardinality(Unclimbed(edges, none)) \in Nat /\ Cardinality(Unclimbed(edges, none)) <= Len(edges)
  BY UnclimbedCount
<1>4. Len(edges) \in Nat BY RowFacts
<1> HIDE DEF none
<1>5. st \in Climbs(edges, id) BY <1>1, <1>2, ClimbSound
<1>6. st.queue = q /\ st.visited = none BY ClimbFields
<1> HIDE DEF st
<1>7. ClimbWork(edges, st) = Len(q) + Cardinality(Unclimbed(edges, none)) BY <1>6 DEF ClimbWork
<1>8. ClimbWork(edges, st) <= Len(edges) + 1 BY <1>1, <1>3, <1>4, <1>7
<1> QED BY <1>5, <1>8 DEF st, none

\* The states of the search.
Ascended(edges, first, last, f) ==
    f = [n \in 0 .. last |->
            IF n = 0 THEN first ELSE IF f[n - 1].queue = <<>> THEN f[n - 1] ELSE Ascend(edges, f[n - 1])]

\* The service tells of exactly the ancestors of an object.
LEMMA LineageFound ==
    ASSUME NEW edges, IsGraph(edges), NEW id \in Objects
    PROVE  \E seen : Climbing(edges, id, seen, seen, read_object_lineage(edges, id))
<1> DEFINE last == Len(edges) + 1
           q == <<id>>
           first == ClimbOf(q, {}, {})
           after == CHOOSE f : Ascended(edges, first, last, f)
           Good == Climbs(edges, id)
           done == {x \in Good : x.queue = <<>>}
           step == [x \in Good |-> IF x.queue = <<>> THEN x ELSE Ascend(edges, x)]
           work == [x \in Good |-> ClimbWork(edges, x)]
<1>1. read_object_lineage(edges, id) = after[last].lineage BY DEF read_object_lineage, Ascended, ClimbOf
<1>2. last \in Nat BY RowFacts
<1>3. first \in Good /\ ClimbWork(edges, first) <= last
  <2>1. q \in Seq(Objects) /\ Len(q) = 1 /\ q[1] = id OBVIOUS
  <2> HIDE DEF q
  <2> QED BY <2>1, ClimbBegins
<1> HIDE DEF first, last, q
<1>4. \A x \in Good : ClimbWork(edges, x) \in Nat BY AscendStep
<1>5. \A x \in Good : x.queue # <<>> => Ascend(edges, x) \in Good /\ ClimbWork(edges, Ascend(edges, x)) < ClimbWork(edges, x)
  BY AscendStep
<1>6. step \in [Good -> Good] /\ work \in [Good -> Nat] BY <1>4, <1>5
<1>7. \A x \in Good : x \notin done => work[step[x]] < work[x] BY <1>5
<1>8. work[first] <= last BY <1>3
<1>9. \A x \in Good : step[x] = (IF x.queue = <<>> THEN x ELSE Ascend(edges, x)) /\ (x \in done <=> x.queue = <<>>)
  OBVIOUS
<1> HIDE DEF done, step, work, Good
<1>10. \E g : ComesTo(g, Good, done, step, first, last) BY <1>2, <1>3, <1>6, <1>7, <1>8, RunEnds
<1>11. PICK g : ComesTo(g, Good, done, step, first, last) BY <1>10
<1>12. /\ g = [n \in 0 .. last |-> IF n = 0 THEN first ELSE IF g[n - 1] \in done THEN g[n - 1] ELSE step[g[n - 1]]]
       /\ \A n \in 0 .. last : g[n] \in Good
       /\ g[last] \in done
  BY <1>11 DEF ComesTo
<1>13. Ascended(edges, first, last, g)
  <2>1. ASSUME NEW n \in 0 .. last
        PROVE  g[n] = IF n = 0 THEN first ELSE IF g[n - 1].queue = <<>> THEN g[n - 1] ELSE Ascend(edges, g[n - 1])
    <3>1. n # 0 => n - 1 \in 0 .. last BY <1>2
    <3>2. g[n] = IF n = 0 THEN first ELSE IF g[n - 1] \in done THEN g[n - 1] ELSE step[g[n - 1]] BY <1>12
    <3>3. n # 0 => g[n - 1] \in Good BY <1>12, <3>1
    <3> QED BY <1>9, <3>2, <3>3
  <2>2. g = [n \in 0 .. last |-> g[n]] BY <1>12
  <2> QED BY <2>1, <2>2 DEF Ascended
<1>14. Ascended(edges, first, last, after) BY <1>13
<1> HIDE DEF after
<1>15. ASSUME NEW f, Ascended(edges, first, last, f), NEW n \in 0 .. last
       PROVE  f[n] = IF n = 0 THEN first ELSE IF f[n - 1].queue = <<>> THEN f[n - 1] ELSE Ascend(edges, f[n - 1])
  BY <1>15 DEF Ascended
<1>16. after[last] = g[last]
  <2> DEFINE S == {n \in Nat : n <= last => after[n] = g[n]}
  <2>1. 0 \in S
    <3>1. 0 \in 0 .. last BY <1>2
    <3> QED BY <1>13, <1>14, <1>15, <3>1
  <2>2. ASSUME NEW n \in Nat, n \in S PROVE n + 1 \in S
    <3> SUFFICES ASSUME n + 1 <= last PROVE after[n + 1] = g[n + 1] OBVIOUS
    <3>1. n + 1 \in 0 .. last /\ n + 1 # 0 /\ (n + 1) - 1 = n BY <1>2
    <3>2. after[n] = g[n] BY <1>2, <2>2
    <3> DEFINE m == n + 1
    <3>3. after[m] = IF m = 0 THEN first ELSE IF after[m - 1].queue = <<>> THEN after[m - 1]
                                              ELSE Ascend(edges, after[m - 1])
      BY <1>14, <1>15, <3>1
    <3>4. g[m] = IF m = 0 THEN first ELSE IF g[m - 1].queue = <<>> THEN g[m - 1] ELSE Ascend(edges, g[m - 1])
      BY <1>13, <1>15, <3>1
    <3> QED BY <3>1, <3>2, <3>3, <3>4
  <2>3. \A n \in Nat : n \in S
    <3> HIDE DEF S
    <3> QED BY <2>1, <2>2, NatSteps
  <2> QED BY <1>2, <2>3
<1> DEFINE end == after[last]
<1>17. end \in Good /\ end.queue = <<>>
  <2>1. last \in 0 .. last BY <1>2
  <2> QED BY <1>9, <1>12, <1>16, <2>1
<1> HIDE DEF end
<1>18. Climbing(edges, id, Both(end.visited, Range(end.queue)), end.visited, end.lineage) BY <1>17 DEF Good, Climbs
<1>19. Both(end.visited, Range(end.queue)) = end.visited
  <2>1. Range(<<>>) = {} BY DEF Range
  <2> QED BY <1>17, <2>1 DEF Both
<1> QED BY <1>1, <1>18, <1>19 DEF end

\* The objects that one more edge leads to.
Lower(edges, S) == S \cup {e[2] : e \in {f \in Range(edges) : f[1] \in S}}

\* The objects that so many edges lead to from a root.
LayerOf(f, edges, domain) == f = [k \in domain |-> IF k = 0 THEN Roots(Objects, edges) ELSE Lower(edges, f[k - 1])]

\* Two such functions agree where both are defined.
LEMMA LayerOfAgree ==
    ASSUME NEW edges, NEW n \in Nat, NEW m \in Nat, NEW f, NEW g, n <= m,
           LayerOf(f, edges, 0 .. n), LayerOf(g, edges, 0 .. m)
    PROVE  \A k \in 0 .. n : f[k] = g[k]
<1> DEFINE roots == Roots(Objects, edges)
           S == {k \in Nat : k <= n => f[k] = g[k]}
<1>0. /\ \A k \in 0 .. n : f[k] = IF k = 0 THEN roots ELSE Lower(edges, f[k - 1])
      /\ \A k \in 0 .. m : g[k] = IF k = 0 THEN roots ELSE Lower(edges, g[k - 1])
  BY DEF LayerOf
<1> HIDE DEF roots
<1>1. 0 \in S BY <1>0
<1>2. ASSUME NEW k \in Nat, k \in S PROVE k + 1 \in S
  <2> SUFFICES ASSUME k + 1 <= n PROVE f[k + 1] = g[k + 1] OBVIOUS
  <2>1. f[k] = g[k] /\ (k + 1) - 1 = k BY <1>2
  <2>2. k + 1 \in 0 .. n /\ k + 1 \in 0 .. m OBVIOUS
  <2> QED BY <1>0, <2>1, <2>2
<1>3. \A k \in Nat : k \in S
  <2> HIDE DEF S
  <2> QED BY <1>1, <1>2, NatSteps
<1> QED BY <1>3

\* There is one for all numbers of edges.
LEMMA LayerOfExists == ASSUME NEW edges PROVE \E f : LayerOf(f, edges, Nat)
<1> DEFINE F(n) == CHOOSE f : LayerOf(f, edges, 0 .. n)
           h == [k \in Nat |-> F(k)[k]]
           roots == Roots(Objects, edges)
<1>1. ASSUME NEW n \in Nat PROVE LayerOf(F(n), edges, 0 .. n)
  <2> DEFINE step == [S \in {x : x \in SUBSET (Objects \cup {e[2] : e \in Range(edges)})} |-> Lower(edges, S)]
             next == [k \in 1 .. n |-> step]
             U == SUBSET (Objects \cup {e[2] : e \in Range(edges)})
  <2>1. PICK f : Chain(f, roots, next, n) BY ChainExists
  <2>2. \A S \in U : step[S] = Lower(edges, S) /\ Lower(edges, S) \in U BY DEF Lower
  <2>3. roots \in U BY DEF Roots
  <2>4. f = [k \in 0 .. n |-> IF k = 0 THEN roots ELSE next[k][f[k - 1]]] BY <2>1 DEF Chain
  <2>5. \A k \in 1 .. n : next[k] = step OBVIOUS
  <2> HIDE DEF step, next, U, roots
  <2> DEFINE T == {k \in Nat : k <= n => f[k] \in U}
  <2>6. 0 \in T BY <2>3, <2>4
  <2>7. ASSUME NEW k \in Nat, k \in T PROVE k + 1 \in T
    <3> SUFFICES ASSUME k + 1 <= n PROVE f[k + 1] \in U OBVIOUS
    <3>1. k + 1 \in 0 .. n /\ k + 1 \in 1 .. n /\ k + 1 # 0 /\ (k + 1) - 1 = k /\ f[k] \in U BY <2>7
    <3>2. f[k + 1] = next[k + 1][f[k]] BY <2>4, <3>1
    <3> QED BY <2>2, <2>5, <3>1, <3>2
  <2>8. \A k \in Nat : k \in T
    <3> HIDE DEF T
    <3> QED BY <2>6, <2>7, NatSteps
  <2>9. ASSUME NEW k \in 0 .. n PROVE f[k] = IF k = 0 THEN roots ELSE Lower(edges, f[k - 1])
    <3>1. CASE k = 0 BY <2>4, <3>1
    <3>2. CASE k # 0
      <4>1. k \in 1 .. n /\ k - 1 \in Nat /\ k - 1 <= n BY <3>2
      <4>2. f[k] = next[k][f[k - 1]] BY <2>4, <3>2
      <4>3. f[k - 1] \in U BY <2>8, <4>1
      <4> QED BY <2>2, <2>5, <3>2, <4>1, <4>2, <4>3
    <3> QED BY <3>1, <3>2
  <2>10. f = [k \in 0 .. n |-> f[k]] BY <2>4
  <2>11. LayerOf(f, edges, 0 .. n) BY <2>9, <2>10 DEF LayerOf, roots
  <2> QED BY <2>11
<1>2. ASSUME NEW k \in Nat PROVE h[k] = IF k = 0 THEN roots ELSE Lower(edges, h[k - 1])
  <2>1. h[k] = F(k)[k] OBVIOUS
  <2>2. k # 0 => h[k - 1] = F(k)[k - 1]
    <3> SUFFICES ASSUME k # 0 PROVE h[k - 1] = F(k)[k - 1] OBVIOUS
    <3>1. k - 1 \in Nat /\ k - 1 <= k /\ k - 1 \in 0 .. k - 1 OBVIOUS
    <3>2. h[k - 1] = F(k - 1)[k - 1] BY <3>1
    <3>3. LayerOf(F(k - 1), edges, 0 .. k - 1) /\ LayerOf(F(k), edges, 0 .. k) BY <1>1, <3>1
    <3> HIDE DEF F, h
    <3> QED BY <3>1, <3>2, <3>3, LayerOfAgree
  <2>3. LayerOf(F(k), edges, 0 .. k) BY <1>1
  <2> HIDE DEF F, h
  <2>4. F(k)[k] = IF k = 0 THEN roots ELSE Lower(edges, F(k)[k - 1])
    <3>1. k \in 0 .. k OBVIOUS
    <3> QED BY <2>3, <3>1 DEF LayerOf
  <2> HIDE DEF roots
  <2> QED BY <2>1, <2>2, <2>4
<1>3. h = [k \in Nat |-> h[k]] OBVIOUS
<1> HIDE DEF h
<1>4. LayerOf(h, edges, Nat) BY <1>2, <1>3 DEF LayerOf
<1> QED BY <1>4

\* The layers lie in each other.
Layered(edges, W) ==
    /\ W \in [Nat -> SUBSET Objects]
    /\ W[0] = Roots(Objects, edges)
    /\ \A n \in Nat : W[n + 1] = Lower(edges, W[n])
    /\ \A n, m \in Nat : n <= m => W[n] \subseteq W[m]

\* They do.
LEMMA LayersLie == ASSUME NEW edges, IsGraph(edges), NEW W, LayerOf(W, edges, Nat) PROVE Layered(edges, W)
<1>1. W = [k \in Nat |-> IF k = 0 THEN Roots(Objects, edges) ELSE Lower(edges, W[k - 1])] BY DEF LayerOf
<1>2. W[0] = Roots(Objects, edges) BY <1>1
<1>3. ASSUME NEW n \in Nat PROVE W[n + 1] = Lower(edges, W[n])
  <2>1. n + 1 \in Nat /\ n + 1 # 0 /\ (n + 1) - 1 = n OBVIOUS
  <2> QED BY <1>1, <2>1
<1>4. \A n \in Nat : W[n] \in SUBSET Objects
  <2> DEFINE S == {n \in Nat : W[n] \in SUBSET Objects}
  <2>1. 0 \in S BY <1>2 DEF Roots
  <2>2. ASSUME NEW n \in Nat, n \in S PROVE n + 1 \in S
    <3>1. \A e \in Range(edges) : e[2] \in Objects BY BelowFacts
    <3>2. Lower(edges, W[n]) \in SUBSET Objects BY <2>2, <3>1 DEF Lower
    <3> QED BY <1>3, <3>2
  <2>3. \A n \in Nat : n \in S
    <3> HIDE DEF S
    <3> QED BY <2>1, <2>2, NatSteps
  <2> QED BY <2>3
<1>5. DOMAIN W = Nat /\ W = [k \in Nat |-> W[k]] BY <1>1
<1>6. W \in [Nat -> SUBSET Objects] BY <1>4, <1>5
<1>7. ASSUME NEW n \in Nat PROVE \A m \in Nat : W[n] \subseteq W[n + m]
  <2> DEFINE S == {m \in Nat : W[n] \subseteq W[n + m]}
  <2>1. 0 \in S OBVIOUS
  <2>2. ASSUME NEW m \in Nat, m \in S PROVE m + 1 \in S
    <3>1. n + m \in Nat /\ n + (m + 1) = (n + m) + 1 OBVIOUS
    <3>2. W[(n + m) + 1] = Lower(edges, W[n + m]) BY <1>3, <3>1
    <3>3. W[n + m] \subseteq W[(n + m) + 1] BY <3>2 DEF Lower
    <3> QED BY <2>2, <3>1, <3>3
  <2>3. \A m \in Nat : m \in S
    <3> HIDE DEF S
    <3> QED BY <2>1, <2>2, NatSteps
  <2> QED BY <2>3
<1>8. ASSUME NEW n \in Nat, NEW m \in Nat, n <= m PROVE W[n] \subseteq W[m]
  <2>1. m - n \in Nat /\ n + (m - n) = m BY <1>8
  <2> QED BY <1>7, <2>1
<1> QED BY <1>2, <1>3, <1>6, <1>8 DEF Layered

\* A layer that does not grow is the last.
LEMMA LayersStay ==
    ASSUME NEW edges, NEW W, Layered(edges, W), NEW k \in Nat, W[k + 1] = W[k]
    PROVE  \A m \in Nat : W[k + m] = W[k]
<1> DEFINE S == {m \in Nat : W[k + m] = W[k]}
<1>1. 0 \in S OBVIOUS
<1>2. ASSUME NEW m \in Nat, m \in S PROVE m + 1 \in S
  <2>1. k + m \in Nat /\ k + (m + 1) = (k + m) + 1 OBVIOUS
  <2>2. W[(k + m) + 1] = Lower(edges, W[k + m]) /\ W[k + 1] = Lower(edges, W[k]) BY <2>1 DEF Layered
  <2> QED BY <1>2, <2>1, <2>2
<1>3. \A m \in Nat : m \in S
  <2> HIDE DEF S
  <2> QED BY <1>1, <1>2, NatSteps
<1> QED BY <1>3

\* A layer that has grown has as many objects as it has edges to a root, so
\* there are not more layers than objects.
LEMMA LayersFew ==
    ASSUME NEW edges, NEW W, Layered(edges, W), IsFiniteSet(Objects), NEW d \in Nat, d = 0 \/ W[d] # W[d - 1]
    PROVE  Cardinality(Objects) \in Nat /\ d <= Cardinality(Objects)
<1>1. \A n \in Nat : W[n] \in SUBSET Objects BY DEF Layered
<1>2. \A n \in Nat : IsFiniteSet(W[n]) /\ Cardinality(W[n]) \in Nat /\ Cardinality(W[n]) <= Cardinality(Objects)
  BY <1>1, FS_Subset, FS_CardinalityType
<1> DEFINE S == {k \in Nat : k <= d => k <= Cardinality(W[k])}
<1>3. 0 \in S BY <1>2
<1>4. ASSUME NEW k \in Nat, k \in S PROVE k + 1 \in S
  <2> SUFFICES ASSUME k + 1 <= d PROVE k + 1 <= Cardinality(W[k + 1]) OBVIOUS
  <2>1. k <= Cardinality(W[k]) BY <1>4
  <2>2. W[k] \in SUBSET W[k + 1] BY DEF Layered
  <2>3. W[k] # W[k + 1]
    <3> SUFFICES ASSUME W[k + 1] = W[k] PROVE FALSE OBVIOUS
    <3>1. \A m \in Nat : W[k + m] = W[k] BY LayersStay
    <3>2. d - k \in Nat /\ (d - 1) - k \in Nat /\ k + (d - k) = d /\ k + ((d - 1) - k) = d - 1 /\ d # 0 OBVIOUS
    <3>3. W[d] = W[k] /\ W[d - 1] = W[k] BY <3>1, <3>2
    <3> QED BY <3>2, <3>3
  <2>4. k + 1 \in Nat OBVIOUS
  <2>5. IsFiniteSet(W[k + 1]) /\ Cardinality(W[k]) \in Nat /\ Cardinality(W[k + 1]) \in Nat BY <1>2, <2>4
  <2> DEFINE A == W[k]
             B == W[k + 1]
  <2> HIDE DEF A, B
  <2>6. Cardinality(A) <= Cardinality(B) /\ (Cardinality(B) = Cardinality(A) => B = A)
    BY <2>2, <2>5, FS_Subset DEF A, B
  <2> QED BY <2>1, <2>3, <2>5, <2>6 DEF A, B
<1>5. \A k \in Nat : k \in S
  <2> HIDE DEF S
  <2> QED BY <1>3, <1>4, NatSteps
<1>6. d <= Cardinality(W[d]) BY <1>5
<1>7. Cardinality(Objects) \in Nat BY FS_CardinalityType
<1> QED BY <1>2, <1>6, <1>7

\* An object in the queue, with the depth at which it was found.
InQueue(q, x) == \E i \in 1 .. Len(q) : q[i][1] = x

\* What holds while the depth is searched, whose queue has objects with the
\* depth at which they were found.
Descending(edges, W, q, v, d) ==
    /\ q \in Seq(Objects \X Nat) /\ d \in Nat /\ v \subseteq W[d] /\ (d = 0 \/ W[d] # W[d - 1])
    /\ \A i \in 1 .. Len(q) : q[i][1] \in W[q[i][2]] /\ d <= q[i][2] /\ q[i][2] <= q[1][2] + 1
    /\ \A i, j \in 1 .. Len(q) : i < j => q[i][2] <= q[j][2]
    /\ \A x \in Roots(Objects, edges) : x \in v \/ InQueue(q, x)
    /\ \A e \in Range(edges) : e[1] \in v => e[2] \in v \/ InQueue(q, e[2])
    /\ Len(q) # 0 => \A k \in Nat : k < q[1][2] => W[k] \subseteq v
    /\ Len(q) # 0 => \A x \in W[q[1][2]] : x \in v \/ \E i \in 1 .. Len(q) : q[i][1] = x /\ q[i][2] = q[1][2]

\* The queue r has what was behind the first in q, and then objects that are
\* one deeper.
Moved(W, q, r) ==
    /\ r \in Seq(Objects \X Nat)
    /\ \A i \in 1 .. Len(r) : \/ \E j \in 2 .. Len(q) : r[i] = q[j]
                              \/ r[i][2] = q[1][2] + 1 /\ r[i][1] \in W[q[1][2] + 1]
    /\ \A j \in 2 .. Len(q) : \E i \in 1 .. Len(r) : r[i] = q[j]
    /\ \A i, j \in 1 .. Len(r) : i < j => r[i][2] <= r[j][2]

\* The depth of a node that is new counts.
Deeper(d, fresh, q) == IF fresh /\ q[1][2] > d THEN q[1][2] ELSE d

\* A step of the search.
LEMMA DescendOn ==
    ASSUME NEW edges, IsGraph(edges), NEW W, Layered(edges, W),
           NEW q, NEW v, NEW d, Descending(edges, W, q, v, d), Len(q) # 0,
           NEW r, Moved(W, q, r),
           \A e \in Range(edges) : e[1] = q[1][1] => e[2] \in With(v, q[1][1]) \/ InQueue(r, e[2])
    PROVE  Descending(edges, W, r, With(v, q[1][1]), Deeper(d, q[1][1] \notin v, q))
<1> DEFINE node == q[1][1]
           D == q[1][2]
           w == With(v, node)
           dd == Deeper(d, node \notin v, q)
           R == Roots(Objects, edges)
<1>1. /\ q \in Seq(Objects \X Nat) /\ d \in Nat /\ v \subseteq W[d] /\ (d = 0 \/ W[d] # W[d - 1])
      /\ \A i \in 1 .. Len(q) : q[i][1] \in W[q[i][2]] /\ d <= q[i][2] /\ q[i][2] <= D + 1
      /\ \A i, j \in 1 .. Len(q) : i < j => q[i][2] <= q[j][2]
      /\ \A x \in R : x \in v \/ InQueue(q, x)
      /\ \A e \in Range(edges) : e[1] \in v => e[2] \in v \/ InQueue(q, e[2])
      /\ \A k \in Nat : k < D => W[k] \subseteq v
      /\ \A x \in W[D] : x \in v \/ \E i \in 1 .. Len(q) : q[i][1] = x /\ q[i][2] = D
  BY DEF Descending
<1>2. /\ r \in Seq(Objects \X Nat)
      /\ \A i \in 1 .. Len(r) : (\E j \in 2 .. Len(q) : r[i] = q[j]) \/ (r[i][2] = D + 1 /\ r[i][1] \in W[D + 1])
      /\ \A j \in 2 .. Len(q) : \E i \in 1 .. Len(r) : r[i] = q[j]
      /\ \A i, j \in 1 .. Len(r) : i < j => r[i][2] <= r[j][2]
  BY DEF Moved
<1>3. /\ \A n \in Nat : W[n] \subseteq Objects /\ W[n + 1] = Lower(edges, W[n])
      /\ \A n, m \in Nat : n <= m => W[n] \subseteq W[m]
  BY DEF Layered
<1>4. Len(q) \in Nat /\ Len(r) \in Nat /\ 1 \in 1 .. Len(q) BY <1>1, <1>2
<1>5. \A i \in 1 .. Len(q) : q[i][2] \in Nat /\ q[i][1] \in Objects BY <1>1
<1>6. \A i \in 1 .. Len(r) : r[i][2] \in Nat /\ r[i][1] \in Objects BY <1>2
<1>7. \A j \in 2 .. Len(q) : j \in 1 .. Len(q) /\ 1 < j BY <1>4
<1>8. \A i \in 1 .. Len(q) : i = 1 \/ i \in 2 .. Len(q) BY <1>4
<1> DEFINE InR(x) == InQueue(r, x)
<1>9. D \in Nat /\ node \in W[D] /\ d <= D /\ node \in Objects BY <1>1, <1>4, <1>5
<1>10. \A x : x \in w <=> x \in v \/ x = node BY DEF With
<1>11. dd \in Nat /\ dd <= D /\ d <= dd /\ (node \notin v => dd = D) /\ (node \in v => dd = d)
  BY <1>1, <1>9 DEF Deeper
<1> HIDE DEF node, D, w, dd, R
<1>12. w \subseteq W[dd]
  <2>1. W[d] \subseteq W[dd] BY <1>1, <1>3, <1>11
  <2>2. node \in W[dd] BY <1>1, <1>9, <1>11
  <2> QED BY <1>1, <1>10, <2>1, <2>2
<1>13. dd = 0 \/ W[dd] # W[dd - 1]
  <2>1. CASE node \in v BY <1>1, <1>11, <2>1
  <2>2. CASE node \notin v
    <3> SUFFICES ASSUME D # 0 PROVE W[D] # W[D - 1] BY <1>11, <2>2
    <3>1. D - 1 \in Nat /\ D - 1 < D BY <1>9
    <3>2. node \notin W[D - 1] BY <1>1, <2>2, <3>1
    <3> QED BY <1>9, <3>2
  <2> QED BY <2>1, <2>2
<1>14. ASSUME NEW i \in 1 .. Len(r) PROVE r[i][1] \in W[r[i][2]] /\ D <= r[i][2] /\ r[i][2] <= D + 1
  <2>1. CASE \E j \in 2 .. Len(q) : r[i] = q[j]
    <3>1. PICK j \in 2 .. Len(q) : r[i] = q[j] BY <2>1
    <3>2. q[1][2] <= q[j][2] BY <1>1, <1>4, <1>7
    <3> QED BY <1>1, <1>7, <3>1, <3>2 DEF D
  <2>2. CASE r[i][2] = D + 1 /\ r[i][1] \in W[D + 1] BY <1>9, <2>2
  <2> QED BY <1>2, <2>1, <2>2
<1>15. ASSUME NEW i \in 1 .. Len(r) PROVE r[i][1] \in W[r[i][2]] /\ dd <= r[i][2] /\ r[i][2] <= r[1][2] + 1
  <2>1. 1 \in 1 .. Len(r) BY <1>4
  <2>2. D <= r[1][2] /\ r[1][2] \in Nat BY <1>6, <1>14, <2>1
  <2>3. r[i][2] \in Nat BY <1>6
  <2> QED BY <1>9, <1>11, <1>14, <2>2, <2>3
<1>16. ASSUME NEW x, InQueue(q, x) PROVE x \in w \/ InR(x)
  <2>1. PICK i \in 1 .. Len(q) : q[i][1] = x BY <1>16 DEF InQueue
  <2>2. CASE i = 1 BY <1>10, <2>1, <2>2 DEF node
  <2>3. CASE i \in 2 .. Len(q)
    <3>1. PICK k \in 1 .. Len(r) : r[k] = q[i] BY <1>2, <2>3
    <3> QED BY <2>1, <3>1 DEF InQueue
  <2> QED BY <1>8, <2>2, <2>3
<1>17. \A x \in R : x \in w \/ InR(x) BY <1>1, <1>10, <1>16
<1>18. ASSUME NEW e \in Range(edges), e[1] \in w PROVE e[2] \in w \/ InR(e[2])
  <2>1. CASE e[1] \in v BY <1>1, <1>10, <1>16, <2>1
  <2>2. CASE e[1] = node BY <2>2 DEF w, node
  <2> QED BY <1>10, <1>18, <2>1, <2>2
<1>19. \A k \in Nat : k < D => W[k] \subseteq w BY <1>1, <1>10
<1>20. ASSUME NEW x \in W[D] PROVE x \in w \/ \E i \in 1 .. Len(r) : r[i][1] = x /\ r[i][2] = D
  <2>1. CASE x \in v BY <1>10, <2>1
  <2>2. CASE x \notin v
    <3>1. PICK i \in 1 .. Len(q) : q[i][1] = x /\ q[i][2] = D BY <1>1, <2>2
    <3>2. CASE i = 1 BY <1>10, <3>1, <3>2 DEF node
    <3>3. CASE i \in 2 .. Len(q)
      <4>1. PICK k \in 1 .. Len(r) : r[k] = q[i] BY <1>2, <3>3
      <4> QED BY <3>1, <4>1
    <3> QED BY <1>8, <3>2, <3>3
  <2> QED BY <2>1, <2>2
<1>21. ASSUME Len(r) # 0
       PROVE  /\ \A k \in Nat : k < r[1][2] => W[k] \subseteq w
              /\ \A x \in W[r[1][2]] : x \in w \/ \E i \in 1 .. Len(r) : r[i][1] = x /\ r[i][2] = r[1][2]
  <2>1. 1 \in 1 .. Len(r) BY <1>4, <1>21
  <2>2. r[1][2] \in Nat /\ D <= r[1][2] /\ r[1][2] <= D + 1 BY <1>6, <1>14, <2>1
  <2>3. CASE r[1][2] = D BY <1>19, <1>20, <2>3
  <2>4. CASE r[1][2] = D + 1
    <3>1. \A i \in 1 .. Len(r) : r[i][2] = D + 1
      <4>1. ASSUME NEW i \in 1 .. Len(r) PROVE r[i][2] = D + 1
        <5>1. i = 1 \/ 1 < i OBVIOUS
        <5>2. r[1][2] <= r[i][2] BY <1>2, <1>6, <2>1, <5>1
        <5>3. r[i][2] \in Nat BY <1>6
        <5> QED BY <1>9, <1>14, <2>4, <5>2, <5>3
      <4> QED BY <4>1
    <3>2. W[D] \subseteq w
      <4>1. D # D + 1 BY <1>9
      <4> QED BY <1>20, <3>1, <4>1
    <3>3. \A k \in Nat : k < D + 1 => W[k] \subseteq w
      <4>1. ASSUME NEW k \in Nat, k < D + 1 PROVE W[k] \subseteq w
        <5>1. k < D \/ k = D BY <1>9, <4>1
        <5> QED BY <1>19, <3>2, <5>1
      <4> QED BY <4>1
    <3>4. ASSUME NEW x \in W[D + 1] PROVE x \in w \/ \E i \in 1 .. Len(r) : r[i][1] = x /\ r[i][2] = D + 1
      <4>1. W[D + 1] = Lower(edges, W[D]) BY <1>3, <1>9
      <4>2. x \in W[D] \/ \E e \in Range(edges) : e[1] \in W[D] /\ e[2] = x BY <4>1 DEF Lower
      <4>3. CASE x \in W[D] BY <3>2, <4>3
      <4>4. CASE \E e \in Range(edges) : e[1] \in W[D] /\ e[2] = x
        <5>1. x \in w \/ InR(x) BY <1>18, <3>2, <4>4
        <5> QED BY <3>1, <5>1 DEF InQueue
      <4> QED BY <4>2, <4>3, <4>4
    <3> QED BY <2>4, <3>3, <3>4
  <2> QED BY <1>9, <2>2, <2>3, <2>4
<1>22. Descending(edges, W, r, w, dd)
  BY <1>2, <1>11, <1>12, <1>13, <1>15, <1>17, <1>18, <1>21 DEF Descending, R
<1> QED BY <1>22 DEF w, dd, node

\* In the end the search has come to the last layer.
LEMMA DescendEnds ==
    ASSUME NEW edges, IsGraph(edges), IsFiniteSet(Objects), NEW W, Layered(edges, W),
           NEW q, Len(q) = 0, NEW v, NEW d, Descending(edges, W, q, v, d)
    PROVE  W[d] = W[Cardinality(Objects)] /\ d \in Nat /\ (d > 0 => W[d] # W[d - 1])
<1> DEFINE N == Cardinality(Objects)
<1>1. /\ d \in Nat /\ v \subseteq W[d] /\ (d = 0 \/ W[d] # W[d - 1])
      /\ \A x \in Roots(Objects, edges) : x \in v \/ InQueue(q, x)
      /\ \A e \in Range(edges) : e[1] \in v => e[2] \in v \/ InQueue(q, e[2])
  BY DEF Descending
<1>2. \A x : ~ InQueue(q, x) BY DEF InQueue
<1>3. N \in Nat /\ d <= N BY <1>1, LayersFew
<1> DEFINE S == {n \in Nat : W[n] \subseteq v}
<1>4. 0 \in S BY <1>1, <1>2 DEF Layered
<1>5. ASSUME NEW n \in Nat, n \in S PROVE n + 1 \in S
  <2>1. W[n] \subseteq v BY <1>5
  <2>2. Lower(edges, W[n]) \subseteq v BY <1>1, <1>2, <2>1 DEF Lower
  <2>3. W[n + 1] = Lower(edges, W[n]) BY DEF Layered
  <2> QED BY <2>2, <2>3
<1>6. \A n \in Nat : n \in S
  <2> HIDE DEF S
  <2> QED BY <1>4, <1>5, NatSteps
<1>7. W[N] \subseteq v BY <1>3, <1>6
<1>8. W[d] \subseteq W[N] BY <1>1, <1>3 DEF Layered
<1> HIDE DEF N
<1> QED BY <1>1, <1>7, <1>8 DEF N

\* A queue of the children of rows, all at one depth, one for each.
Kids(edges, rows, d, k) ==
    /\ k \in Seq(Objects \X Nat) /\ Len(k) = Cardinality(rows) /\ Cardinality(rows) \in Nat
    /\ \A i \in 1 .. Cardinality(rows) : k[i][2] = d /\ \E n \in rows : k[i][1] = edges[n][2]
    /\ \A n \in rows : \E i \in 1 .. Cardinality(rows) : k[i][1] = edges[n][2]

\* It is.
LEMMA KidsFacts ==
    ASSUME NEW edges, IsGraph(edges), NEW rows \in SUBSET DOMAIN edges, NEW d \in Nat
    PROVE  Kids(edges, rows, d, KidsAt(edges, rows, d))
<1> DEFINE g == InOrder(rows)
           c == Cardinality(rows)
           s == KidsAt(edges, rows, d)
<1>1. Len(edges) \in Nat /\ DOMAIN edges = 1 .. Len(edges) BY RowFacts
<1>2. c \in Nat /\ g \in [1 .. c -> rows] /\ \A n \in rows : \E a \in 1 .. c : g[a] = n
  BY <1>1, InOrderFacts
<1>3. s = [n \in DOMAIN g |-> <<edges[g[n]][2], d>>] BY DEF KidsAt
<1> HIDE DEF g, s, c
<1>4. s = [n \in 1 .. c |-> <<edges[g[n]][2], d>>] BY <1>2, <1>3
<1>5. \A n \in DOMAIN edges : edges[n][2] \in Objects
  <2>1. \A n \in DOMAIN edges : edges[n][2] \in Keys(edges) BY RowFacts
  <2>2. Keys(edges) \subseteq Objects BY RowFacts
  <2> QED BY <2>1, <2>2
<1>6. ASSUME NEW n \in 1 .. c
      PROVE  g[n] \in rows /\ s[n] \in Objects \X Nat /\ s[n][1] = edges[g[n]][2] /\ s[n][2] = d
  <2>1. g[n] \in rows /\ edges[g[n]][2] \in Objects BY <1>2, <1>5
  <2>2. s[n] = <<edges[g[n]][2], d>> BY <1>4
  <2> QED BY <2>1, <2>2
<1>7. s \in Seq(Objects \X Nat) /\ Len(s) = c
  <2>1. DOMAIN s = 1 .. c /\ s = [n \in 1 .. c |-> s[n]] BY <1>4
  <2> QED BY <1>2, <1>6, <2>1
<1>8. \A i \in 1 .. c : s[i][2] = d /\ \E n \in rows : s[i][1] = edges[n][2] BY <1>6
<1>9. \A n \in rows : \E i \in 1 .. c : s[i][1] = edges[n][2] BY <1>2, <1>6
<1>10. Kids(edges, rows, d, s) BY <1>2, <1>7, <1>8, <1>9 DEF Kids, c
<1> QED BY <1>10 DEF s

\* The rows to the children of a node, but for those to what was seen.
DownRows(edges, seen, node) == {n \in Children(edges, node) : edges[n][2] \notin seen}

\* What is behind the first is moved up.
LEMMA MovedTail ==
    ASSUME NEW edges, NEW W, NEW q, NEW v, NEW d, Descending(edges, W, q, v, d), Len(q) # 0
    PROVE  Moved(W, q, Tail(q))
<1> DEFINE t == Tail(q)
<1>1. q \in Seq(Objects \X Nat) /\ \A i, j \in 1 .. Len(q) : i < j => q[i][2] <= q[j][2] BY DEF Descending
<1>2. /\ Len(q) \in Nat /\ t \in Seq(Objects \X Nat) /\ Len(t) = Len(q) - 1
      /\ \A i \in 1 .. Len(q) - 1 : t[i] = q[i + 1]
  BY <1>1, TailFacts
<1> HIDE DEF t
<1>3. \A i \in 1 .. Len(t) : t[i] = q[i + 1] /\ i + 1 \in 2 .. Len(q) /\ i + 1 \in 1 .. Len(q) BY <1>2
<1>4. \A j \in 2 .. Len(q) : j - 1 \in 1 .. Len(t) /\ (j - 1) + 1 = j BY <1>2
<1>5. \A j \in 2 .. Len(q) : \E i \in 1 .. Len(t) : t[i] = q[j] BY <1>3, <1>4
<1>6. ASSUME NEW i \in 1 .. Len(t), NEW j \in 1 .. Len(t), i < j PROVE t[i][2] <= t[j][2]
  <2>1. i + 1 < j + 1 BY <1>6
  <2> QED BY <1>1, <1>3, <2>1
<1>7. Moved(W, q, t) BY <1>2, <1>3, <1>5, <1>6 DEF Moved
<1> QED BY <1>7 DEF t

\* And objects that are one deeper are put behind it.
LEMMA MovedMore ==
    ASSUME NEW edges, NEW W, NEW q, NEW v, NEW d, Descending(edges, W, q, v, d), Len(q) # 0,
           NEW k \in Seq(Objects \X Nat),
           \A i \in 1 .. Len(k) : k[i][2] = q[1][2] + 1 /\ k[i][1] \in W[q[1][2] + 1]
    PROVE  /\ Moved(W, q, Tail(q) \o k) /\ Len(Tail(q) \o k) = Len(q) - 1 + Len(k)
           /\ \A x : InQueue(k, x) => InQueue(Tail(q) \o k, x)
<1> DEFINE t == Tail(q)
           r == t \o k
           D == q[1][2]
<1>1. /\ q \in Seq(Objects \X Nat) /\ \A i \in 1 .. Len(q) : q[i][2] <= D + 1
      /\ \A i, j \in 1 .. Len(q) : i < j => q[i][2] <= q[j][2]
  BY DEF Descending
<1>2. Len(q) \in Nat /\ t \in Seq(Objects \X Nat) /\ Len(t) = Len(q) - 1 BY <1>1, TailFacts
<1>3. Moved(W, q, t) BY MovedTail
<1> HIDE DEF t
<1>4. /\ \A i \in 1 .. Len(t) : (\E j \in 2 .. Len(q) : t[i] = q[j]) \/ (t[i][2] = D + 1 /\ t[i][1] \in W[D + 1])
      /\ \A j \in 2 .. Len(q) : \E i \in 1 .. Len(t) : t[i] = q[j]
      /\ \A i, j \in 1 .. Len(t) : i < j => t[i][2] <= t[j][2]
  BY <1>3 DEF Moved
<1>5. /\ r \in Seq(Objects \X Nat) /\ Len(r) = Len(t) + Len(k) /\ Len(t) \in Nat /\ Len(k) \in Nat
      /\ \A i \in 1 .. Len(t) : r[i] = t[i]
      /\ \A i \in 1 .. Len(k) : r[Len(t) + i] = k[i]
      /\ \A i \in 1 .. Len(t) + Len(k) : i \in 1 .. Len(t) \/ \E j \in 1 .. Len(k) : i = Len(t) + j
  <2> DEFINE E == Objects \X Nat
  <2>1. t \in Seq(E) /\ k \in Seq(E) BY <1>2
  <2>2. E = Objects \X Nat OBVIOUS
  <2> HIDE DEF E
  <2>3. /\ t \o k \in Seq(E) /\ Len(t \o k) = Len(t) + Len(k) /\ Len(t) \in Nat /\ Len(k) \in Nat
        /\ \A i \in 1 .. Len(t) : (t \o k)[i] = t[i]
        /\ \A i \in 1 .. Len(k) : (t \o k)[Len(t) + i] = k[i]
        /\ \A i \in 1 .. Len(t) + Len(k) : i \in 1 .. Len(t) \/ \E j \in 1 .. Len(k) : i = Len(t) + j
    BY <2>1, JoinFacts
  <2> QED BY <2>2, <2>3
<1>6. D \in Nat
  <2>1. 1 \in 1 .. Len(q) BY <1>2
  <2> QED BY <1>1, <2>1
<1>7. \A i \in 1 .. Len(k) : k[i][2] = D + 1 /\ k[i][1] \in W[D + 1] OBVIOUS
<1> HIDE DEF r, D
<1>8. \A i \in 1 .. Len(t) : t[i][2] \in Nat /\ t[i][2] <= D + 1
  <2>1. ASSUME NEW i \in 1 .. Len(t) PROVE t[i][2] \in Nat /\ t[i][2] <= D + 1
    <3>1. t[i][2] \in Nat BY <1>2
    <3>2. CASE \E j \in 2 .. Len(q) : t[i] = q[j]
      <4>1. PICK j \in 2 .. Len(q) : t[i] = q[j] BY <3>2
      <4>2. j \in 1 .. Len(q) BY <1>2
      <4> QED BY <1>1, <3>1, <4>1, <4>2
    <3>3. CASE t[i][2] = D + 1 BY <1>6, <3>3
    <3> QED BY <1>4, <3>1, <3>2, <3>3
  <2> QED BY <2>1
<1>9. ASSUME NEW i \in 1 .. Len(r)
      PROVE  (\E j \in 2 .. Len(q) : r[i] = q[j]) \/ (r[i][2] = D + 1 /\ r[i][1] \in W[D + 1])
  <2>1. CASE i \in 1 .. Len(t) BY <1>4, <1>5, <2>1
  <2>2. CASE \E j \in 1 .. Len(k) : i = Len(t) + j
    <3>1. PICK j \in 1 .. Len(k) : i = Len(t) + j BY <2>2
    <3>2. r[i] = k[j] BY <1>5, <3>1
    <3> QED BY <1>7, <3>2
  <2> QED BY <1>5, <2>1, <2>2
<1>10. ASSUME NEW j \in 2 .. Len(q) PROVE \E i \in 1 .. Len(r) : r[i] = q[j]
  <2>1. PICK i \in 1 .. Len(t) : t[i] = q[j] BY <1>4
  <2>2. i \in 1 .. Len(r) BY <1>5
  <2> QED BY <1>5, <2>1, <2>2
<1>11. ASSUME NEW i \in 1 .. Len(r), NEW j \in 1 .. Len(r), i < j PROVE r[i][2] <= r[j][2]
  <2>1. CASE j \in 1 .. Len(t)
    <3>1. i \in 1 .. Len(t) BY <1>11, <2>1
    <3> QED BY <1>4, <1>5, <1>11, <2>1, <3>1
  <2>2. CASE \E b \in 1 .. Len(k) : j = Len(t) + b
    <3>1. r[j][2] = D + 1
      <4>1. PICK b \in 1 .. Len(k) : j = Len(t) + b BY <2>2
      <4>2. r[j] = k[b] BY <1>5, <4>1
      <4> QED BY <1>7, <4>2
    <3>2. CASE i \in 1 .. Len(t) BY <1>5, <1>8, <3>1, <3>2
    <3>3. CASE \E a \in 1 .. Len(k) : i = Len(t) + a
      <4>1. r[i][2] = D + 1
        <5>1. PICK a \in 1 .. Len(k) : i = Len(t) + a BY <3>3
        <5>2. r[i] = k[a] BY <1>5, <5>1
        <5> QED BY <1>7, <5>2
      <4> QED BY <1>6, <3>1, <4>1
    <3> QED BY <1>5, <3>2, <3>3
  <2> QED BY <1>5, <2>1, <2>2
<1>12. Moved(W, q, r) BY <1>5, <1>9, <1>10, <1>11 DEF Moved, D
<1>13. ASSUME NEW x, InQueue(k, x) PROVE InQueue(r, x)
  <2>1. PICK i \in 1 .. Len(k) : k[i][1] = x BY <1>13 DEF InQueue
  <2>2. Len(t) + i \in 1 .. Len(r) BY <1>5
  <2> QED BY <1>5, <2>1, <2>2 DEF InQueue
<1> QED BY <1>2, <1>5, <1>12, <1>13 DEF r, t

\* A node that was seen is dropped.
LEMMA DropSeen ==
    ASSUME NEW edges, IsGraph(edges), NEW W, Layered(edges, W),
           NEW q, NEW v, NEW d, Descending(edges, W, q, v, d), Len(q) # 0, q[1][1] \in v
    PROVE  Descending(edges, W, Tail(q), v, d)
<1> DEFINE t == Tail(q)
           node == q[1][1]
<1>1. Moved(W, q, t) BY MovedTail
<1>2. q \in Seq(Objects \X Nat) /\ \A e \in Range(edges) : e[1] \in v => e[2] \in v \/ InQueue(q, e[2])
  BY DEF Descending
<1>3. \A i \in 1 .. Len(q) : i = 1 \/ i \in 2 .. Len(q) BY <1>2
<1> HIDE DEF t
<1>4. ASSUME NEW e \in Range(edges), e[1] = node PROVE e[2] \in With(v, node) \/ InQueue(t, e[2])
  <2>1. e[2] \in v \/ InQueue(q, e[2]) BY <1>2, <1>4
  <2>2. CASE e[2] \in v BY <2>2 DEF With
  <2>3. CASE InQueue(q, e[2])
    <3>1. PICK i \in 1 .. Len(q) : q[i][1] = e[2] BY <2>3 DEF InQueue
    <3>2. CASE i = 1 BY <3>1, <3>2 DEF With
    <3>3. CASE i \in 2 .. Len(q)
      <4>1. PICK k \in 1 .. Len(t) : t[k] = q[i] BY <1>1, <3>3 DEF Moved
      <4> QED BY <3>1, <4>1 DEF InQueue
    <3> QED BY <1>3, <3>2, <3>3
  <2> QED BY <2>1, <2>2, <2>3
<1>5. Descending(edges, W, t, With(v, q[1][1]), Deeper(d, q[1][1] \notin v, q)) BY <1>1, <1>4, DescendOn
<1>6. With(v, q[1][1]) = v /\ Deeper(d, q[1][1] \notin v, q) = d BY DEF With, Deeper
<1> QED BY <1>5, <1>6 DEF t

\* The children of a node that was not are added.
LEMMA AddChildren ==
    ASSUME NEW edges, IsGraph(edges), NEW W, Layered(edges, W),
           NEW q, NEW v, NEW d, Descending(edges, W, q, v, d), Len(q) # 0, q[1][1] \notin v
    PROVE  LET rows == DownRows(edges, With(v, q[1][1]), q[1][1])
               r    == Tail(q) \o KidsAt(edges, rows, q[1][2] + 1)
           IN  /\ Descending(edges, W, r, With(v, q[1][1]), Deeper(d, TRUE, q))
               /\ Len(r) = Len(q) - 1 + Cardinality(rows)
<1> DEFINE node == q[1][1]
           D == q[1][2]
           w == With(v, node)
           rows == DownRows(edges, w, node)
           k == KidsAt(edges, rows, D + 1)
           r == Tail(q) \o k
<1>1. q \in Seq(Objects \X Nat) /\ \A i \in 1 .. Len(q) : q[i][1] \in W[q[i][2]] BY DEF Descending
<1>2. D \in Nat /\ node \in W[D]
  <2>1. 1 \in 1 .. Len(q) BY <1>1
  <2> QED BY <1>1, <2>1
<1>3. rows \in SUBSET DOMAIN edges /\ \A n \in rows : edges[n][1] = node BY DEF DownRows, Children
<1>4. \A n \in DOMAIN edges : edges[n][1] = node => n \in rows \/ edges[n][2] \in w BY DEF DownRows, Children
<1> HIDE DEF rows, w, D, node
<1>5. /\ k \in Seq(Objects \X Nat) /\ Len(k) = Cardinality(rows)
      /\ \A i \in 1 .. Cardinality(rows) : k[i][2] = D + 1 /\ \E n \in rows : k[i][1] = edges[n][2]
      /\ \A n \in rows : \E i \in 1 .. Cardinality(rows) : k[i][1] = edges[n][2]
  <2> DEFINE m == D + 1
  <2>1. m \in Nat BY <1>2
  <2> HIDE DEF m
  <2>2. rows \in SUBSET DOMAIN edges BY <1>3
  <2>3. Kids(edges, rows, m, KidsAt(edges, rows, m)) BY <2>1, <2>2, KidsFacts
  <2>4. Kids(edges, rows, D + 1, k) BY <2>3 DEF m
  <2> HIDE DEF k
  <2> QED BY <2>4 DEF Kids
<1> HIDE DEF k
<1>6. ASSUME NEW i \in 1 .. Len(k) PROVE k[i][2] = D + 1 /\ k[i][1] \in W[D + 1]
  <2>1. PICK n \in rows : k[i][1] = edges[n][2] BY <1>5
  <2>2. edges[n] \in Range(edges) /\ edges[n][1] \in W[D] BY <1>2, <1>3, RowFacts
  <2>3. edges[n][2] \in Lower(edges, W[D]) BY <2>2 DEF Lower
  <2>4. W[D + 1] = Lower(edges, W[D]) BY <1>2 DEF Layered
  <2> QED BY <1>5, <2>1, <2>3, <2>4
<1>7. \A i \in 1 .. Len(k) : k[i][2] = q[1][2] + 1 /\ k[i][1] \in W[q[1][2] + 1] BY <1>6 DEF D
<1>8. Moved(W, q, r) /\ Len(r) = Len(q) - 1 + Len(k) /\ \A x : InQueue(k, x) => InQueue(r, x)
  BY <1>5, <1>7, MovedMore
<1> HIDE DEF r
<1>9. ASSUME NEW e \in Range(edges), e[1] = node PROVE e[2] \in w \/ InQueue(r, e[2])
  <2>1. PICK n \in DOMAIN edges : e = edges[n] BY RowFacts
  <2>2. CASE n \in rows
    <3>1. InQueue(k, e[2]) BY <1>5, <2>1, <2>2 DEF InQueue
    <3> QED BY <1>8, <3>1
  <2> QED BY <1>4, <1>9, <2>1, <2>2
<1>10. \A e \in Range(edges) : e[1] = q[1][1] => e[2] \in With(v, q[1][1]) \/ InQueue(r, e[2])
  BY <1>9 DEF w, node
<1>11. Descending(edges, W, r, With(v, q[1][1]), Deeper(d, q[1][1] \notin v, q)) BY <1>8, <1>10, DescendOn
<1>12. Deeper(d, q[1][1] \notin v, q) = Deeper(d, TRUE, q) BY DEF Deeper
<1>13. Descending(edges, W, r, w, Deeper(d, TRUE, q)) BY <1>11, <1>12 DEF w, node
<1>14. Len(r) = Len(q) - 1 + Cardinality(rows) BY <1>5, <1>8
<1> QED BY <1>13, <1>14 DEF r, k, rows, w, D, node

\* A state of the search for the depth, and those that it can be in.
DescentOf(queue, visited, depth) == [queue |-> queue, visited |-> visited, depth |-> depth]

Descents(edges, W) ==
    {st \in [queue : Seq(Objects \X Nat), visited : SUBSET Objects, depth : Nat] :
        Descending(edges, W, st.queue, st.visited, st.depth)}

\* The rows from what was not seen.
Undescended(edges, seen) == {n \in DOMAIN edges : edges[n][1] \notin seen}

\* The objects that are still to be taken from the queue, at most.
DescentWork(edges, st) == Len(st.queue) + Cardinality(Undescended(edges, st.visited))

\* The parts of a state.
LEMMA DescentFields ==
    ASSUME NEW q, NEW v, NEW d
    PROVE  DescentOf(q, v, d).queue = q /\ DescentOf(q, v, d).visited = v /\ DescentOf(q, v, d).depth = d
BY DEF DescentOf

\* It is one of the search if they fit.
LEMMA DescentSound ==
    ASSUME NEW edges, NEW W, Layered(edges, W), NEW q, NEW v, NEW d, Descending(edges, W, q, v, d)
    PROVE  DescentOf(q, v, d) \in Descents(edges, W)
<1> DEFINE st == DescentOf(q, v, d)
<1>1. st.queue = q /\ st.visited = v /\ st.depth = d BY DescentFields
<1>2. q \in Seq(Objects \X Nat) /\ d \in Nat /\ v \in SUBSET Objects
  <2>1. q \in Seq(Objects \X Nat) /\ d \in Nat /\ v \subseteq W[d] BY DEF Descending
  <2>2. W[d] \subseteq Objects BY <2>1 DEF Layered
  <2> QED BY <2>1, <2>2
<1>3. st \in [queue : Seq(Objects \X Nat), visited : SUBSET Objects, depth : Nat] BY <1>2 DEF DescentOf
<1> HIDE DEF st
<1>4. st \in Descents(edges, W) BY <1>1, <1>3 DEF Descents
<1> QED BY <1>4 DEF st

\* Its parts, the other way round.
LEMMA DescentParts ==
    ASSUME NEW edges, NEW W, NEW st \in Descents(edges, W)
    PROVE  \E q, v, d : st = DescentOf(q, v, d) /\ q \in Seq(Objects \X Nat) /\ Descending(edges, W, q, v, d)
<1>1. /\ st \in [queue : Seq(Objects \X Nat), visited : SUBSET Objects, depth : Nat]
      /\ Descending(edges, W, st.queue, st.visited, st.depth)
  BY DEF Descents
<1>2. st = DescentOf(st.queue, st.visited, st.depth) BY <1>1 DEF DescentOf
<1>3. st.queue \in Seq(Objects \X Nat) BY <1>1
<1> QED BY <1>1, <1>2, <1>3

\* What is counted is finite.
LEMMA UndescendedCount ==
    ASSUME NEW edges, IsGraph(edges), NEW seen
    PROVE  /\ IsFiniteSet(Undescended(edges, seen)) /\ Cardinality(Undescended(edges, seen)) \in Nat
           /\ Cardinality(Undescended(edges, seen)) <= Len(edges)
<1> DEFINE A == Undescended(edges, seen)
<1>1. Len(edges) \in Nat /\ DOMAIN edges = 1 .. Len(edges) BY RowFacts
<1>2. IsFiniteSet(1 .. Len(edges)) /\ Cardinality(1 .. Len(edges)) = Len(edges)
  <2>1. 1 \in Int /\ Len(edges) \in Int BY <1>1
  <2>2. IsFiniteSet(1 .. Len(edges))
        /\ Cardinality(1 .. Len(edges)) = IF 1 > Len(edges) THEN 0 ELSE Len(edges) - 1 + 1
    BY <2>1, FS_Interval
  <2> QED BY <1>1, <2>2
<1>3. A \in SUBSET (1 .. Len(edges)) BY <1>1 DEF Undescended
<1> HIDE DEF A
<1>4. IsFiniteSet(A) /\ Cardinality(A) <= Len(edges) BY <1>2, <1>3, FS_Subset
<1>5. Cardinality(A) \in Nat BY <1>4, FS_CardinalityType
<1> QED BY <1>4, <1>5 DEF A

\* A node that is seen makes them less by the rows from it.
LEMMA UndescendedLess ==
    ASSUME NEW edges, IsGraph(edges), NEW seen, NEW node, node \notin seen
    PROVE  /\ Cardinality(DownRows(edges, With(seen, node), node)) \in Nat
           /\ Cardinality(Undescended(edges, With(seen, node))) \in Nat
           /\ Cardinality(DownRows(edges, With(seen, node), node))
                 + Cardinality(Undescended(edges, With(seen, node)))
                 <= Cardinality(Undescended(edges, seen))
<1> DEFINE A == Undescended(edges, seen)
           B == Undescended(edges, With(seen, node))
           C == DownRows(edges, With(seen, node), node)
           D == B \cup C
<1>1. D \in SUBSET A /\ B \cap C = {} BY DEF Undescended, DownRows, Children, With
<1> HIDE DEF A, B, C
<1>2. IsFiniteSet(A) BY UndescendedCount DEF A
<1>3. IsFiniteSet(D) /\ Cardinality(D) <= Cardinality(A) BY <1>1, <1>2, FS_Subset
<1>4. B \in SUBSET D /\ C \in SUBSET D OBVIOUS
<1> HIDE DEF D
<1>5. IsFiniteSet(B) /\ IsFiniteSet(C) BY <1>3, <1>4, FS_Subset
<1>6. Cardinality(A) \in Nat /\ Cardinality(B) \in Nat /\ Cardinality(C) \in Nat /\ Cardinality(D) \in Nat
  BY <1>2, <1>3, <1>5, FS_CardinalityType
<1>7. Cardinality(D) = Cardinality(B) + Cardinality(C) - Cardinality(B \cap C) BY <1>5, FS_Union DEF D
<1>8. Cardinality(B \cap C) = 0 BY <1>1, FS_EmptySet
<1>9. Cardinality(C) + Cardinality(B) <= Cardinality(A) BY <1>3, <1>6, <1>7, <1>8
<1> QED BY <1>6, <1>9 DEF A, B, C

\* The state after a node that was seen, and after one that was not.
Dropped(q, v, d) == DescentOf(Tail(q), v, d)

Added(edges, q, v, d) ==
    LET rows == DownRows(edges, With(v, q[1][1]), q[1][1])
    IN  DescentOf(Tail(q) \o KidsAt(edges, rows, q[1][2] + 1), With(v, q[1][1]), Deeper(d, TRUE, q))

\* What a step of the search changes.
LEMMA DescendIs ==
    ASSUME NEW edges, NEW q \in Seq(Objects \X Nat), NEW v, NEW d, Len(q) # 0
    PROVE  /\ q[1][1] \in v => Descend(edges, DescentOf(q, v, d)) = Dropped(q, v, d)
           /\ q[1][1] \notin v => Descend(edges, DescentOf(q, v, d)) = Added(edges, q, v, d)
<1> DEFINE st == DescentOf(q, v, d)
           t == Tail(q)
<1>1. st.queue = q /\ st.visited = v /\ st.depth = d BY DescentFields
<1>2. st = [queue |-> q, visited |-> v, depth |-> d] BY DEF DescentOf
<1>3. Head(q) = q[1] BY TailFacts
<1> HIDE DEF st
<1>4. ASSUME q[1][1] \in v PROVE Descend(edges, st) = DescentOf(t, v, d)
  <2>1. Descend(edges, st) = [st EXCEPT !.queue = t] BY <1>1, <1>3, <1>4 DEF Descend
  <2> HIDE DEF t
  <2>2. [st EXCEPT !.queue = t] = [queue |-> t, visited |-> v, depth |-> d] BY <1>2
  <2> QED BY <2>1, <2>2 DEF DescentOf
<1>5. ASSUME q[1][1] \notin v
      PROVE  Descend(edges, st) = Added(edges, q, v, d)
  BY <1>1, <1>3, <1>5 DEF Descend, DescentOf, DownRows, With, KidsAt, Deeper, Added
<1> QED BY <1>4, <1>5 DEF st, t, Dropped

\* A step of it leaves a state of the search, with less work.
LEMMA DescendStep ==
    ASSUME NEW edges, IsGraph(edges), NEW W, Layered(edges, W), NEW st \in Descents(edges, W)
    PROVE  /\ DescentWork(edges, st) \in Nat
           /\ st.queue # <<>> =>
                 /\ Descend(edges, st) \in Descents(edges, W)
                 /\ DescentWork(edges, Descend(edges, st)) < DescentWork(edges, st)
<1>1. PICK q, v, d : st = DescentOf(q, v, d) /\ q \in Seq(Objects \X Nat) /\ Descending(edges, W, q, v, d)
  BY DescentParts
<1>2. st.queue = q /\ st.visited = v
  <2>1. DescentOf(q, v, d).queue = q /\ DescentOf(q, v, d).visited = v BY DescentFields
  <2> QED BY <1>1, <2>1
<1>3. Len(q) \in Nat BY <1>1
<1>4. Cardinality(Undescended(edges, v)) \in Nat BY UndescendedCount
<1>5. DescentWork(edges, st) = Len(q) + Cardinality(Undescended(edges, v)) BY <1>2 DEF DescentWork
<1>6. ASSUME q # <<>>
      PROVE  /\ Descend(edges, st) \in Descents(edges, W)
             /\ DescentWork(edges, Descend(edges, st)) < DescentWork(edges, st)
  <2> DEFINE node == q[1][1]
             t == Tail(q)
             to == Descend(edges, st)
  <2>1. Len(q) # 0 BY <1>1, <1>6
  <2>2. Len(t) = Len(q) - 1 BY <1>1, <2>1, TailFacts
  <2>3. node \in v => to = DescentOf(t, v, d)
    <3>1. node \in v => to = Dropped(q, v, d) BY <1>1, <2>1, DescendIs
    <3> QED BY <3>1 DEF Dropped
  <2>4. node \notin v => to = Added(edges, q, v, d) BY <1>1, <2>1, DescendIs
  <2>5. CASE node \in v
    <3>1. Descending(edges, W, t, v, d) BY <1>1, <2>1, <2>5, DropSeen
    <3> HIDE DEF t, to
    <3>2. to \in Descents(edges, W) BY <2>3, <2>5, <3>1, DescentSound
    <3>3. to.queue = t /\ to.visited = v
      <4>1. DescentOf(t, v, d).queue = t /\ DescentOf(t, v, d).visited = v BY DescentFields
      <4> QED BY <2>3, <2>5, <4>1
    <3>4. DescentWork(edges, to) = Len(t) + Cardinality(Undescended(edges, v)) BY <3>3 DEF DescentWork
    <3>5. DescentWork(edges, to) < DescentWork(edges, st) BY <1>3, <1>4, <1>5, <2>2, <3>4
    <3> QED BY <3>2, <3>5 DEF to
  <2>6. CASE node \notin v
    <3> DEFINE w == With(v, node)
               rows == DownRows(edges, w, node)
               r == t \o KidsAt(edges, rows, q[1][2] + 1)
               dd == Deeper(d, TRUE, q)
    <3>1. to = DescentOf(r, w, dd) BY <2>4, <2>6 DEF Added
    <3>2. Descending(edges, W, r, w, dd) /\ Len(r) = Len(q) - 1 + Cardinality(rows)
      BY <1>1, <2>1, <2>6, AddChildren
    <3>3. /\ Cardinality(rows) \in Nat /\ Cardinality(Undescended(edges, w)) \in Nat
          /\ Cardinality(rows) + Cardinality(Undescended(edges, w)) <= Cardinality(Undescended(edges, v))
      BY <2>6, UndescendedLess
    <3> HIDE DEF r, w, rows, dd, to
    <3>4. to \in Descents(edges, W) BY <3>1, <3>2, DescentSound
    <3>5. to.queue = r /\ to.visited = w
      <4>1. DescentOf(r, w, dd).queue = r /\ DescentOf(r, w, dd).visited = w BY DescentFields
      <4> QED BY <3>1, <4>1
    <3>6. DescentWork(edges, to) = Len(r) + Cardinality(Undescended(edges, w)) BY <3>5 DEF DescentWork
    <3>7. DescentWork(edges, to) < DescentWork(edges, st) BY <1>3, <1>4, <1>5, <3>2, <3>3, <3>6
    <3> QED BY <3>4, <3>7 DEF to
  <2> QED BY <2>5, <2>6
<1> QED BY <1>2, <1>3, <1>4, <1>5, <1>6

\* The objects of a finite set come in some order.
LEMMA ToSeqFacts ==
    ASSUME NEW S, IsFiniteSet(S)
    PROVE  /\ SetToSeq(S) \in Seq(S) /\ Len(SetToSeq(S)) = Cardinality(S) /\ Cardinality(S) \in Nat
           /\ \A x \in S : \E i \in 1 .. Cardinality(S) : SetToSeq(S)[i] = x
<1> DEFINE c == Cardinality(S)
           D == 1 .. c
           g == SetToSeq(S)
<1>1. c \in Nat /\ ExistsBijection(D, S) BY FS_CardinalityType
<1>2. \E f \in [D -> S] : IsInjective(f)
  <2>1. PICK f \in Bijection(D, S) : TRUE BY <1>1 DEF ExistsBijection
  <2>2. f \in [D -> S] /\ IsInjective(f)  BY <2>1 DEF Bijection, Injection
  <2> QED BY <2>2
<1>3. g \in [D -> S] /\ IsInjective(g) BY <1>2 DEF SetToSeq
<1> HIDE DEF g
<1>4. g \in Injection(D, S) BY <1>3 DEF Injection
<1>5. Cardinality(D) = c
  <2>1. 1 \in Int /\ c \in Int BY <1>1
  <2>2. Cardinality(D) = IF 1 > c THEN 0 ELSE c - 1 + 1 BY <2>1, FS_Interval
  <2> QED BY <1>1, <2>2
<1>6. g \in Surjection(D, S) BY <1>4, <1>5, FS_Injection
<1>7. \A x \in S : \E i \in D : g[i] = x BY <1>6 DEF Surjection
<1>8. g \in Seq(S) /\ Len(g) = c BY <1>1, <1>3
<1> QED BY <1>1, <1>7, <1>8 DEF g

\* A queue of the roots.
RootQueue(edges) ==
    [k \in DOMAIN SetToSeq(Roots(Objects, edges)) |-> <<SetToSeq(Roots(Objects, edges))[k], 0>>]

\* The search begins with them.
LEMMA DescentBegins ==
    ASSUME NEW edges, IsGraph(edges), IsFiniteSet(Objects), NEW W, Layered(edges, W)
    PROVE  /\ DescentOf(RootQueue(edges), {}, 0) \in Descents(edges, W)
           /\ Len(SetToSeq(Roots(Objects, edges))) \in Nat
           /\ DescentWork(edges, DescentOf(RootQueue(edges), {}, 0))
                 <= Len(edges) + Len(SetToSeq(Roots(Objects, edges)))
<1> DEFINE R == Roots(Objects, edges)
           s == SetToSeq(R)
           q == RootQueue(edges)
           none == {}
           st == DescentOf(q, none, 0)
<1>1. R \in SUBSET Objects BY DEF Roots
<1>2. IsFiniteSet(R) BY <1>1, FS_Subset
<1> HIDE DEF R
<1>3. s \in Seq(R) /\ \A x \in R : \E i \in 1 .. Len(s) : s[i] = x BY <1>2, ToSeqFacts
<1>4. q = [k \in DOMAIN s |-> <<s[k], 0>>] BY DEF RootQueue, R
<1> HIDE DEF s, q
<1>5. Len(s) \in Nat /\ DOMAIN s = 1 .. Len(s) /\ \A k \in 1 .. Len(s) : s[k] \in R BY <1>3
<1>6. ASSUME NEW k \in 1 .. Len(s) PROVE q[k] \in Objects \X Nat /\ q[k][1] = s[k] /\ q[k][2] = 0 /\ q[k][1] \in R
  <2>1. q[k] = <<s[k], 0>> BY <1>4, <1>5
  <2>2. s[k] \in Objects /\ s[k] \in R BY <1>1, <1>5
  <2> QED BY <2>1, <2>2
<1>7. q \in Seq(Objects \X Nat) /\ Len(q) = Len(s)
  <2>1. DOMAIN q = 1 .. Len(s) /\ q = [k \in 1 .. Len(s) |-> q[k]] BY <1>4, <1>5
  <2> QED BY <1>5, <1>6, <2>1
<1>8. W[0] = R BY DEF Layered, R
<1>9. Descending(edges, W, q, none, 0)
  <2>1. \A i \in 1 .. Len(q) : q[i][1] \in W[q[i][2]] /\ 0 <= q[i][2] /\ q[i][2] <= q[1][2] + 1
    <3>1. ASSUME NEW i \in 1 .. Len(q) PROVE q[i][1] \in W[q[i][2]] /\ 0 <= q[i][2] /\ q[i][2] <= q[1][2] + 1
      <4>1. 1 \in 1 .. Len(s) /\ i \in 1 .. Len(s) BY <1>5, <1>7
      <4> QED BY <1>6, <1>8, <4>1
    <3> QED BY <3>1
  <2>2. \A i, j \in 1 .. Len(q) : i < j => q[i][2] <= q[j][2] BY <1>6, <1>7
  <2>3. \A x \in Roots(Objects, edges) : InQueue(q, x) BY <1>3, <1>6, <1>7 DEF InQueue, R
  <2>4. ASSUME Len(q) # 0
        PROVE  /\ \A k \in Nat : k < q[1][2] => W[k] \subseteq none
               /\ \A x \in W[q[1][2]] : x \in none \/ \E i \in 1 .. Len(q) : q[i][1] = x /\ q[i][2] = q[1][2]
    <3>1. 1 \in 1 .. Len(s) BY <1>5, <1>7, <2>4
    <3>2. q[1][2] = 0 BY <1>6, <3>1
    <3>3. \A x \in R : \E i \in 1 .. Len(q) : q[i][1] = x /\ q[i][2] = 0 BY <1>3, <1>6, <1>7
    <3> QED BY <1>8, <3>2, <3>3
  <2> QED BY <1>7, <2>1, <2>2, <2>3, <2>4 DEF Descending
<1>10. Cardinality(Undescended(edges, none)) \in Nat /\ Cardinality(Undescended(edges, none)) <= Len(edges)
  BY UndescendedCount
<1>11. Len(edges) \in Nat BY RowFacts
<1> HIDE DEF none
<1>12. st \in Descents(edges, W) BY <1>9, DescentSound
<1>13. st.queue = q /\ st.visited = none BY DescentFields
<1> HIDE DEF st
<1>14. DescentWork(edges, st) = Len(q) + Cardinality(Undescended(edges, none)) BY <1>13 DEF DescentWork
<1>15. DescentWork(edges, st) <= Len(edges) + Len(s) BY <1>5, <1>7, <1>10, <1>11, <1>14
<1> QED BY <1>5, <1>12, <1>15 DEF st, none, s, R, q

\* The states of the search.
Descended(edges, first, last, f) ==
    f = [n \in 0 .. last |->
            IF n = 0 THEN first ELSE IF f[n - 1].queue = <<>> THEN f[n - 1] ELSE Descend(edges, f[n - 1])]

\* The depth is the number of the last layer that has grown.
LEMMA DepthFound ==
    ASSUME NEW edges, IsGraph(edges), IsFiniteSet(Objects), NEW W, Layered(edges, W)
    PROVE  \E q, v : Len(q) = 0 /\ Descending(edges, W, q, v, max_depth(Objects, edges))
<1> DEFINE last == Len(edges) + Len(SetToSeq(Roots(Objects, edges)))
           first == DescentOf(RootQueue(edges), {}, 0)
           after == CHOOSE f : Descended(edges, first, last, f)
           Good == Descents(edges, W)
           done == {x \in Good : x.queue = <<>>}
           step == [x \in Good |-> IF x.queue = <<>> THEN x ELSE Descend(edges, x)]
           work == [x \in Good |-> DescentWork(edges, x)]
<1>1. max_depth(Objects, edges) = after[last].depth BY DEF max_depth, Descended, DescentOf, RootQueue
<1>2. first \in Good /\ DescentWork(edges, first) <= last /\ Len(SetToSeq(Roots(Objects, edges))) \in Nat
  BY DescentBegins
<1>3. last \in Nat
  <2>1. Len(edges) \in Nat BY RowFacts
  <2> QED BY <1>2, <2>1
<1> HIDE DEF first, last
<1>4. \A x \in Good : DescentWork(edges, x) \in Nat BY DescendStep
<1>5. \A x \in Good : x.queue # <<>> =>
          Descend(edges, x) \in Good /\ DescentWork(edges, Descend(edges, x)) < DescentWork(edges, x)
  BY DescendStep
<1>6. step \in [Good -> Good] /\ work \in [Good -> Nat] BY <1>4, <1>5
<1>7. \A x \in Good : x \notin done => work[step[x]] < work[x] BY <1>5
<1>8. work[first] <= last BY <1>2
<1>9. \A x \in Good : step[x] = (IF x.queue = <<>> THEN x ELSE Descend(edges, x)) /\ (x \in done <=> x.queue = <<>>)
  OBVIOUS
<1> HIDE DEF done, step, work, Good
<1>10. \E g : ComesTo(g, Good, done, step, first, last) BY <1>2, <1>3, <1>6, <1>7, <1>8, RunEnds
<1>11. PICK g : ComesTo(g, Good, done, step, first, last) BY <1>10
<1>12. /\ g = [n \in 0 .. last |-> IF n = 0 THEN first ELSE IF g[n - 1] \in done THEN g[n - 1] ELSE step[g[n - 1]]]
       /\ \A n \in 0 .. last : g[n] \in Good
       /\ g[last] \in done
  BY <1>11 DEF ComesTo
<1>13. Descended(edges, first, last, g)
  <2>1. ASSUME NEW n \in 0 .. last
        PROVE  g[n] = IF n = 0 THEN first ELSE IF g[n - 1].queue = <<>> THEN g[n - 1] ELSE Descend(edges, g[n - 1])
    <3>1. n # 0 => n - 1 \in 0 .. last BY <1>3
    <3>2. g[n] = IF n = 0 THEN first ELSE IF g[n - 1] \in done THEN g[n - 1] ELSE step[g[n - 1]] BY <1>12
    <3>3. n # 0 => g[n - 1] \in Good BY <1>12, <3>1
    <3> QED BY <1>9, <3>2, <3>3
  <2>2. g = [n \in 0 .. last |-> g[n]] BY <1>12
  <2> QED BY <2>1, <2>2 DEF Descended
<1>14. Descended(edges, first, last, after) BY <1>13
<1> HIDE DEF after
<1>15. ASSUME NEW f, Descended(edges, first, last, f), NEW n \in 0 .. last
       PROVE  f[n] = IF n = 0 THEN first ELSE IF f[n - 1].queue = <<>> THEN f[n - 1] ELSE Descend(edges, f[n - 1])
  BY <1>15 DEF Descended
<1>16. after[last] = g[last]
  <2> DEFINE S == {n \in Nat : n <= last => after[n] = g[n]}
  <2>1. 0 \in S
    <3>1. 0 \in 0 .. last BY <1>3
    <3> QED BY <1>13, <1>14, <1>15, <3>1
  <2>2. ASSUME NEW n \in Nat, n \in S PROVE n + 1 \in S
    <3> SUFFICES ASSUME n + 1 <= last PROVE after[n + 1] = g[n + 1] OBVIOUS
    <3>1. n + 1 \in 0 .. last /\ n + 1 # 0 /\ (n + 1) - 1 = n BY <1>3
    <3>2. after[n] = g[n] BY <1>3, <2>2
    <3> DEFINE m == n + 1
    <3>3. after[m] = IF m = 0 THEN first ELSE IF after[m - 1].queue = <<>> THEN after[m - 1]
                                              ELSE Descend(edges, after[m - 1])
      BY <1>14, <1>15, <3>1
    <3>4. g[m] = IF m = 0 THEN first ELSE IF g[m - 1].queue = <<>> THEN g[m - 1] ELSE Descend(edges, g[m - 1])
      BY <1>13, <1>15, <3>1
    <3> QED BY <3>1, <3>2, <3>3, <3>4
  <2>3. \A n \in Nat : n \in S
    <3> HIDE DEF S
    <3> QED BY <2>1, <2>2, NatSteps
  <2> QED BY <1>3, <2>3
<1> DEFINE end == after[last]
<1>17. end \in Good /\ end.queue = <<>>
  <2>1. last \in 0 .. last BY <1>3
  <2> QED BY <1>9, <1>12, <1>16, <2>1
<1> HIDE DEF end
<1>18. Descending(edges, W, end.queue, end.visited, end.depth) BY <1>17 DEF Good, Descents
<1>19. Len(end.queue) = 0 BY <1>17
<1> QED BY <1>1, <1>18, <1>19 DEF end

\* It is how far the objects lie from the nearest root.
LEMMA DepthTold ==
    ASSUME NEW edges, IsGraph(edges), IsFiniteSet(Objects)
    PROVE  LET E == Range(edges)
               within[n \in Nat] == IF n = 0 THEN Roots(Objects, edges)
                                    ELSE within[n - 1] \cup {e[2] : e \in {f \in E : f[1] \in within[n - 1]}}
               d == max_depth(Objects, edges)
           IN  /\ within[d] = within[Cardinality(Objects)]
               /\ d > 0 => within[d] # within[d - 1]
<1> DEFINE E == Range(edges)
           W == CHOOSE w : LayerOf(w, edges, Nat)
           within[n \in Nat] == IF n = 0 THEN Roots(Objects, edges)
                                ELSE within[n - 1] \cup {e[2] : e \in {f \in E : f[1] \in within[n - 1]}}
           d == max_depth(Objects, edges)
<1>1. within = W BY DEF LayerOf, Lower
<1>2. LayerOf(W, edges, Nat) BY LayerOfExists
<1> HIDE DEF W, within
<1>3. Layered(edges, W) BY <1>2, LayersLie
<1>4. \E q, v : Len(q) = 0 /\ Descending(edges, W, q, v, d) BY <1>3, DepthFound
<1> HIDE DEF d
<1>5. PICK q, v : Len(q) = 0 /\ Descending(edges, W, q, v, d) BY <1>4
<1>6. W[d] = W[Cardinality(Objects)] /\ d \in Nat /\ (d > 0 => W[d] # W[d - 1]) BY <1>3, <1>5, DescendEnds
<1>7. within[d] = within[Cardinality(Objects)] /\ (d > 0 => within[d] # within[d - 1]) BY <1>1, <1>6
<1> QED BY <1>7 DEF within, d

\* lineage.rs and the access service: whatever the edges, the depth that is
\* told of a graph is how far its objects lie from the nearest root, and the
\* lineage of an object names exactly its ancestors.
THEOREM LineageAlwaysTold == GraphSpec => []LineageTold
<1>1. question.kind \notin {"graph", "links"} => GraphAsked BY DEF GraphAsked
<1>2. GraphAsked => LineageTold
  <2> SUFFICES ASSUME GraphAsked PROVE LineageTold OBVIOUS
  <2> DEFINE edges == question.edges
  <2>1. IsFiniteSet(Objects) BY GraphAssumption
  <2>2. question.kind = "graph" => IsGraph(edges) BY DEF GraphAsked
  <2>3. DepthIsShortest
    <3> SUFFICES ASSUME question.kind = "graph" PROVE DepthIsShortest BY DEF DepthIsShortest
    <3>1. IsGraph(question.edges) BY <2>2
    <3> QED BY <2>1, <3>1, DepthTold DEF DepthIsShortest
  <2>4. AncestorsTold
    <3> SUFFICES ASSUME question.kind = "graph", NEW o \in Objects
                 PROVE  LET found     == read_object_lineage(edges, o)
                            ancestors == {x \in Objects : o \in Below(edges, x)}
                        IN  /\ {edges[n][1] : n \in found} \cup {o} = ancestors \cup {o}
                            /\ \A n \in found : edges[n][2] \in ancestors \cup {o}
                            /\ \A n \in found, k \in DOMAIN edges : edges[n] = edges[k] => k \in found
      BY DEF AncestorsTold
    <3>1. IsGraph(edges) BY <2>2
    <3> HIDE DEF edges
    <3> DEFINE rows == read_object_lineage(edges, o)
    <3>2. \E seen : Climbing(edges, o, seen, seen, rows) BY <3>1, LineageFound
    <3> HIDE DEF rows
    <3>3. PICK seen : Climbing(edges, o, seen, seen, rows) BY <3>2
    <3>4. LET ancestors == {x \in Objects : o \in Below(edges, x)} IN
          /\ {edges[n][1] : n \in rows} \cup {o} = ancestors \cup {o}
          /\ \A n \in rows : edges[n][2] \in ancestors \cup {o}
          /\ \A n \in rows, k \in DOMAIN edges : edges[n] = edges[k] => k \in rows
      BY <3>1, <3>3, ClimbEnds
    <3> QED BY <3>4 DEF rows
  <2> QED BY <2>3, <2>4 DEF LineageTold
<1>3. GraphAsked /\ [question'.kind \in {"graph", "links"} => AskGraphs]_question => GraphAsked'
  BY GraphNext
<1> QED BY <1>1, <1>2, <1>3, PTL DEF GraphSpec, OnlyAsked

\* lineage.rs and the access service: whatever the graph, its cycles and no
\* others are found, a valid one has generations, the depth is the distance
\* from the nearest root, not the longest path of lineage.rs:154, and a
\* lineage has the ancestors of its object.
THEOREM GraphsAlwaysAnswered == GraphSpec => []GraphsAnswered
<1>1. CyclesChecked /\ LineageTold => GraphsAnswered BY DEF GraphsAnswered
<1> QED BY <1>1, CyclesAlwaysFound, LineageAlwaysTold, PTL
=============================================================================
