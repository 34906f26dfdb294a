----------------------------- MODULE ShardedJob -----------------------------
(***************************************************************************)
(* A sharded job: offf-jobs plan-shards and finalize-job (shard.rs,        *)
(* scope.rs), the workers of its shards (worker_context.rs), and           *)
(* offf-verify --analysis-job.                                             *)
(*                                                                         *)
(* plan-shards resolves the scope of the job, writes the plan and then a   *)
(* manifest for each shard, all of them in place.  A worker reads the      *)
(* manifest of its shard, and much later leaves a result beside it: either *)
(* AnalysisWorkerContext::commit does that, which replaces the directory   *)
(* of the shard by a staged one, or the worker writes its files itself, as *)
(* the integration tests do, with a status of its own.  finalize-job and   *)
(* the verification only read these files, so they are operators on a      *)
(* state.  The rows of a worker are one value, as many as there may be.    *)
(*                                                                         *)
(* An object is its place in the order of object ids, a scope the set of   *)
(* objects the job's filters let through, and the hash of a scope is the   *)
(* scope.  A shard has one worker at a time.                               *)
(***************************************************************************)
EXTENDS Integers, FiniteSets, FiniteSetsExt

CONSTANTS
    Objects,   \* a finite set of integers
    Indexes,   \* sets of objects the object index may have rows for
    Wanted,    \* the objects the filters of the job let through
    MaxShards, \* the largest shard count
    Rows,      \* what the row files of a worker may hold, but for nothing
    Layouts,   \* the shard counts and strategies plan-shards is called with
    HashByte,  \* HashByte[o]: the first byte of the hash of the id of o
    MayStop,   \* whether a process may stop before its end
    MaxPlans,  \* bound: calls of plan-shards
    MaxOpens,  \* bound: workers started
    MaxStarts, \* bound: both together
    NoFile, Torn, NoRows, Idle

Shards == 0 .. MaxShards - 1

Scopes == {i \cap Wanted : i \in Indexes}

Strategies == {"object_id_range", "round_robin", "hash_modulo"}

ASSUME ShardAssumption ==
    /\ IsFiniteSet(Objects) /\ Objects \subseteq Int
    /\ Indexes \subseteq SUBSET Objects /\ Wanted \subseteq Objects
    /\ MaxShards \in Nat /\ MaxPlans \in Nat /\ MaxOpens \in Nat /\ MaxStarts \in Nat
    /\ Layouts \subseteq [count : 1 .. MaxShards, strategy : Strategies]
    /\ HashByte \in [Objects -> 0 .. 255]
    /\ MayStop \in BOOLEAN /\ NoFile # Torn
    /\ {NoFile, Torn, NoRows} \cap Rows = {} /\ NoRows # NoFile

VARIABLES
    index,    \* the rows of object_index.parquet
    plan,     \* shard_plan.json
    dir,      \* shards/<shard_id>/
    staged,   \* shards/<shard_id>.tmp/
    planner,  \* the plan-shards at work
    worker,   \* the worker of a shard
    planned,  \* history: what the last plan-shards did, if it got to its end
    laid,     \* history: the layouts a scope was planned with
    reported, \* history: the shards that had a result once
    cut,      \* history: the shards whose last worker to write a result was cut short
    plans, opens  \* bounded by MaxPlans, MaxOpens and MaxStarts

vars == <<index, plan, dir, staged, planner, worker, planned, laid, reported, cut, plans, opens>>

-----------------------------------------------------------------------------
(* Planning.                                                               *)

\* resolve_analysis_scope; without an object index there is nothing in scope.
Resolve == {o \in index : o \in Wanted}

Position(in, o) == Cardinality({p \in in : p < o})

\* Mutant: hash modulo over one shard more.
AssignShard_over(in, layout, o) ==
    IF layout.strategy = "hash_modulo" THEN HashByte[o] % (layout.count + 1)
    ELSE Position(in, o) % layout.count

\* The shard of an object; two of the strategies come to the same.
AssignShard(in, layout, o) ==
    (IF layout.strategy = "hash_modulo" THEN HashByte[o] ELSE Position(in, o)) % layout.count

Inputs(in, layout, s) == {o \in in : AssignShard(in, layout, o) = s}

Manifest(in, layout, s) == [scope |-> in, inputs |-> Inputs(in, layout, s)]

Assignments == [scope : Scopes, inputs : SUBSET Objects]

Result == [scope : Scopes, inputs : SUBSET Objects, rows : Rows \cup {NoRows}, staged : BOOLEAN,
           status : {"completed", "failed"}]

Unreadable == {NoFile, Torn}

Files == [manifest : Assignments \cup Unreadable, result : Result \cup Unreadable,
          rows : Rows \cup Unreadable]

Staging == [result : Result \cup Unreadable, rows : Rows \cup Unreadable]

Work == [scope : Scopes, inputs : SUBSET Objects, rows : Rows \cup {NoRows}, staged : BOOLEAN,
         status : {"completed", "failed"},
         pc : {"opened", "rows", "stagefill", "remove", "rename", "create", "fill"}]

\* NoFile, Torn and Idle are nothing a whole file or a process could be.
ASSUME NoFileAssumption ==
    /\ \A f \in Unreadable : f \notin Assignments /\ f \notin Result
    /\ NoFile \notin Staging
    /\ Idle \notin Work /\ Idle \notin [scope : Scopes, layout : Layouts]
    /\ Idle \notin [scope : Scopes, layout : Layouts, next : Shards, pc : {"plan", "create", "fill"}]

TypeOK ==
    /\ index \in Indexes
    /\ plan \in [scope : Scopes, count : 1 .. MaxShards] \cup Unreadable
    /\ dir \in [Shards -> Files]
    /\ staged \in [Shards -> Staging \cup {NoFile}]
    /\ planner \in [scope : Scopes, layout : Layouts, next : Shards, pc : {"plan", "create", "fill"}]
                   \cup {Idle}
    /\ worker \in [Shards -> Work \cup {Idle}]
    /\ planned \in [scope : Scopes, layout : Layouts] \cup {Idle}
    /\ laid \in [Scopes -> SUBSET Layouts] /\ reported \subseteq Shards /\ cut \subseteq Shards
    /\ plans \in 0 .. MaxPlans /\ opens \in 0 .. MaxOpens

Init ==
    /\ index \in Indexes /\ plan = NoFile
    /\ dir = [s \in Shards |-> [manifest |-> NoFile, result |-> NoFile, rows |-> NoFile]]
    /\ staged = [s \in Shards |-> NoFile]
    /\ planner = Idle /\ worker = [s \in Shards |-> Idle]
    /\ planned = Idle /\ laid = [in \in Scopes |-> {}] /\ reported = {} /\ cut = {}
    /\ plans = 0 /\ opens = 0

\* offf-index rewrites the object index.
Reindex ==
    /\ \E i \in Indexes \ {index} : index' = i
    /\ UNCHANGED <<plan, dir, staged, planner, worker, planned, laid, reported, cut, plans, opens>>

\* The scope is resolved, and the old plan is gone; a job manifest or an index
\* that cannot be read ends plan-shards before it has written anything.
PlanShards(layout) ==
    /\ planner = Idle /\ plans < MaxPlans /\ plans + opens < MaxStarts
    /\ planner' = [scope |-> Resolve, layout |-> layout, next |-> 0, pc |-> "plan"]
    /\ plan' = Torn /\ plans' = plans + 1
    /\ planned' = Idle /\ laid' = [laid EXCEPT ![Resolve] = @ \cup {layout}]
    /\ UNCHANGED <<index, dir, staged, worker, reported, cut, opens>>

WritePlan ==
    /\ planner # Idle /\ planner.pc = "plan"
    /\ plan' = [scope |-> planner.scope, count |-> planner.layout.count]
    /\ planner' = [planner EXCEPT !.pc = "create"]
    /\ UNCHANGED <<index, dir, staged, worker, planned, laid, reported, cut, plans, opens>>

CreateManifest ==
    /\ planner # Idle /\ planner.pc = "create"
    /\ dir' = [dir EXCEPT ![planner.next].manifest = Torn]
    /\ planner' = [planner EXCEPT !.pc = "fill"]
    /\ UNCHANGED <<index, plan, staged, worker, planned, laid, reported, cut, plans, opens>>

WriteManifest ==
    /\ planner # Idle /\ planner.pc = "fill"
    /\ dir' = [dir EXCEPT ![planner.next].manifest = Manifest(planner.scope, planner.layout, planner.next)]
    /\ IF planner.next + 1 = planner.layout.count
       THEN planner' = Idle /\ planned' = [scope |-> planner.scope, layout |-> planner.layout]
       ELSE planner' = [planner EXCEPT !.next = @ + 1, !.pc = "create"] /\ UNCHANGED planned
    /\ UNCHANGED <<index, plan, staged, worker, laid, reported, cut, plans, opens>>

StopPlanner ==
    /\ MayStop /\ planner # Idle /\ planner' = Idle
    /\ UNCHANGED <<index, plan, dir, staged, worker, planned, laid, reported, cut, plans, opens>>

-----------------------------------------------------------------------------
(* The workers.                                                            *)

At(s, pc) == worker[s] # Idle /\ worker[s].pc = pc

GoTo(s, pc) == worker' = [worker EXCEPT ![s].pc = pc]

ResultOf(w) == [scope |-> w.scope, inputs |-> w.inputs, rows |-> w.rows, staged |-> w.staged,
                status |-> w.status]

\* A worker reads its manifest.  What rows it records, and how many, is its own
\* affair; if it leaves its files to the context it may record none, and its
\* result will say "completed".
Open(s) ==
    /\ worker[s] = Idle /\ opens < MaxOpens /\ plans + opens < MaxStarts
    /\ dir[s].manifest \notin Unreadable
    /\ \E stage \in BOOLEAN :
       \E rows \in IF stage THEN Rows \cup {NoRows} ELSE Rows :
       \E status \in IF stage THEN {"completed"} ELSE {"completed", "failed"} :
           worker' = [worker EXCEPT ![s] =
               [scope |-> dir[s].manifest.scope, inputs |-> dir[s].manifest.inputs,
                rows |-> rows, staged |-> stage, status |-> status, pc |-> "opened"]]
    /\ opens' = opens + 1
    /\ UNCHANGED <<index, plan, dir, staged, planner, planned, laid, reported, cut, plans>>

\* It writes its results beside the manifest.
WriteRows(s) ==
    /\ At(s, "opened") /\ ~worker[s].staged
    /\ dir' = [dir EXCEPT ![s].rows = worker[s].rows]
    /\ GoTo(s, "create")
    /\ UNCHANGED <<index, plan, staged, planner, planned, laid, reported, cut, plans, opens>>

EmptyDir == [manifest |-> NoFile, result |-> NoFile, rows |-> NoFile]

\* Mutant: the directory is removed before the result is staged.
StageRows_clear(s) ==
    /\ At(s, "opened") /\ worker[s].staged
    /\ staged' = [staged EXCEPT ![s] = [result |-> NoFile, rows |-> worker[s].rows]]
    /\ dir' = [dir EXCEPT ![s] = EmptyDir]
    /\ GoTo(s, "rows")
    /\ UNCHANGED <<index, plan, planner, planned, laid, reported, cut, plans, opens>>

\* commit: the rows go to the staging directory, where a worker that stopped
\* may have left some, and the name they have there is the one of the result.
\* Without rows the file left there stays.
StageRows(s) ==
    /\ At(s, "opened") /\ worker[s].staged
    /\ LET left == IF staged[s] = NoFile THEN [result |-> NoFile, rows |-> NoFile] ELSE staged[s]
       IN  staged' = [staged EXCEPT ![s] = IF worker[s].rows = NoRows THEN left
                                           ELSE [left EXCEPT !.rows = Torn]]
    /\ GoTo(s, "rows")
    /\ UNCHANGED <<index, plan, dir, planner, planned, laid, reported, cut, plans, opens>>

\* They are written, and the result is truncated ...
StageResult(s) ==
    /\ At(s, "rows")
    /\ staged' = [staged EXCEPT ![s] =
                     [result |-> Torn,
                      rows |-> IF worker[s].rows = NoRows THEN @.rows ELSE worker[s].rows]]
    /\ GoTo(s, "stagefill")
    /\ UNCHANGED <<index, plan, dir, planner, planned, laid, reported, cut, plans, opens>>

\* ... and written.
FillStaged(s) ==
    /\ At(s, "stagefill")
    /\ staged' = [staged EXCEPT ![s].result = ResultOf(worker[s])]
    /\ cut' = cut \ {s}
    /\ GoTo(s, "remove")
    /\ UNCHANGED <<index, plan, dir, planner, planned, laid, reported, plans, opens>>

\* The directory of the shard is removed, its files in any order: the
\* manifest of the shard is one of them.
RemoveFinal(s) ==
    /\ At(s, "remove")
    /\ \E left \in {[dir[s] EXCEPT !.manifest = NoFile], [dir[s] EXCEPT !.result = NoFile],
                    [dir[s] EXCEPT !.rows = NoFile], dir[s]} :
           /\ left # dir[s] \/ left = EmptyDir
           /\ dir' = [dir EXCEPT ![s] = left]
           /\ IF left = EmptyDir THEN GoTo(s, "rename") ELSE UNCHANGED worker
    /\ UNCHANGED <<index, plan, staged, planner, planned, laid, reported, cut, plans, opens>>

Rename(s) ==
    /\ At(s, "rename") /\ dir[s] = EmptyDir
    /\ dir' = [dir EXCEPT ![s] = [manifest |-> NoFile, result |-> staged[s].result, rows |-> staged[s].rows]]
    /\ staged' = [staged EXCEPT ![s] = NoFile]
    /\ reported' = reported \cup {s}
    /\ GoTo(s, "create")
    /\ UNCHANGED <<index, plan, planner, planned, laid, cut, plans, opens>>

\* plan-shards made a new manifest there in between.
RenameFails(s) ==
    /\ At(s, "rename") /\ dir[s] # EmptyDir
    /\ worker' = [worker EXCEPT ![s] = Idle]
    /\ UNCHANGED <<index, plan, dir, staged, planner, planned, laid, reported, cut, plans, opens>>

\* write_shard_result_manifest, which the context calls after the rename too.
CreateResult(s) ==
    /\ At(s, "create")
    /\ dir' = [dir EXCEPT ![s].result = Torn]
    /\ GoTo(s, "fill")
    /\ UNCHANGED <<index, plan, staged, planner, planned, laid, reported, cut, plans, opens>>

WriteResult(s) ==
    /\ At(s, "fill")
    /\ dir' = [dir EXCEPT ![s].result = ResultOf(worker[s])]
    /\ worker' = [worker EXCEPT ![s] = Idle]
    /\ reported' = reported \cup {s} /\ cut' = cut \ {s}
    /\ UNCHANGED <<index, plan, staged, planner, planned, laid, plans, opens>>

StopWorker(s) ==
    /\ MayStop /\ worker[s] # Idle /\ worker' = [worker EXCEPT ![s] = Idle]
    /\ cut' = IF worker[s].pc \in {"stagefill", "fill"} THEN cut \cup {s} ELSE cut
    /\ UNCHANGED <<index, plan, dir, staged, planner, planned, laid, reported, plans, opens>>

Next ==
    \/ Reindex
    \/ \E layout \in Layouts : PlanShards(layout)
    \/ WritePlan \/ CreateManifest \/ WriteManifest \/ StopPlanner
    \/ \E s \in Shards :
          \/ Open(s) \/ WriteRows(s)
          \/ StageRows(s) \/ StageResult(s) \/ FillStaged(s)
          \/ RemoveFinal(s) \/ Rename(s) \/ RenameFails(s)
          \/ CreateResult(s) \/ WriteResult(s) \/ StopWorker(s)

Spec == Init /\ [][Next]_vars

-----------------------------------------------------------------------------
(* What is read back.  These hold of a plan that can be read.              *)

InPlan == 0 .. plan.count - 1

HasManifest(s) == dir[s].manifest \notin Unreadable

HasResult(s) == dir[s].result \notin Unreadable

\* The rows a result names, by hash: those of the context are named where
\* they were before the rename.
ArtifactsMatch(s) ==
    LET r == dir[s].result
    IN  IF ~r.staged THEN dir[s].rows = r.rows
        ELSE r.rows = NoRows \/ (staged[s] # NoFile /\ staged[s].rows = r.rows)

\* The ids of inputs are given by place, so they tell only the place.
InputIds(s) == {Position(dir[s].manifest.scope, o) : o \in dir[s].manifest.inputs}

NoDuplicates ==
    \A s, t \in InPlan :
        s # t /\ HasManifest(s) /\ HasManifest(t) => InputIds(s) \cap InputIds(t) = {}

\* Mutant: the scope a result was made for is not compared.
SameScope_any(s) == dir[s].result.scope \in Scopes

SameScope(s) == dir[s].result.scope = plan.scope

ShardAccepted(s) ==
    HasManifest(s) /\ HasResult(s) /\ SameScope(s) /\ ArtifactsMatch(s)

\* offf-verify --analysis-job.  Only where the job manifest parses and the scope
\* can be resolved is the hash of the scope compared: the one is skipped and the
\* other warned about.
Accepted(resolved) ==
    /\ plan \notin Unreadable /\ (resolved => plan.scope = Resolve)
    /\ \A s \in InPlan : ShardAccepted(s)
    /\ NoDuplicates

\* validate_parallel_job finds no issue.
Validated == (\A s \in InPlan : ShardAccepted(s)) /\ NoDuplicates

\* build_parent_result_manifest: a result that is there is counted, whatever
\* it was made for, and one that cannot be parsed ends finalize-job.
Finalizable == plan \notin Unreadable /\ \A s \in InPlan : dir[s].result # Torn

Counted == {s \in InPlan : dir[s].result # NoFile}

Completed == {s \in Counted : dir[s].result.status = "completed"}

\* objects_assigned_to_shards
Assigned == MapThenSumSet(LAMBDA s : Cardinality(dir[s].result.inputs), Counted)

\* Mutant: a job with some of its results is completed.
Status_some == IF Completed # {} THEN "completed" ELSE "failed"

Status ==
    IF Completed = InPlan THEN "completed" ELSE IF Completed = {} THEN "failed" ELSE "partial"

-----------------------------------------------------------------------------
(* Properties.                                                             *)

\* After plan-shards came to its end, whatever an earlier one left half done
\* and whatever results are there: the manifests that workers have not
\* removed yet give no input to two shards, and no input is left out.
EachInputOnce ==
    planned # Idle =>
        /\ plan.scope = planned.scope
        /\ NoDuplicates
        /\ (\A s \in InPlan : HasManifest(s)) =>
               UNION {dir[s].manifest.inputs : s \in InPlan} = plan.scope

OneLayout(in) == \A k, l \in laid[in] : k = l

\* When the verification accepts a job, each object of the scope as it is now
\* was given to exactly one of the results, although plan-shards may have
\* stopped between two files, the index may have changed and changed back, and
\* results of other plans lie about.  Where the scope of now cannot be told,
\* which the verification accepts, this holds of the scope of the plan.  The
\* hash of a scope does not tell two layouts of it apart, so the scope must not
\* have been planned with two.
AcceptedIsComplete ==
    \A resolved \in BOOLEAN :
        LET in == IF resolved THEN Resolve ELSE plan.scope
        IN  Accepted(resolved) /\ OneLayout(in) =>
                /\ \A o \in in : \E s \in InPlan : o \in dir[s].result.inputs
                /\ \A s, t \in InPlan :
                      s # t => dir[s].result.inputs \cap dir[t].result.inputs = {}
                /\ \A s \in InPlan : dir[s].result.inputs \subseteq in

\* When finalize-job calls a job completed and the objects it counts as assigned
\* are not as many as it finds in scope, then the scope has changed since the
\* plan, which the verification compares, or a result of another scope is among
\* those counted, and the validation does not pass the job: stale results never
\* add up to a wrong number unnoticed.  Of a scope planned with two layouts
\* this cannot be said.
CoverageTells ==
    Finalizable /\ Status = "completed" /\ OneLayout(plan.scope)
    /\ Assigned # Cardinality(Resolve) =>
        \/ plan.scope # Resolve
        \/ (\E s \in Counted : dir[s].result.scope # plan.scope) /\ ~Validated

\* A shard that had a result once has a whole one, in its directory or in the
\* staging directory, or its worker is writing it at this moment -- unless a
\* worker was stopped just then: until the next result is whole, that shard may
\* have none.
ResultSurvives ==
    \A s \in reported \ cut :
        \/ HasResult(s)
        \/ staged[s] # NoFile /\ staged[s].result \notin Unreadable
        \/ At(s, "fill") \/ At(s, "stagefill")

\* When plan-shards came to its end and each shard has the result of its
\* worker, which is done, the validation finds no issue: "Write the result
\* manifest to the standard location via the helper so validate_parallel_job
\* can find it." (worker_context.rs)
FinishedValidates ==
    /\ planned # Idle
    /\ \A s \in InPlan : /\ worker[s] = Idle /\ HasResult(s)
                         /\ dir[s].result.inputs = Inputs(planned.scope, planned.layout, s)
                         /\ dir[s].result.scope = planned.scope
    => Validated
=============================================================================
