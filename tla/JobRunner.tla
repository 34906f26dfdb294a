------------------------------ MODULE JobRunner ------------------------------
(***************************************************************************)
(* `offf-jobs run` (crates/offf-jobs/src/main.rs): one job of a case, run  *)
(* by any number of CLI processes.  Every process reads the job manifest,  *)
(* derives the replay id from it, consults jobs/runtime/<job>.state.json   *)
(* and then loops over attempts.  Nothing locks the runtime directory, the *)
(* state file is replaced in place (truncate, then write), and a process   *)
(* may die between any two steps.                                          *)
(*                                                                         *)
(* A manifest is identified with its content, and so with its replay id    *)
(* (a SHA-256 over case, job id, task and content).  Of the health log only *)
(* its existence is kept: nothing reads its lines.                         *)
(***************************************************************************)
EXTENDS Naturals, Sequences, FiniteSets

CONSTANTS
    Workers,        \* the --worker-id values; one live process per id
    Manifests,      \* the contents the job manifest file can have
    RetryLimits,    \* the --max-retries values given on the command line
    MaxRetries,     \* an upper bound of RetryLimits
    U32Max,         \* the largest --max-retries a u32 can hold
    AllowForce,     \* TRUE: operators may pass --force
    Exclusive,      \* TRUE: operators start a process only when none runs
    Edits,          \* bound: the pairs <<old, new>> of contents an edit may make
    EditsDuringRun, \* TRUE: the manifest may be edited under a live process
    RuntimeDirUsed, \* TRUE: other jobs of the case already created the logs
    MaxInvocations, \* bound on CLI invocations
    NoFile,         \* a path that does not exist
    Empty,          \* a state file that was truncated and not written yet
    Torn,           \* a state file that mixes the texts of two writers
    Garbled         \* a log line that is not valid JSON

ASSUME RetryAssumption ==
    /\ MaxRetries \in Nat
    /\ U32Max \in Nat
    /\ RetryLimits \subseteq 0..MaxRetries
    /\ MaxRetries <= U32Max

ASSUME WorkersAssumption == IsFiniteSet(Workers)

ASSUME ModeAssumption ==
    /\ AllowForce \in BOOLEAN /\ Exclusive \in BOOLEAN
    /\ EditsDuringRun \in BOOLEAN /\ RuntimeDirUsed \in BOOLEAN

VARIABLES
    manifest,    \* content of the job manifest file
    stateFile,   \* jobs/runtime/<job>.state.json
    logs,        \* the two append-only logs of jobs/runtime
    proc,        \* the CLI process of each worker id
    invocations, \* CLI invocations so far
    execs,       \* history: worker commands started for this job
    successes    \* history: worker commands that ended with success

vars == <<manifest, stateFile, logs, proc, invocations, execs, successes>>

Status == {"Running", "RetryScheduled", "Succeeded", "FailedTerminal"}

Attempts == 0..(MaxRetries + 1)

StateRec == [worker : Workers, replay : Manifests,
             status : Status, attempt : Attempts]

Log == {"audit", "health"}

Line == [status : Status, attempt : Attempts]

Step == {"load", "truncate", "write", "exists", "create", "fill", "append",
         "spawn", "wait"}

Proc == [pc : Step \cup {"none"}, replay : Manifests, read : Manifests,
         limit : RetryLimits, force : BOOLEAN,
         edited : BOOLEAN,  \* history: the manifest was edited under this process
         attempt : Attempts, status : Status, log : Log]

Success == [worker : Workers, replay : Manifests, read : Manifests,
            attempt : Attempts, edited : BOOLEAN]

ASSUME FileAssumption ==
    /\ {NoFile, Empty, Torn} \cap StateRec = {}
    /\ NoFile # Empty /\ NoFile # Torn /\ Empty # Torn
    /\ NoFile \notin Seq(Line \cup {Garbled})
    /\ Garbled \notin Line

TypeOK ==
    /\ manifest \in Manifests
    /\ stateFile \in StateRec \cup {NoFile, Empty, Torn}
    /\ logs \in [Log -> Seq(Line \cup {Garbled}) \cup {NoFile}]
    /\ proc \in [Workers -> Proc]
    /\ invocations \in Nat
    /\ execs \in Nat
    /\ successes \subseteq Success

-----------------------------------------------------------------------------
(* What a process computes.                                                *)

\* max_retries + 1 in u32: a release build wraps around at the largest value
\* (a debug build panics there, which changes nothing on disk either).
max_attempts(limit) == IF limit = U32Max THEN 0 ELSE limit + 1

terminal_status_for_failure(attempt, max_retries) ==
    IF attempt <= max_retries THEN "RetryScheduled" ELSE "FailedTerminal"

Live(w) == proc[w].pc # "none"

\* The state a process is about to save.
runtime(w) == [worker |-> w, replay |-> proc[w].replay,
               status |-> proc[w].status, attempt |-> proc[w].attempt]

Parses == stateFile \notin {Empty, Torn}

\* Mutant: an attempt that was interrupted is not counted.
initial_attempt_interrupted ==
    IF stateFile = NoFile THEN 0
    ELSE IF stateFile.status = "Running" THEN stateFile.attempt - 1
    ELSE stateFile.attempt

initial_attempt == IF stateFile = NoFile THEN 0 ELSE stateFile.attempt

start_attempt(w) == IF proc[w].force THEN 0 ELSE initial_attempt

\* Mutant: every invocation runs the job again.
replay_hit_never(w) == FALSE

replay_hit(w) ==
    /\ stateFile # NoFile
    /\ stateFile.replay = proc[w].replay
    /\ stateFile.status = "Succeeded"
    /\ ~proc[w].force

\* Mutant: only the first attempt is announced in the assignment audit.
FirstLog_once(w) ==
    IF proc[w].status = "Running" /\ proc[w].attempt = 1 THEN "audit" ELSE "health"

\* The log that follows a save: assignment audit first, health log after it.
FirstLog(w) == IF proc[w].status = "Running" THEN "audit" ELSE "health"

LogLine(w) == [status |-> proc[w].status, attempt |-> proc[w].attempt]

\* What the model keeps of the lines of a log.
Kept(l, lines) == IF l = "audit" THEN lines ELSE <<>>

Goto(w, step) == proc' = [proc EXCEPT ![w].pc = step]

\* The loop body of `cmd_run` starts by saving status Running.
EnterAttempt(w, n) ==
    proc' = [proc EXCEPT ![w] = [@ EXCEPT !.pc = "truncate", !.attempt = n,
                                          !.status = "Running"]]

-----------------------------------------------------------------------------
Init ==
    /\ manifest \in Manifests
    /\ stateFile = NoFile
    /\ logs = [l \in Log |-> IF RuntimeDirUsed THEN <<>> ELSE NoFile]
    /\ \E n \in RetryLimits :
          proc = [w \in Workers |->
                    [pc |-> "none", replay |-> manifest, read |-> manifest, limit |-> n,
                     force |-> FALSE, edited |-> FALSE, attempt |-> 0,
                     status |-> "Running", log |-> "audit"]]
    /\ invocations = 0
    /\ execs = 0
    /\ successes = {}

\* Somebody edits the job manifest file (write_manifest of a later create
\* command, or an editor).
EditManifest ==
    /\ EditsDuringRun \/ \A w \in Workers : ~Live(w)
    /\ \E m \in Manifests \ {manifest} :
          /\ <<manifest, m>> \in Edits
          /\ manifest' = m
    /\ proc' = [w \in Workers |-> [proc[w] EXCEPT !.edited = Live(w)]]
    /\ UNCHANGED <<stateFile, logs, invocations, execs, successes>>

\* Mutant: the replay id is the one of an earlier invocation.
Invoke_stale(w) ==
    /\ ~Live(w)
    /\ Exclusive => \A v \in Workers : ~Live(v)
    /\ invocations < MaxInvocations
    /\ \E limit \in RetryLimits, force \in BOOLEAN :
          /\ force => AllowForce
          /\ proc' = [proc EXCEPT ![w] =
                        [@ EXCEPT !.pc = "load", !.edited = FALSE,
                                  !.limit = limit, !.force = force]]
    /\ invocations' = invocations + 1
    /\ UNCHANGED <<manifest, stateFile, logs, execs, successes>>

\* A CLI process starts and reads the manifest; replay_id is fixed here.
Invoke(w) ==
    /\ ~Live(w)
    /\ Exclusive => \A v \in Workers : ~Live(v)
    /\ invocations < MaxInvocations
    /\ \E limit \in RetryLimits, force \in BOOLEAN :
          /\ force => AllowForce
          /\ proc' = [proc EXCEPT ![w] =
                        [@ EXCEPT !.pc = "load", !.replay = manifest, !.read = manifest,
                                  !.edited = FALSE, !.limit = limit, !.force = force]]
    /\ invocations' = invocations + 1
    /\ UNCHANGED <<manifest, stateFile, logs, execs, successes>>

\* Mutant: a file that does not parse is read again.
LoadFails_reread(w) ==
    /\ proc[w].pc = "load"
    /\ ~Parses
    /\ UNCHANGED vars

\* load_state_if_exists: a file that does not parse ends the process.
LoadFails(w) ==
    /\ proc[w].pc = "load"
    /\ ~Parses
    /\ Goto(w, "none")
    /\ UNCHANGED <<manifest, stateFile, logs, invocations, execs, successes>>

\* "Deterministic replay hit": the job is not run again.
ReplayHit(w) ==
    /\ proc[w].pc = "load"
    /\ Parses
    /\ replay_hit(w)
    /\ Goto(w, "none")
    /\ UNCHANGED <<manifest, stateFile, logs, invocations, execs, successes>>

\* "job reached terminal state": without --force the attempts are used up.
Refuse(w) ==
    /\ proc[w].pc = "load"
    /\ Parses
    /\ ~replay_hit(w)
    /\ ~proc[w].force
    /\ initial_attempt >= max_attempts(proc[w].limit)
    /\ Goto(w, "none")
    /\ UNCHANGED <<manifest, stateFile, logs, invocations, execs, successes>>

\* The first attempt of this process; with --force and a limit that wraps to
\* zero attempts the loop is empty and the process ends.
FirstAttempt(w) ==
    /\ proc[w].pc = "load"
    /\ Parses
    /\ ~replay_hit(w)
    /\ proc[w].force \/ initial_attempt < max_attempts(proc[w].limit)
    /\ IF start_attempt(w) < max_attempts(proc[w].limit)
       THEN EnterAttempt(w, start_attempt(w) + 1)
       ELSE Goto(w, "none")
    /\ UNCHANGED <<manifest, stateFile, logs, invocations, execs, successes>>

\* save_runtime_state is fs::write: open with truncation ...
Truncate(w) ==
    /\ proc[w].pc = "truncate"
    /\ stateFile' = Empty
    /\ Goto(w, "write")
    /\ UNCHANGED <<manifest, logs, invocations, execs, successes>>

\* ... then write at offset 0.  If another process wrote since, the longer of
\* the two texts decides whether its tail stays behind the new one.
WriteState(w) ==
    /\ proc[w].pc = "write"
    /\ stateFile' \in {runtime(w)} \cup (IF stateFile = Empty THEN {} ELSE {Torn})
    /\ proc' = [proc EXCEPT ![w] = [@ EXCEPT !.pc = "exists", !.log = FirstLog(w)]]
    /\ UNCHANGED <<manifest, logs, invocations, execs, successes>>

-----------------------------------------------------------------------------
(* append_jsonl: test for existence, then create or append.                *)

CheckExists(w) ==
    /\ proc[w].pc = "exists"
    /\ Goto(w, IF logs[proc[w].log] = NoFile THEN "create" ELSE "append")
    /\ UNCHANGED <<manifest, stateFile, logs, invocations, execs, successes>>

\* fs::write truncates whatever another process put there meanwhile.
CreateLog(w) ==
    /\ proc[w].pc = "create"
    /\ logs' = [logs EXCEPT ![proc[w].log] = <<>>]
    /\ Goto(w, "fill")
    /\ UNCHANGED <<manifest, stateFile, invocations, execs, successes>>

\* A line written at offset 0: what it covers depends on the lengths.
Overwrites(lines, line) ==
    IF lines = <<>> THEN {<<line>>}
    ELSE {<<line>> \o Tail(lines), <<line, Garbled>> \o Tail(lines)}
         \cup IF Tail(lines) = <<>> THEN {}
              ELSE {<<line, Garbled>> \o Tail(Tail(lines))}

\* Where the process goes once its line is in the log.
AfterAppend(w) ==
    CASE proc[w].log = "audit" ->
            proc' = [proc EXCEPT ![w] = [@ EXCEPT !.pc = "exists", !.log = "health"]]
      [] proc[w].log = "health" /\ proc[w].status = "Running" -> Goto(w, "spawn")
      [] proc[w].log = "health" /\ proc[w].status = "RetryScheduled" ->
            IF proc[w].attempt < max_attempts(proc[w].limit)
            THEN EnterAttempt(w, proc[w].attempt + 1)
            ELSE Goto(w, "none")
      [] OTHER -> Goto(w, "none")

FillLog(w) ==
    /\ proc[w].pc = "fill"
    /\ \E lines \in Overwrites(logs[proc[w].log], LogLine(w)) :
          logs' = [logs EXCEPT ![proc[w].log] = Kept(proc[w].log, lines)]
    /\ AfterAppend(w)
    /\ UNCHANGED <<manifest, stateFile, invocations, execs, successes>>

AppendLog(w) ==
    /\ proc[w].pc = "append"
    /\ logs' = [logs EXCEPT ![proc[w].log] = Kept(proc[w].log, Append(@, LogLine(w)))]
    /\ AfterAppend(w)
    /\ UNCHANGED <<manifest, stateFile, invocations, execs, successes>>

-----------------------------------------------------------------------------
(* run_worker_task: the child process reads the manifest file again.       *)

SpawnWorker(w) ==
    /\ proc[w].pc = "spawn"
    /\ proc' = [proc EXCEPT ![w] = [@ EXCEPT !.pc = "wait", !.read = manifest]]
    /\ execs' = execs + 1
    /\ UNCHANGED <<manifest, stateFile, logs, invocations, successes>>

\* Mutant: the error of the spawn is swallowed.
SpawnFails_ignored(w) ==
    /\ proc[w].pc = "spawn"
    /\ proc' = [proc EXCEPT ![w] = [@ EXCEPT !.pc = "truncate", !.status = "Succeeded"]]
    /\ UNCHANGED <<manifest, stateFile, logs, invocations, execs, successes>>

\* An unsupported task or a command that cannot be spawned leaves through `?`.
SpawnFails(w) ==
    /\ proc[w].pc = "spawn"
    /\ Goto(w, "none")
    /\ UNCHANGED <<manifest, stateFile, logs, invocations, execs, successes>>

WorkerSucceeds(w) ==
    /\ proc[w].pc = "wait"
    /\ proc' = [proc EXCEPT ![w] = [@ EXCEPT !.pc = "truncate", !.status = "Succeeded"]]
    /\ successes' = successes \cup
          {[worker |-> w, replay |-> proc[w].replay, read |-> proc[w].read,
            attempt |-> proc[w].attempt, edited |-> proc[w].edited]}
    /\ UNCHANGED <<manifest, stateFile, logs, invocations, execs>>

\* Mutant: a failed command is started again within the attempt.
WorkerFails_again(w) ==
    /\ proc[w].pc = "wait"
    /\ Goto(w, "spawn")
    /\ UNCHANGED <<manifest, stateFile, logs, invocations, execs, successes>>

WorkerFails(w) ==
    /\ proc[w].pc = "wait"
    /\ proc' = [proc EXCEPT ![w] =
                  [@ EXCEPT !.pc = "truncate",
                            !.status = terminal_status_for_failure(proc[w].attempt, proc[w].limit)]]
    /\ UNCHANGED <<manifest, stateFile, logs, invocations, execs, successes>>

\* The CLI process dies; what it wrote so far stays.
Crash(w) ==
    /\ Live(w)
    /\ Goto(w, "none")
    /\ UNCHANGED <<manifest, stateFile, logs, invocations, execs, successes>>

-----------------------------------------------------------------------------
\* What the program does by itself once started.
cmd_run(w) ==
    \/ LoadFails(w) \/ ReplayHit(w) \/ Refuse(w) \/ FirstAttempt(w)
    \/ Truncate(w) \/ WriteState(w)
    \/ CheckExists(w) \/ CreateLog(w) \/ FillLog(w) \/ AppendLog(w)
    \/ SpawnWorker(w) \/ SpawnFails(w) \/ WorkerSucceeds(w) \/ WorkerFails(w)

Next ==
    \/ EditManifest
    \/ \E w \in Workers : Invoke(w) \/ cmd_run(w) \/ Crash(w)

Spec == Init /\ [][Next]_vars

\* A started process keeps running, and the worker command it waits for ends.
FairSpec == Spec /\ \A w \in Workers : WF_vars(cmd_run(w))

-----------------------------------------------------------------------------
(* Properties.                                                             *)

\* When processes do not overlap and --force is not used, the attempts of a
\* job are a budget: whatever crashes and restarts happen, and whatever
\* limits the invocations pass, the worker command is started at most once
\* per attempt number.  (The attempt is saved before the command starts and
\* resumed after the saved number.)
RetryBudget ==
    Exclusive /\ ~AllowForce => execs <= MaxRetries + 1

\* A job whose state file says "succeeded" was really completed by the worker
\* the file names, in the attempt it names.  What that worker processed is the
\* manifest whose replay id the file carries, unless the manifest was edited
\* while that very process ran: the worker command reads the file a second
\* time.  An edit under another process, or before this one began, is no excuse.
SucceededIsJustified ==
    (stateFile \in StateRec /\ stateFile.status = "Succeeded") =>
        \E s \in successes :
            /\ s.worker = stateFile.worker /\ s.attempt = stateFile.attempt
            /\ s.replay = stateFile.replay
            /\ s.read = s.replay \/ s.edited

AuditLog == IF logs["audit"] = NoFile THEN <<>> ELSE logs["audit"]

\* The lines of the assignment audit that can be read.
AuditLines == {i \in 1..Len(AuditLog) : AuditLog[i] # Garbled}

\* Every worker command that was started has its own line in the assignment
\* audit, also after crashes.
AuditCoversRuns == execs <= Cardinality(AuditLines)

\* No two assignment events of the job share an event id (the id is made of
\* the job id and the attempt number).
AuditIdsUnique ==
    \A i, j \in AuditLines : AuditLog[i].attempt = AuditLog[j].attempt => i = j

\* Every invocation ends, whatever the others do to the state file and logs.
InvocationEnds == \A w \in Workers : Live(w) ~> ~Live(w)

-----------------------------------------------------------------------------
(* The promise made to whoever schedules the job, as an abstract machine.  *)

Outcome ==
    IF stateFile \notin StateRec THEN "open"
    ELSE CASE stateFile.status = "Succeeded" -> "succeeded"
           [] stateFile.status = "FailedTerminal" -> "failed"
           [] OTHER -> "open"

\* The content whose success the state file records.
Done == IF Outcome = "succeeded" THEN stateFile.replay ELSE NoFile

Lifecycle == INSTANCE JobLifecycle WITH
    job <- manifest, used <- execs, outcome <- Outcome, done <- Done,
    Budget <- MaxRetries + 1, None <- NoFile

\* Without --force and overlap, the runner implements the life cycle of
\* JobLifecycle: a bounded number of tries whatever the manifest says, and the
\* success of a manifest is final until the manifest is edited.
ImplementsLifecycle == Lifecycle!Spec
=============================================================================
