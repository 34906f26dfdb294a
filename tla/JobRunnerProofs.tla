--------------------------- MODULE JobRunnerProofs ---------------------------
(* Theorems about JobRunner for every set of workers, manifests and limits. *)
EXTENDS JobRunner, FiniteSetTheorems, TLAPS

-----------------------------------------------------------------------------
(* Lemmas about the helpers.                                               *)

\* The attempts an invocation may make never exceed the bound of the limits.
LEMMA MaxAttemptsBound ==
    ASSUME NEW n \in RetryLimits
    PROVE  /\ max_attempts(n) \in Nat
           /\ max_attempts(n) <= MaxRetries + 1
  BY RetryAssumption DEF max_attempts

\* The labels used by the steps.
LEMMA Labels ==
    /\ {"load", "truncate", "write", "exists", "create", "fill", "append",
        "spawn", "wait"} \subseteq Step
    /\ {"Running", "RetryScheduled", "Succeeded", "FailedTerminal"} \subseteq Status
    /\ "audit" \in Log /\ "health" \in Log
  BY DEF Step, Status, Log

\* An attempt number below the limit of an invocation has a typed successor.
LEMMA NextAttempt ==
    ASSUME NEW n \in Nat, NEW limit \in RetryLimits, n < max_attempts(limit)
    PROVE  n + 1 \in Attempts
<1>1. max_attempts(limit) \in Nat /\ max_attempts(limit) <= MaxRetries + 1
  BY MaxAttemptsBound
<1> QED
  BY <1>1, RetryAssumption DEF Attempts

\* Entering a loop iteration keeps the process record typed.
LEMMA EnterAttemptType ==
    ASSUME NEW w \in Workers, proc \in [Workers -> Proc],
           NEW n \in Attempts, EnterAttempt(w, n)
    PROVE  proc' \in [Workers -> Proc]
  BY Labels DEF EnterAttempt, Proc

\* So does every jump to another step.
LEMMA GotoType ==
    ASSUME NEW w \in Workers, proc \in [Workers -> Proc],
           NEW s \in Step \cup {"none"}, Goto(w, s)
    PROVE  proc' \in [Workers -> Proc]
  BY DEF Goto, Proc

\* And the continuation of append_jsonl.
LEMMA AfterAppendType ==
    ASSUME NEW w \in Workers, proc \in [Workers -> Proc], AfterAppend(w)
    PROVE  proc' \in [Workers -> Proc]
<1>0. /\ proc[w].limit \in RetryLimits /\ proc[w].attempt \in Attempts
      /\ proc[w].attempt \in Nat /\ proc[w].log \in Log
  BY RetryAssumption DEF Proc, Attempts
<1>1. CASE proc[w].log = "audit"
  <2>1. proc' = [proc EXCEPT ![w] = [@ EXCEPT !.pc = "exists", !.log = "health"]]
    BY <1>1 DEF AfterAppend
  <2>2. [proc[w] EXCEPT !.pc = "exists", !.log = "health"] \in Proc
    BY Labels DEF Proc
  <2> QED
    BY <2>1, <2>2
<1>2. CASE /\ proc[w].attempt < max_attempts(proc[w].limit)
           /\ EnterAttempt(w, proc[w].attempt + 1)
  BY <1>0, <1>2, NextAttempt, EnterAttemptType
<1>3. CASE Goto(w, "spawn") \/ Goto(w, "none")
  BY <1>3, Labels, GotoType
<1> QED
  BY <1>0, <1>1, <1>2, <1>3 DEF AfterAppend, Log

\* Where append_jsonl returns to: the next log, the worker command, the next
\* attempt or the end.
LEMMA AfterAppendCases ==
    ASSUME NEW w \in Workers, proc \in [Workers -> Proc], AfterAppend(w)
    PROVE  /\ proc'[w].pc \in {"exists", "spawn", "truncate", "none"}
           /\ \A v \in Workers \ {w} : proc'[v] = proc[v]
<1>0. proc[w] \in Proc /\ proc[w].log \in Log
  BY DEF Proc
<1>1. CASE proc' = [proc EXCEPT ![w] = [@ EXCEPT !.pc = "exists", !.log = "health"]]
  BY <1>0, <1>1 DEF Proc
<1>2. CASE EnterAttempt(w, proc[w].attempt + 1)
  BY <1>0, <1>2 DEF EnterAttempt, Proc
<1>3. CASE Goto(w, "spawn") \/ Goto(w, "none")
  BY <1>0, <1>3 DEF Goto, Proc
<1> QED
  BY <1>0, <1>1, <1>2, <1>3 DEF AfterAppend, Log

\* An edit of the manifest changes nothing of a process but its history flag.
LEMMA EditFrame ==
    ASSUME proc \in [Workers -> Proc], EditManifest
    PROVE  /\ proc' \in [Workers -> Proc]
           /\ \A w \in Workers :
                 /\ proc'[w].pc = proc[w].pc /\ proc'[w].replay = proc[w].replay
                 /\ proc'[w].read = proc[w].read /\ proc'[w].limit = proc[w].limit
                 /\ proc'[w].force = proc[w].force /\ proc'[w].attempt = proc[w].attempt
                 /\ proc'[w].status = proc[w].status /\ proc'[w].log = proc[w].log
                 /\ proc'[w].edited = Live(w)
           /\ manifest' \in Manifests \ {manifest}
           /\ UNCHANGED <<stateFile, logs, invocations, execs, successes>>
<1>1. proc' = [w \in Workers |-> [proc[w] EXCEPT !.edited = Live(w)]]
  BY DEF EditManifest
<1>2. \A w \in Workers : Live(w) \in BOOLEAN /\ proc[w] \in Proc
  BY DEF Live
<1>3. \A w \in Workers : [proc[w] EXCEPT !.edited = Live(w)] \in Proc
  BY <1>2 DEF Proc
<1>4. proc' \in [Workers -> Proc]
  BY <1>1, <1>3
<1>5. ASSUME NEW w \in Workers
      PROVE  /\ proc'[w].pc = proc[w].pc /\ proc'[w].replay = proc[w].replay
             /\ proc'[w].read = proc[w].read /\ proc'[w].limit = proc[w].limit
             /\ proc'[w].force = proc[w].force /\ proc'[w].attempt = proc[w].attempt
             /\ proc'[w].status = proc[w].status /\ proc'[w].log = proc[w].log
             /\ proc'[w].edited = Live(w)
  <2>1. proc'[w] = [proc[w] EXCEPT !.edited = Live(w)]
    BY <1>1
  <2> QED
    BY <1>2, <2>1 DEF Proc
<1> QED
  BY <1>4, <1>5 DEF EditManifest

\* Whatever a write at offset 0 leaves is a sequence of lines.
LEMMA OverwritesType ==
    ASSUME NEW S, NEW lines \in Seq(S \cup {Garbled}), NEW line \in S,
           NEW out \in Overwrites(lines, line)
    PROVE  out \in Seq(S \cup {Garbled})
<1> DEFINE T == S \cup {Garbled}
<1>1. <<line>> \in Seq(T) /\ <<line, Garbled>> \in Seq(T)
  OBVIOUS
<1>2. CASE lines = <<>>
  BY <1>1, <1>2 DEF Overwrites
<1>3. CASE lines # <<>>
  <2>1. Tail(lines) \in Seq(T)
    BY <1>3
  <2>2. Tail(lines) # <<>> => Tail(Tail(lines)) \in Seq(T)
    BY <2>1
  <2>3. \A a, b \in Seq(T) : a \o b \in Seq(T)
    OBVIOUS
  <2>4. \/ out = <<line>> \o Tail(lines)
        \/ out = <<line, Garbled>> \o Tail(lines)
        \/ Tail(lines) # <<>> /\ out = <<line, Garbled>> \o Tail(Tail(lines))
    BY <1>3 DEF Overwrites
  <2> HIDE DEF T
  <2>5. out \in Seq(T)
    BY <1>1, <2>1, <2>2, <2>3, <2>4
  <2> QED
    BY <2>5 DEF T
<1> QED
  BY <1>2, <1>3

-----------------------------------------------------------------------------
(* Type correctness.  A process appends only to a log it has seen, so the  *)
(* inductive form carries the existence of that log along.                 *)

LogSeen ==
    \A w \in Workers : proc[w].pc \in {"fill", "append"} => logs[proc[w].log] # NoFile

TypeInv == TypeOK /\ LogSeen

\* Every step of the program keeps the types.
LEMMA TypeStep == TypeInv /\ [Next]_vars => TypeInv'
<1> SUFFICES ASSUME TypeInv, [Next]_vars PROVE TypeInv'
  OBVIOUS
<1>0. /\ manifest \in Manifests
      /\ stateFile \in StateRec \cup {NoFile, Empty, Torn}
      /\ logs \in [Log -> Seq(Line \cup {Garbled}) \cup {NoFile}]
      /\ proc \in [Workers -> Proc]
      /\ invocations \in Nat
      /\ execs \in Nat
      /\ successes \subseteq Success
  BY DEF TypeInv, TypeOK
<1>00. \A v \in Workers : /\ proc[v].log \in Log
                          /\ proc[v].attempt \in Attempts
                          /\ proc[v].limit \in RetryLimits
                          /\ proc[v].replay \in Manifests
                          /\ proc[v].read \in Manifests
                          /\ proc[v].status \in Status
                          /\ proc[v].edited \in BOOLEAN
  BY <1>0 DEF Proc
<1> USE <1>0, <1>00
<1>1. CASE EditManifest
  BY <1>1, EditFrame DEF TypeInv, TypeOK, LogSeen
<1>2. ASSUME NEW w \in Workers, Invoke(w) PROVE TypeInv'
  <2>0. PICK limit \in RetryLimits, force \in BOOLEAN :
          proc' = [proc EXCEPT ![w] = [@ EXCEPT !.pc = "load", !.replay = manifest,
                                                !.read = manifest, !.edited = FALSE,
                                                !.limit = limit, !.force = force]]
    BY <1>2 DEF Invoke
  <2>1. proc' \in [Workers -> Proc]
    <3>1. [proc[w] EXCEPT !.pc = "load", !.replay = manifest,
                          !.read = manifest, !.edited = FALSE,
                          !.limit = limit, !.force = force] \in Proc
      BY Labels DEF Proc
    <3> QED
      BY <2>0, <3>1
  <2>2. LogSeen'
    BY <1>2, <2>0 DEF Invoke, LogSeen, TypeInv
  <2> QED
    BY <1>2, <2>1, <2>2 DEF Invoke, TypeInv, TypeOK
<1>3. ASSUME NEW w \in Workers,
             LoadFails(w) \/ ReplayHit(w) \/ Refuse(w) \/ SpawnFails(w) \/ Crash(w)
      PROVE  TypeInv'
  <2>1. Goto(w, "none") /\ UNCHANGED <<manifest, stateFile, logs, invocations, execs, successes>>
    BY <1>3 DEF LoadFails, ReplayHit, Refuse, SpawnFails, Crash
  <2>2. proc' \in [Workers -> Proc]
    BY <2>1, GotoType
  <2>3. LogSeen'
    BY <2>1 DEF Goto, LogSeen, TypeInv
  <2> QED
    BY <2>1, <2>2, <2>3 DEF TypeInv, TypeOK
<1>4. ASSUME NEW w \in Workers, FirstAttempt(w) PROVE TypeInv'
  <2>1. start_attempt(w) \in Nat
    BY <1>4 DEF FirstAttempt, start_attempt, initial_attempt, Parses, StateRec, Attempts
  <2>2. CASE /\ start_attempt(w) < max_attempts(proc[w].limit)
             /\ EnterAttempt(w, start_attempt(w) + 1)
    <3>1. proc' \in [Workers -> Proc]
      BY <2>1, <2>2, NextAttempt, EnterAttemptType
    <3>2. LogSeen'
      BY <1>4, <2>2 DEF FirstAttempt, EnterAttempt, LogSeen, TypeInv
    <3> QED
      BY <1>4, <3>1, <3>2 DEF FirstAttempt, TypeInv, TypeOK
  <2>3. CASE Goto(w, "none")
    <3>1. proc' \in [Workers -> Proc]
      BY <2>3, GotoType
    <3>2. LogSeen'
      BY <1>4, <2>3 DEF FirstAttempt, Goto, LogSeen, TypeInv
    <3> QED
      BY <1>4, <3>1, <3>2 DEF FirstAttempt, TypeInv, TypeOK
  <2> QED
    BY <1>4, <2>2, <2>3 DEF FirstAttempt
<1>5. ASSUME NEW w \in Workers, Truncate(w) PROVE TypeInv'
  <2>1. proc' \in [Workers -> Proc]
    BY <1>5, Labels, GotoType DEF Truncate
  <2>2. LogSeen'
    BY <1>5 DEF Truncate, Goto, LogSeen, TypeInv
  <2> QED
    BY <1>5, <2>1, <2>2 DEF Truncate, TypeInv, TypeOK
<1>6. ASSUME NEW w \in Workers, WriteState(w) PROVE TypeInv'
  <2>1. FirstLog(w) \in Log
    BY Labels DEF FirstLog
  <2>2. proc' \in [Workers -> Proc]
    BY <1>6, <2>1, Labels DEF WriteState, Proc
  <2>3. runtime(w) \in StateRec
    BY DEF runtime, StateRec
  <2>4. stateFile' \in StateRec \cup {NoFile, Empty, Torn}
    BY <1>6, <2>3 DEF WriteState
  <2>5. LogSeen'
    BY <1>6 DEF WriteState, LogSeen, TypeInv
  <2> QED
    BY <1>6, <2>2, <2>4, <2>5 DEF WriteState, TypeInv, TypeOK
<1>7. ASSUME NEW w \in Workers, CheckExists(w) PROVE TypeInv'
  <2>1. proc' \in [Workers -> Proc]
    BY <1>7, Labels, GotoType DEF CheckExists
  <2>2. LogSeen'
    BY <1>7 DEF CheckExists, Goto, LogSeen, TypeInv
  <2> QED
    BY <1>7, <2>1, <2>2 DEF CheckExists, TypeInv, TypeOK
<1>8. ASSUME NEW w \in Workers, CreateLog(w) PROVE TypeInv'
  <2>1. proc' \in [Workers -> Proc]
    BY <1>8, Labels, GotoType DEF CreateLog
  <2>2. <<>> \in Seq(Line \cup {Garbled})
    OBVIOUS
  <2>2a. <<>> # NoFile
    BY <2>2, FileAssumption
  <2>3. logs' \in [Log -> Seq(Line \cup {Garbled}) \cup {NoFile}]
    BY <1>8, <2>2 DEF CreateLog
  <2>4. LogSeen'
    BY <1>8, <2>2a DEF CreateLog, Goto, LogSeen, TypeInv
  <2> QED
    BY <1>8, <2>1, <2>3, <2>4 DEF CreateLog, TypeInv, TypeOK
<1>9. ASSUME NEW w \in Workers, FillLog(w) \/ AppendLog(w) PROVE TypeInv'
  <2> DEFINE old == logs[proc[w].log]
  <2>1. old \in Seq(Line \cup {Garbled})
    BY <1>9 DEF FillLog, AppendLog, LogSeen, TypeInv
  <2>2. LogLine(w) \in Line
    BY DEF LogLine, Line
  <2>2a. \A l, lines : lines \in Seq(Line \cup {Garbled}) =>
                          Kept(l, lines) \in Seq(Line \cup {Garbled})
    BY DEF Kept
  <2>3. PICK new \in Seq(Line \cup {Garbled}) : logs' = [logs EXCEPT ![proc[w].log] = new]
    <3>1. CASE FillLog(w)
      BY <2>1, <2>2, <2>2a, <3>1, OverwritesType DEF FillLog
    <3>2. CASE AppendLog(w)
      <4>1. Append(old, LogLine(w)) \in Seq(Line \cup {Garbled})
        BY <2>1, <2>2
      <4> QED
        BY <2>2a, <3>2, <4>1 DEF AppendLog
    <3> QED
      BY <1>9, <3>1, <3>2
  <2>4. new # NoFile
    BY <2>3, FileAssumption
  <2>5. AfterAppend(w) /\ UNCHANGED <<manifest, stateFile, invocations, execs, successes>>
    BY <1>9 DEF FillLog, AppendLog
  <2>6. proc' \in [Workers -> Proc]
    BY <2>5, AfterAppendType
  <2>7. /\ proc'[w].pc \notin {"fill", "append"}
        /\ \A v \in Workers \ {w} : proc'[v] = proc[v]
    BY <2>5, AfterAppendCases
  <2>8. LogSeen'
    BY <2>3, <2>4, <2>7 DEF LogSeen, TypeInv
  <2> QED
    BY <2>3, <2>5, <2>6, <2>8 DEF TypeInv, TypeOK
<1>10. ASSUME NEW w \in Workers, SpawnWorker(w) PROVE TypeInv'
  <2>1. proc' \in [Workers -> Proc]
    BY <1>10, Labels DEF SpawnWorker, Proc
  <2>2. LogSeen'
    BY <1>10 DEF SpawnWorker, LogSeen, TypeInv
  <2> QED
    BY <1>10, <2>1, <2>2 DEF SpawnWorker, TypeInv, TypeOK
<1>11. ASSUME NEW w \in Workers, WorkerSucceeds(w) PROVE TypeInv'
  <2>1. proc' \in [Workers -> Proc]
    BY <1>11, Labels DEF WorkerSucceeds, Proc
  <2>2. LogSeen'
    BY <1>11 DEF WorkerSucceeds, LogSeen, TypeInv
  <2>3. successes' \subseteq Success
    BY <1>11 DEF WorkerSucceeds, Success
  <2> QED
    BY <1>11, <2>1, <2>2, <2>3 DEF WorkerSucceeds, TypeInv, TypeOK
<1>12. ASSUME NEW w \in Workers, WorkerFails(w) PROVE TypeInv'
  <2>1. terminal_status_for_failure(proc[w].attempt, proc[w].limit) \in Status
    BY Labels DEF terminal_status_for_failure
  <2>2. proc' \in [Workers -> Proc]
    BY <1>12, <2>1, Labels DEF WorkerFails, Proc
  <2>3. LogSeen'
    BY <1>12 DEF WorkerFails, LogSeen, TypeInv
  <2> QED
    BY <1>12, <2>2, <2>3 DEF WorkerFails, TypeInv, TypeOK
<1>13. CASE UNCHANGED vars
  BY <1>13 DEF vars, TypeInv, TypeOK, LogSeen
<1> QED
  BY <1>1, <1>2, <1>3, <1>4, <1>5, <1>6, <1>7, <1>8, <1>9, <1>10, <1>11, <1>12, <1>13
     DEF Next, cmd_run

\* The initial state is typed.
LEMMA TypeInit == Init => TypeInv
<1> SUFFICES ASSUME Init PROVE TypeInv
  OBVIOUS
<1>1. logs \in [Log -> Seq(Line \cup {Garbled}) \cup {NoFile}]
  BY DEF Init
<1>2. 0 \in Attempts
  BY RetryAssumption DEF Attempts
<1>3. proc \in [Workers -> Proc]
  BY <1>2, Labels DEF Init, Proc
<1>4. LogSeen
  BY DEF Init, LogSeen
<1> QED
  BY <1>1, <1>3, <1>4 DEF Init, TypeInv, TypeOK

\* Every file, log and process keeps its type in every run of the program.
THEOREM TypeCorrect == Spec => []TypeOK
<1>1. TypeInv => TypeOK
  BY DEF TypeInv
<1> QED
  BY TypeInit, TypeStep, <1>1, PTL DEF Spec

-----------------------------------------------------------------------------
(* The retry budget.  Without overlap and without --force the number of    *)
(* started commands stays below the attempt a process is about to make,    *)
(* and the saved attempt is an upper bound of it: a crash can lose tries,  *)
(* but no try is ever made twice.                                          *)

\* The steps between the end of a save and the next save.
AfterSave == {"exists", "create", "fill", "append", "spawn", "wait"}

InAttempt(w) == proc[w].pc \in {"truncate", "write"} \cup AfterSave

\* The command of the current attempt has been started.
Started(w) == proc[w].pc = "wait" \/ proc[w].status # "Running"

LiveInv(w) ==
    /\ ~proc[w].force
    /\ InAttempt(w) /\ ~Started(w) => execs < proc[w].attempt
    /\ InAttempt(w) /\ Started(w) => execs <= proc[w].attempt /\ execs > 0
    /\ proc[w].pc = "write" => stateFile = Empty
    /\ proc[w].pc \in AfterSave => stateFile = runtime(w)
    /\ proc[w].pc \in {"spawn", "wait"} => proc[w].status = "Running"
    /\ proc[w].pc = "truncate" /\ Started(w) => Outcome = "open"
    /\ proc[w].pc = "truncate" /\ Outcome = "succeeded" => stateFile.replay # proc[w].replay

BudgetInv ==
    /\ execs <= MaxRetries + 1
    /\ stateFile = NoFile => execs = 0
    /\ stateFile \in StateRec => execs <= stateFile.attempt
    /\ \A v, w \in Workers : Live(v) /\ Live(w) => v = w
    /\ \A w \in Workers : Live(w) => LiveInv(w)

\* While a process is live no other one is, so a step of it preserves BudgetInv
\* as soon as it preserves what is said of the files and of that process.
LEMMA BudgetFrame ==
    ASSUME BudgetInv, NEW w \in Workers, Live(w),
           \A v \in Workers \ {w} : proc'[v] = proc[v],
           execs' <= MaxRetries + 1,
           stateFile' = NoFile => execs' = 0,
           stateFile' \in StateRec => execs' <= stateFile'.attempt,
           Live(w)' => LiveInv(w)'
    PROVE  BudgetInv'
<1>1. \A v \in Workers \ {w} : ~Live(v)'
  BY DEF BudgetInv, Live
<1> QED
  BY <1>1 DEF BudgetInv

\* Every step of an exclusive, unforced runner preserves BudgetInv.
LEMMA BudgetStep ==
    ASSUME Exclusive, ~AllowForce, TypeInv, BudgetInv, [Next]_vars
    PROVE  BudgetInv'
<1>0. /\ proc \in [Workers -> Proc] /\ execs \in Nat /\ MaxRetries \in Nat
      /\ stateFile \in StateRec \cup {NoFile, Empty, Torn}
  BY RetryAssumption DEF TypeInv, TypeOK
<1>00. \A v \in Workers : /\ proc[v] \in Proc
                          /\ proc[v].attempt \in Nat
                          /\ proc[v].attempt <= MaxRetries + 1
                          /\ proc[v].limit \in RetryLimits
                          /\ runtime(v) \in StateRec
                          /\ runtime(v).attempt = proc[v].attempt
                          /\ runtime(v).status = proc[v].status
  BY <1>0 DEF Proc, Attempts, runtime, StateRec
<1> USE <1>0, <1>00
<1>1. CASE EditManifest
  <2>1. /\ stateFile' = stateFile /\ execs' = execs
        /\ \A w \in Workers : runtime(w)' = runtime(w)
    BY <1>1, EditFrame DEF runtime
  <2>2. \A w \in Workers : Live(w)' = Live(w)
    BY <1>1, EditFrame DEF Live
  <2>3. Outcome' = Outcome
    BY <2>1 DEF Outcome
  <2>4. ASSUME NEW w \in Workers, Live(w) PROVE LiveInv(w)'
    <3>1. LiveInv(w)
      BY <2>4 DEF BudgetInv
    <3> QED
      BY <1>1, <2>1, <2>3, <3>1, EditFrame DEF LiveInv, InAttempt, Started
  <2> QED
    BY <2>1, <2>2, <2>4 DEF BudgetInv
<1>2. ASSUME NEW w \in Workers, Invoke(w) PROVE BudgetInv'
  <2>1. \A v \in Workers : ~Live(v)
    BY <1>2 DEF Invoke
  <2>2. PICK limit \in RetryLimits, force \in BOOLEAN :
          /\ force => AllowForce
          /\ proc' = [proc EXCEPT ![w] = [@ EXCEPT !.pc = "load", !.replay = manifest,
                                                   !.read = manifest, !.edited = FALSE,
                                                   !.limit = limit, !.force = force]]
    BY <1>2 DEF Invoke
  <2>3. /\ proc'[w].pc = "load" /\ ~proc'[w].force
        /\ \A v \in Workers \ {w} : proc'[v] = proc[v]
    BY <2>2 DEF Proc
  <2>4. stateFile' = stateFile /\ execs' = execs
    BY <1>2 DEF Invoke
  <2>5. LiveInv(w)'
    BY <2>3 DEF LiveInv, InAttempt, AfterSave
  <2>6. \A v \in Workers \ {w} : ~Live(v)'
    BY <2>1, <2>3 DEF Live
  <2> QED
    BY <2>4, <2>5, <2>6 DEF BudgetInv
<1>3. ASSUME NEW w \in Workers,
             LoadFails(w) \/ ReplayHit(w) \/ Refuse(w) \/ SpawnFails(w) \/ Crash(w)
      PROVE  BudgetInv'
  <2>1. Live(w) /\ Goto(w, "none") /\ stateFile' = stateFile /\ execs' = execs
    BY <1>3 DEF LoadFails, ReplayHit, Refuse, SpawnFails, Crash, Live
  <2>2. proc'[w].pc = "none" /\ \A v \in Workers \ {w} : proc'[v] = proc[v]
    BY <2>1 DEF Goto, Proc
  <2>3. ~Live(w)'
    BY <2>2 DEF Live
  <2> QED
    BY <2>1, <2>2, <2>3, BudgetFrame DEF BudgetInv
<1>4. ASSUME NEW w \in Workers, FirstAttempt(w) PROVE BudgetInv'
  <2>1. Live(w) /\ stateFile' = stateFile /\ execs' = execs
    BY <1>4 DEF FirstAttempt, Live
  <2>2. LiveInv(w)
    BY <2>1 DEF BudgetInv
  <2>3. start_attempt(w) = initial_attempt /\ ~replay_hit(w) /\ Parses
    BY <1>4, <2>2 DEF FirstAttempt, start_attempt, LiveInv
  <2>4. initial_attempt \in Nat /\ execs <= initial_attempt
    BY <2>3 DEF initial_attempt, BudgetInv, Parses, StateRec, Attempts
  <2>5. Outcome = "succeeded" => stateFile.replay # proc[w].replay
    <3>1. SUFFICES ASSUME Outcome = "succeeded" PROVE stateFile.replay # proc[w].replay
      OBVIOUS
    <3>2. stateFile \in StateRec /\ stateFile.status = "Succeeded"
      BY <3>1 DEF Outcome
    <3>3. stateFile # NoFile /\ ~proc[w].force
      BY <2>2, <3>2, FileAssumption DEF LiveInv
    <3> QED
      BY <2>3, <3>2, <3>3 DEF replay_hit
  <2>6. CASE EnterAttempt(w, initial_attempt + 1)
    <3>1. /\ proc'[w].pc = "truncate" /\ proc'[w].attempt = initial_attempt + 1
          /\ proc'[w].status = "Running" /\ proc'[w].force = proc[w].force
          /\ proc'[w].replay = proc[w].replay
          /\ \A v \in Workers \ {w} : proc'[v] = proc[v]
      BY <2>6 DEF EnterAttempt, Proc
    <3>2. Outcome' = Outcome
      BY <2>1 DEF Outcome
    <3>3. LiveInv(w)'
      BY <2>1, <2>2, <2>4, <2>5, <3>1, <3>2 DEF LiveInv, InAttempt, Started, AfterSave
    <3> QED
      BY <2>1, <3>1, <3>3, BudgetFrame DEF BudgetInv
  <2>7. CASE Goto(w, "none")
    <3>1. proc'[w].pc = "none" /\ \A v \in Workers \ {w} : proc'[v] = proc[v]
      BY <2>7 DEF Goto, Proc
    <3>2. ~Live(w)'
      BY <3>1 DEF Live
    <3> QED
      BY <2>1, <3>1, <3>2, BudgetFrame DEF BudgetInv
  <2> QED
    BY <1>4, <2>3, <2>6, <2>7 DEF FirstAttempt
<1>5. ASSUME NEW w \in Workers, Truncate(w) PROVE BudgetInv'
  <2>1. Live(w) /\ Goto(w, "write") /\ stateFile' = Empty /\ execs' = execs
    BY <1>5 DEF Truncate, Live
  <2>2. LiveInv(w) /\ proc[w].pc = "truncate"
    BY <1>5, <2>1 DEF BudgetInv, Truncate
  <2>3. /\ proc'[w].pc = "write" /\ proc'[w].attempt = proc[w].attempt
        /\ proc'[w].status = proc[w].status /\ proc'[w].force = proc[w].force
        /\ \A v \in Workers \ {w} : proc'[v] = proc[v]
    BY <2>1 DEF Goto, Proc
  <2>4. LiveInv(w)'
    BY <2>1, <2>2, <2>3 DEF LiveInv, InAttempt, Started, AfterSave
  <2> QED
    BY <2>1, <2>3, <2>4, FileAssumption, BudgetFrame DEF BudgetInv
<1>6. ASSUME NEW w \in Workers, WriteState(w) PROVE BudgetInv'
  <2>1. Live(w) /\ execs' = execs /\ proc[w].pc = "write"
    BY <1>6 DEF WriteState, Live
  <2>2. LiveInv(w)
    BY <2>1 DEF BudgetInv
  <2>3. stateFile' = runtime(w)
    BY <1>6, <2>1, <2>2 DEF WriteState, LiveInv
  <2>4. /\ proc'[w].pc = "exists" /\ proc'[w].attempt = proc[w].attempt
        /\ proc'[w].status = proc[w].status /\ proc'[w].force = proc[w].force
        /\ proc'[w].replay = proc[w].replay
        /\ \A v \in Workers \ {w} : proc'[v] = proc[v]
    BY <1>6 DEF WriteState, Proc
  <2>5. runtime(w)' = runtime(w)
    BY <2>4 DEF runtime
  <2>6. LiveInv(w)'
    BY <2>1, <2>2, <2>3, <2>4, <2>5 DEF LiveInv, InAttempt, Started, AfterSave
  <2>7. execs <= proc[w].attempt
    BY <2>1, <2>2 DEF LiveInv, InAttempt
  <2> QED
    BY <2>1, <2>3, <2>4, <2>6, <2>7, FileAssumption, BudgetFrame DEF BudgetInv
<1>7. ASSUME NEW w \in Workers, CheckExists(w) \/ CreateLog(w) PROVE BudgetInv'
  <2>1. Live(w) /\ stateFile' = stateFile /\ execs' = execs /\ proc[w].pc \in {"exists", "create"}
    BY <1>7 DEF CheckExists, CreateLog, Live
  <2>2. LiveInv(w)
    BY <2>1 DEF BudgetInv
  <2>3. /\ proc'[w].pc \in {"create", "append", "fill"} /\ proc'[w].attempt = proc[w].attempt
        /\ proc'[w].status = proc[w].status /\ proc'[w].force = proc[w].force
        /\ proc'[w].replay = proc[w].replay
        /\ \A v \in Workers \ {w} : proc'[v] = proc[v]
    BY <1>7 DEF CheckExists, CreateLog, Goto, Proc
  <2>4. runtime(w)' = runtime(w)
    BY <2>3 DEF runtime
  <2>5. LiveInv(w)'
    BY <2>1, <2>2, <2>3, <2>4 DEF LiveInv, InAttempt, Started, AfterSave
  <2> QED
    BY <2>1, <2>3, <2>5, BudgetFrame DEF BudgetInv
<1>8. ASSUME NEW w \in Workers, FillLog(w) \/ AppendLog(w) PROVE BudgetInv'
  <2>1. /\ Live(w) /\ stateFile' = stateFile /\ execs' = execs /\ AfterAppend(w)
        /\ proc[w].pc \in {"fill", "append"}
    BY <1>8 DEF FillLog, AppendLog, Live
  <2>2. LiveInv(w)
    BY <2>1 DEF BudgetInv
  <2>3. \A v \in Workers \ {w} : proc'[v] = proc[v]
    BY <2>1, AfterAppendCases
  <2>4. CASE \/ proc' = [proc EXCEPT ![w] = [@ EXCEPT !.pc = "exists", !.log = "health"]]
             \/ proc[w].status = "Running" /\ Goto(w, "spawn")
    <3>1. /\ proc'[w].pc \in {"exists", "spawn"} /\ proc'[w].attempt = proc[w].attempt
          /\ proc'[w].status = proc[w].status /\ proc'[w].force = proc[w].force
          /\ proc'[w].replay = proc[w].replay
          /\ proc'[w].pc = "spawn" => proc[w].status = "Running"
      <4>1. CASE proc' = [proc EXCEPT ![w] = [@ EXCEPT !.pc = "exists", !.log = "health"]]
        BY <4>1 DEF Proc
      <4>2. CASE proc[w].status = "Running" /\ Goto(w, "spawn")
        BY <4>2 DEF Goto, Proc
      <4> QED
        BY <2>4, <4>1, <4>2
    <3>2. runtime(w)' = runtime(w)
      BY <3>1 DEF runtime
    <3>3. LiveInv(w)'
      BY <2>1, <2>2, <3>1, <3>2 DEF LiveInv, InAttempt, Started, AfterSave
    <3> QED
      BY <2>1, <2>3, <3>3, BudgetFrame DEF BudgetInv
  <2>5. CASE proc[w].status = "RetryScheduled" /\ EnterAttempt(w, proc[w].attempt + 1)
    <3>1. /\ proc'[w].pc = "truncate" /\ proc'[w].attempt = proc[w].attempt + 1
          /\ proc'[w].status = "Running" /\ proc'[w].force = proc[w].force
      BY <2>5 DEF EnterAttempt, Proc
    <3>2. stateFile = runtime(w) /\ execs <= proc[w].attempt
      BY <2>1, <2>2, <2>5 DEF LiveInv, InAttempt, Started, AfterSave
    <3>3. Outcome' # "succeeded"
      BY <2>1, <2>5, <3>2 DEF Outcome
    <3>4. LiveInv(w)'
      BY <2>1, <2>2, <3>1, <3>2, <3>3 DEF LiveInv, InAttempt, Started, AfterSave
    <3> QED
      BY <2>1, <2>3, <3>4, BudgetFrame DEF BudgetInv
  <2>6. CASE Goto(w, "none")
    <3>1. ~Live(w)'
      BY <2>6 DEF Goto, Live, Proc
    <3> QED
      BY <2>1, <2>3, <3>1, BudgetFrame DEF BudgetInv
  <2> QED
    BY <2>1, <2>4, <2>5, <2>6 DEF AfterAppend
<1>9. ASSUME NEW w \in Workers, SpawnWorker(w) PROVE BudgetInv'
  <2>1. /\ Live(w) /\ stateFile' = stateFile /\ execs' = execs + 1
        /\ proc[w].pc = "spawn"
    BY <1>9 DEF SpawnWorker, Live
  <2>2. LiveInv(w)
    BY <2>1 DEF BudgetInv
  <2>3. stateFile = runtime(w) /\ proc[w].status = "Running" /\ execs < proc[w].attempt
    BY <2>1, <2>2 DEF LiveInv, InAttempt, Started, AfterSave
  <2>4. /\ proc'[w].pc = "wait" /\ proc'[w].attempt = proc[w].attempt
        /\ proc'[w].status = proc[w].status /\ proc'[w].force = proc[w].force
        /\ proc'[w].replay = proc[w].replay
        /\ \A v \in Workers \ {w} : proc'[v] = proc[v]
    BY <1>9 DEF SpawnWorker, Proc
  <2>5. runtime(w)' = runtime(w)
    BY <2>4 DEF runtime
  <2>6. LiveInv(w)'
    BY <2>1, <2>2, <2>3, <2>4, <2>5 DEF LiveInv, InAttempt, Started, AfterSave
  <2>7. execs' <= proc[w].attempt
    BY <2>1, <2>3
  <2>8. execs' <= MaxRetries + 1 /\ (stateFile' \in StateRec => execs' <= stateFile'.attempt)
    BY <2>1, <2>3, <2>7
  <2>9. stateFile' # NoFile
    BY <2>1, <2>3, FileAssumption
  <2> QED
    BY <2>1, <2>4, <2>6, <2>8, <2>9, BudgetFrame
<1>10. ASSUME NEW w \in Workers, WorkerSucceeds(w) \/ WorkerFails(w) PROVE BudgetInv'
  <2>1. Live(w) /\ stateFile' = stateFile /\ execs' = execs /\ proc[w].pc = "wait"
    BY <1>10 DEF WorkerSucceeds, WorkerFails, Live
  <2>2. LiveInv(w)
    BY <2>1 DEF BudgetInv
  <2>3. /\ stateFile = runtime(w) /\ proc[w].status = "Running"
        /\ execs <= proc[w].attempt /\ execs > 0
    BY <2>1, <2>2 DEF LiveInv, InAttempt, Started, AfterSave
  <2>4. /\ proc'[w].pc = "truncate" /\ proc'[w].attempt = proc[w].attempt
        /\ proc'[w].status # "Running" /\ proc'[w].force = proc[w].force
        /\ \A v \in Workers \ {w} : proc'[v] = proc[v]
    <3>1. terminal_status_for_failure(proc[w].attempt, proc[w].limit) # "Running"
      BY DEF terminal_status_for_failure
    <3> QED
      <4>1. CASE WorkerSucceeds(w)
        BY <4>1 DEF WorkerSucceeds, Proc
      <4>2. CASE WorkerFails(w)
        BY <3>1, <4>2 DEF WorkerFails, Proc
      <4> QED
        BY <1>10, <4>1, <4>2
  <2>5. Outcome' = "open"
    BY <2>1, <2>3 DEF Outcome
  <2>6. LiveInv(w)'
    BY <2>1, <2>2, <2>3, <2>4, <2>5 DEF LiveInv, InAttempt, Started, AfterSave
  <2> QED
    BY <2>1, <2>4, <2>6, BudgetFrame DEF BudgetInv
<1>11. CASE UNCHANGED vars
  BY <1>11 DEF vars, BudgetInv, Live, LiveInv, InAttempt, Started, runtime, Outcome
<1> QED
  BY <1>1, <1>2, <1>3, <1>4, <1>5, <1>6, <1>7, <1>8, <1>9, <1>10, <1>11
     DEF Next, cmd_run

\* Nothing has been started when the first process comes up.
LEMMA BudgetInit == Init => BudgetInv
<1> SUFFICES ASSUME Init PROVE BudgetInv
  OBVIOUS
<1>0. PICK n \in RetryLimits :
        proc = [w \in Workers |->
                  [pc |-> "none", replay |-> manifest, read |-> manifest, limit |-> n,
                   force |-> FALSE, edited |-> FALSE, attempt |-> 0,
                   status |-> "Running", log |-> "audit"]]
  BY DEF Init
<1>1. \A w \in Workers : ~Live(w)
  BY <1>0 DEF Live
<1> QED
  BY <1>1, RetryAssumption, FileAssumption DEF Init, BudgetInv

\* For every number of workers, manifests and invocations: as long as the
\* processes do not overlap and nobody forces, the worker command of the job is
\* started at most MaxRetries + 1 times, whatever crashes happen in between.
THEOREM BudgetKept == Spec => []RetryBudget
<1>1. CASE Exclusive /\ ~AllowForce
  <2>1. BudgetInv => RetryBudget
    BY DEF BudgetInv, RetryBudget
  <2>2. TypeInv /\ BudgetInv /\ [Next]_vars => BudgetInv'
    BY <1>1, BudgetStep
  <2> QED
    BY TypeInit, TypeStep, BudgetInit, <2>1, <2>2, PTL DEF Spec
<1>2. CASE ~(Exclusive /\ ~AllowForce)
  <2>1. RetryBudget
    BY <1>2 DEF RetryBudget
  <2> QED
    BY <2>1, PTL
<1> QED
  BY <1>1, <1>2

-----------------------------------------------------------------------------
(* The assignment audit.                                                   *)

\* A line that is appended to the audit, and one to an empty audit.
LEMMA AuditAppended ==
    ASSUME TypeOK, NEW line \in Line, logs["audit"] # NoFile,
           logs' = [logs EXCEPT !["audit"] = Append(@, line)]
    PROVE  /\ AuditLines' = AuditLines \cup {Len(AuditLog) + 1}
           /\ Len(AuditLog) + 1 \notin AuditLines
           /\ \A i \in AuditLines : AuditLog'[i] = AuditLog[i]
           /\ AuditLog'[Len(AuditLog) + 1] = line
           /\ IsFiniteSet(AuditLines)
  <1> DEFINE old == logs["audit"]
             new == Append(old, line)
  <1>1. old \in Seq(Line \cup {Garbled}) /\ Len(old) \in Nat
    BY Labels DEF TypeOK
  <1>2. logs'["audit"] = new
    BY Labels DEF TypeOK
  <1>3. /\ Len(new) = Len(old) + 1 /\ new[Len(old) + 1] = line
        /\ \A i \in 1..Len(old) : new[i] = old[i]
        /\ new \in Seq(Line \cup {Garbled})
    BY <1>1
  <1>4. AuditLog = old /\ AuditLog' = new
    BY <1>2, <1>3, FileAssumption DEF AuditLog
  <1>5. IsFiniteSet(AuditLines)
    <2>1. IsFiniteSet(1..Len(AuditLog))
      BY <1>1, <1>4, FS_Interval
    <2>2. AuditLines \subseteq 1..Len(AuditLog)
      BY DEF AuditLines
    <2> QED
      BY <2>1, <2>2, FS_Subset
  <1> HIDE DEF old, new
  <1> QED
    BY <1>1, <1>3, <1>4, <1>5, FileAssumption DEF AuditLines

LEMMA AuditFinite ==
    ASSUME TypeOK
    PROVE  IsFiniteSet(AuditLines) /\ Cardinality(AuditLines) \in Nat
  <1>1. AuditLog \in Seq(Line \cup {Garbled})
    BY Labels DEF TypeOK, AuditLog
  <1>2. Len(AuditLog) \in Nat
    BY <1>1
  <1>3. IsFiniteSet(1..Len(AuditLog))
    BY <1>2, FS_Interval
  <1>4. AuditLines \subseteq 1..Len(AuditLog)
    BY DEF AuditLines
  <1>5. IsFiniteSet(AuditLines)
    BY <1>3, <1>4, FS_Subset
  <1> QED
    BY <1>5, FS_CardinalityType

\* The processes whose current attempt has its line, and no command yet.
Announced ==
    {w \in Workers : \/ proc[w].pc = "spawn"
                     \/ /\ proc[w].pc \in {"exists", "append"}
                        /\ proc[w].log = "health" /\ proc[w].status = "Running"}

\* Where the logs exist, no process creates them.
CoverInv ==
    /\ \A l \in Log : logs[l] # NoFile
    /\ \A w \in Workers : proc[w].pc \notin {"create", "fill"}
    /\ execs + Cardinality(Announced) <= Cardinality(AuditLines)

LEMMA AnnouncedFinite == IsFiniteSet(Announced) /\ Cardinality(Announced) \in Nat
  BY WorkersAssumption, FS_Subset, FS_CardinalityType DEF Announced

\* A step that announces nothing and leaves the logs alone.
LEMMA CoverFrame ==
    ASSUME TypeInv, CoverInv, NEW w \in Workers,
           \A v \in Workers \ {w} : proc'[v] = proc[v],
           proc'[w].pc \notin {"create", "fill", "spawn"},
           proc'[w].pc \in {"exists", "append"} /\ proc'[w].log = "health"
               /\ proc'[w].status = "Running" => w \in Announced,
           logs' = logs, execs' = execs
    PROVE  CoverInv'
  <1>1. Announced' \subseteq Announced
    BY DEF Announced
  <1>2. Cardinality(Announced') \in Nat /\ Cardinality(Announced') <= Cardinality(Announced)
    BY <1>1, AnnouncedFinite, FS_Subset, FS_CardinalityType
  <1>3. AuditLines' = AuditLines
    BY DEF AuditLines, AuditLog
  <1>4. Cardinality(Announced) \in Nat /\ Cardinality(AuditLines) \in Nat /\ execs \in Nat
    BY AnnouncedFinite, AuditFinite DEF TypeInv, TypeOK
  <1> QED
    BY <1>2, <1>3, <1>4 DEF CoverInv

LEMMA CoverStep == RuntimeDirUsed /\ TypeInv /\ CoverInv /\ [Next]_vars => CoverInv'
  <1> SUFFICES ASSUME TypeInv, CoverInv, [Next]_vars PROVE CoverInv'
    OBVIOUS
  <1>0. /\ TypeOK /\ proc \in [Workers -> Proc] /\ execs \in Nat
        /\ logs \in [Log -> Seq(Line \cup {Garbled}) \cup {NoFile}]
    BY DEF TypeInv, TypeOK
  <1>00. \A v \in Workers : /\ proc[v] \in Proc /\ proc[v].log \in Log
                            /\ proc[v].attempt \in Attempts /\ proc[v].status \in Status
    BY <1>0 DEF Proc
  <1>000. /\ IsFiniteSet(Announced) /\ Cardinality(Announced) \in Nat
          /\ IsFiniteSet(AuditLines) /\ Cardinality(AuditLines) \in Nat
    BY <1>0, AnnouncedFinite, AuditFinite
  <1>1. CASE EditManifest \/ UNCHANGED vars
    <2>1. /\ logs' = logs /\ execs' = execs
          /\ \A v \in Workers : /\ proc'[v].pc = proc[v].pc /\ proc'[v].log = proc[v].log
                                 /\ proc'[v].status = proc[v].status
      BY <1>0, <1>1, EditFrame DEF vars
    <2>2. Announced' = Announced /\ AuditLines' = AuditLines
      BY <2>1 DEF Announced, AuditLines, AuditLog
    <2> QED
      BY <2>1, <2>2 DEF CoverInv
  <1>2. ASSUME NEW w \in Workers,
               \/ LoadFails(w) \/ ReplayHit(w) \/ Refuse(w) \/ SpawnFails(w) \/ Crash(w)
               \/ Truncate(w) \/ CheckExists(w)
        PROVE  CoverInv'
    <2>1. logs' = logs /\ execs' = execs
      BY <1>2 DEF LoadFails, ReplayHit, Refuse, SpawnFails, Crash, Truncate, CheckExists
    <2>2. /\ \A v \in Workers \ {w} : proc'[v] = proc[v]
          /\ proc'[w].pc \in {"none", "write"}
             \/ /\ proc[w].pc = "exists" /\ proc'[w].pc = "append"
                /\ proc'[w].log = proc[w].log /\ proc'[w].status = proc[w].status
      <3>1. CASE CheckExists(w)
        <4>1. Goto(w, "append") /\ proc[w].pc = "exists"
          BY <1>00, <3>1 DEF CheckExists, CoverInv
        <4> QED
          BY <1>0, <1>00, <4>1 DEF Goto, Proc
      <3>2. CASE Goto(w, "none") \/ Goto(w, "write")
        BY <1>0, <1>00, <3>2 DEF Goto, Proc
      <3> QED
        BY <1>2, <3>1, <3>2 DEF LoadFails, ReplayHit, Refuse, SpawnFails, Crash, Truncate
    <2> QED
      BY <2>1, <2>2, CoverFrame DEF Announced
  <1>3. ASSUME NEW w \in Workers,
               \/ Invoke(w) \/ FirstAttempt(w) \/ WriteState(w)
               \/ WorkerSucceeds(w) \/ WorkerFails(w)
        PROVE  CoverInv'
    <2>1. logs' = logs /\ execs' = execs
      BY <1>3 DEF Invoke, FirstAttempt, WriteState, WorkerSucceeds, WorkerFails
    <2>2. /\ \A v \in Workers \ {w} : proc'[v] = proc[v]
          /\ \/ proc'[w].pc \in {"load", "truncate", "none"}
             \/ proc'[w].pc = "exists" /\ (proc'[w].log = "health" => proc'[w].status # "Running")
      <3>1. CASE Invoke(w)
        <4>1. PICK limit \in RetryLimits, force \in BOOLEAN :
                proc' = [proc EXCEPT ![w] = [@ EXCEPT !.pc = "load", !.replay = manifest,
                                                      !.read = manifest, !.edited = FALSE,
                                                      !.limit = limit, !.force = force]]
          BY <3>1 DEF Invoke
        <4> QED
          BY <1>0, <1>00, <4>1 DEF Proc
      <3>2. CASE FirstAttempt(w)
        <4>1. EnterAttempt(w, start_attempt(w) + 1) \/ Goto(w, "none")
          BY <3>2 DEF FirstAttempt
        <4> QED
          BY <1>0, <1>00, <4>1 DEF EnterAttempt, Goto, Proc
      <3>3. CASE WriteState(w)
        <4>1. proc' = [proc EXCEPT ![w] = [@ EXCEPT !.pc = "exists", !.log = FirstLog(w)]]
          BY <3>3 DEF WriteState
        <4>2. /\ \A v \in Workers \ {w} : proc'[v] = proc[v]
              /\ proc'[w].pc = "exists" /\ proc'[w].log = FirstLog(w)
              /\ proc'[w].status = proc[w].status
          BY <1>0, <1>00, <4>1 DEF Proc
        <4> QED
          BY <4>2 DEF FirstLog
      <3>4. CASE WorkerSucceeds(w)
        BY <1>0, <1>00, <3>4 DEF WorkerSucceeds, Proc
      <3>5. CASE WorkerFails(w)
        BY <1>0, <1>00, <3>5 DEF WorkerFails, Proc
      <3> QED
        BY <1>3, <3>1, <3>2, <3>3, <3>4, <3>5
    <2> QED
      BY <2>1, <2>2, CoverFrame
  <1>4. ASSUME NEW w \in Workers, AppendLog(w) PROVE CoverInv'
    <2> DEFINE line == LogLine(w)
    <2>1. line \in Line
      BY <1>00 DEF LogLine, Line
    <2>2. /\ proc[w].pc = "append" /\ AfterAppend(w) /\ execs' = execs
          /\ logs' = [logs EXCEPT ![proc[w].log] = Kept(proc[w].log, Append(@, line))]
      BY <1>4 DEF AppendLog
    <2> HIDE DEF line
    <2>3. /\ proc'[w].pc \in {"exists", "spawn", "truncate", "none"}
          /\ \A v \in Workers \ {w} : proc'[v] = proc[v]
      BY <1>0, <2>2, AfterAppendCases
    <2>4. \A l \in Log : logs'[l] # NoFile
      <3>1. \A l \in Log : logs[l] \in Seq(Line \cup {Garbled})
        BY <1>0 DEF CoverInv
      <3>2a. Append(logs[proc[w].log], line) \in Seq(Line \cup {Garbled})
        BY <1>00, <2>1, <3>1
      <3>2. Kept(proc[w].log, Append(logs[proc[w].log], line)) \in Seq(Line \cup {Garbled})
        BY <3>2a DEF Kept
      <3> QED
        BY <1>0, <1>00, <2>2, <3>1, <3>2, FileAssumption
    <2>5. CASE proc[w].log = "audit"
      <3>1. /\ AuditLines' = AuditLines \cup {Len(AuditLog) + 1}
            /\ Len(AuditLog) + 1 \notin AuditLines
        BY <1>0, <2>1, <2>2, <2>5, Labels, AuditAppended DEF CoverInv, Kept
      <3>2. Cardinality(AuditLines') = Cardinality(AuditLines) + 1
        BY <1>000, <3>1, FS_AddElement
      <3>3. Announced' \subseteq Announced \cup {w}
        BY <2>3 DEF Announced
      <3>4. /\ Cardinality(Announced') \in Nat
            /\ Cardinality(Announced') <= Cardinality(Announced) + 1
        <4>1. /\ IsFiniteSet(Announced \cup {w})
              /\ Cardinality(Announced \cup {w}) <= Cardinality(Announced) + 1
              /\ Cardinality(Announced \cup {w}) \in Nat
          <5>1. /\ IsFiniteSet(Announced \cup {w})
                /\ Cardinality(Announced \cup {w})
                     = IF w \in Announced THEN Cardinality(Announced)
                                          ELSE Cardinality(Announced) + 1
            BY <1>000, FS_AddElement
          <5> QED
            BY <1>000, <5>1
        <4> QED
          BY <1>000, <3>3, <4>1, FS_Subset, FS_CardinalityType
      <3> QED
        <4>1. execs' + Cardinality(Announced') <= Cardinality(AuditLines')
          BY <1>0, <1>000, <2>2, <3>2, <3>4 DEF CoverInv
        <4>2. \A v \in Workers : proc'[v].pc \notin {"create", "fill"}
          BY <2>3 DEF CoverInv
        <4> QED
          BY <2>4, <4>1, <4>2 DEF CoverInv
    <2>6. CASE proc[w].log = "health"
      <3>1. AuditLines' = AuditLines
        BY <1>0, <2>2, <2>6, Labels DEF AuditLines, AuditLog
      <3>2. w \in Announced' => w \in Announced
        <4>1. CASE proc[w].status = "Running"
          BY <2>2, <2>6, <4>1 DEF Announced
        <4>2. CASE proc[w].status # "Running"
          <5>1. EnterAttempt(w, proc[w].attempt + 1) \/ Goto(w, "none")
            BY <2>2, <2>6, <4>2 DEF AfterAppend
          <5>2. proc'[w].pc \in {"truncate", "none"}
            BY <1>0, <1>00, <5>1 DEF EnterAttempt, Goto, Proc
          <5> QED
            BY <5>2 DEF Announced
        <4> QED
          BY <4>1, <4>2
      <3>3. Announced' \subseteq Announced
        BY <2>3, <3>2 DEF Announced
      <3>4. Cardinality(Announced') \in Nat /\ Cardinality(Announced') <= Cardinality(Announced)
        BY <1>000, <3>3, FS_Subset, FS_CardinalityType
      <3> QED
        <4>1. execs' + Cardinality(Announced') <= Cardinality(AuditLines')
          BY <1>0, <1>000, <2>2, <3>1, <3>4 DEF CoverInv
        <4>2. \A v \in Workers : proc'[v].pc \notin {"create", "fill"}
          BY <2>3 DEF CoverInv
        <4> QED
          BY <2>4, <4>1, <4>2 DEF CoverInv
    <2> QED
      BY <1>00, <2>5, <2>6 DEF Log
  <1>5. ASSUME NEW w \in Workers, SpawnWorker(w) PROVE CoverInv'
    <2>1. /\ proc[w].pc = "spawn" /\ logs' = logs /\ execs' = execs + 1
          /\ proc'[w].pc = "wait" /\ \A v \in Workers \ {w} : proc'[v] = proc[v]
      BY <1>0, <1>00, <1>5 DEF SpawnWorker, Proc
    <2>2. Announced' = Announced \ {w} /\ w \in Announced
      BY <2>1 DEF Announced
    <2>3. Cardinality(Announced') = Cardinality(Announced) - 1
      BY <1>000, <2>2, FS_RemoveElement
    <2>4. AuditLines' = AuditLines
      BY <2>1 DEF AuditLines, AuditLog
    <2>5. execs' + Cardinality(Announced') <= Cardinality(AuditLines')
      BY <1>0, <1>000, <2>1, <2>3, <2>4 DEF CoverInv
    <2>6. \A v \in Workers : proc'[v].pc \notin {"create", "fill"}
      BY <2>1 DEF CoverInv
    <2> QED
      BY <2>1, <2>5, <2>6 DEF CoverInv
  <1>6. ASSUME NEW w \in Workers, CreateLog(w) \/ FillLog(w) PROVE CoverInv'
    BY <1>6 DEF CreateLog, FillLog, CoverInv
  <1> QED
    BY <1>1, <1>2, <1>3, <1>4, <1>5, <1>6 DEF Next, cmd_run

LEMMA CoverInit == RuntimeDirUsed /\ Init => CoverInv
  <1> SUFFICES ASSUME RuntimeDirUsed, Init PROVE CoverInv
    OBVIOUS
  <1>1. /\ \A l \in Log : logs[l] = <<>>
        /\ \A w \in Workers : proc[w].pc = "none"
        /\ execs = 0
    BY DEF Init
  <1>2. <<>> # NoFile
    <2>1. <<>> \in Seq(Line \cup {Garbled})
      OBVIOUS
    <2> QED
      BY <2>1, FileAssumption
  <1>3. Announced = {}
    BY <1>1 DEF Announced
  <1>4. AuditLines = {}
    BY <1>1, Labels DEF AuditLines, AuditLog
  <1> QED
    BY <1>1, <1>2, <1>3, <1>4, FS_EmptySet DEF CoverInv

\* Where the logs exist, every started command has a line of its own in the
\* assignment audit: for any number of overlapping, forced, crashing runners.
THEOREM RunsAudited == Spec => [](RuntimeDirUsed => AuditCoversRuns)
  <1>1. CASE RuntimeDirUsed
    <2>1. TypeInv /\ CoverInv => AuditCoversRuns
      <3> SUFFICES ASSUME TypeInv, CoverInv PROVE AuditCoversRuns
        OBVIOUS
      <3> QED
        BY AnnouncedFinite, AuditFinite DEF TypeInv, TypeOK, CoverInv, AuditCoversRuns
    <2>2. Init => CoverInv
      BY <1>1, CoverInit
    <2>3. TypeInv /\ CoverInv /\ [Next]_vars => CoverInv'
      BY <1>1, CoverStep
    <2>4. AuditCoversRuns => (RuntimeDirUsed => AuditCoversRuns)
      OBVIOUS
    <2> QED
      BY TypeInit, TypeStep, <2>1, <2>2, <2>3, <2>4, PTL DEF Spec
  <1>2. CASE ~RuntimeDirUsed
    <2>1. RuntimeDirUsed => AuditCoversRuns
      BY <1>2
    <2> QED
      BY <2>1, PTL
  <1> QED
    BY <1>1, <1>2

-----------------------------------------------------------------------------
(* The ids of the assignment audit.  Without overlap and without --force   *)
(* the saved attempt bounds every announced one, and a process announces   *)
(* an attempt only after it has saved a larger number than any before.     *)

AuditUpTo(n) == \A i \in AuditLines : AuditLog[i].attempt <= n

AuditBelow(n) == \A i \in AuditLines : AuditLog[i].attempt < n

\* The steps of append_jsonl.
Appending == {"exists", "create", "fill", "append"}

\* The line of the current attempt is still to be written.
ToAnnounce(w) ==
    \/ proc[w].pc \in {"truncate", "write"} /\ proc[w].status = "Running"
    \/ proc[w].pc \in Appending /\ proc[w].log = "audit"

LiveAudit(w) ==
    /\ InAttempt(w) => AuditUpTo(proc[w].attempt)
    /\ ToAnnounce(w) => AuditBelow(proc[w].attempt)
    /\ proc[w].pc \in {"create", "fill"} /\ proc[w].log = "audit" => AuditLog = <<>>

AuditInv ==
    /\ AuditIdsUnique
    /\ stateFile = NoFile => AuditLines = {}
    /\ stateFile \in StateRec => AuditUpTo(stateFile.attempt)
    /\ \A w \in Workers : Live(w) => LiveAudit(w)

\* A readable line carries an attempt number.
LEMMA AuditAttempts ==
    ASSUME TypeOK
    PROVE  \A i \in AuditLines : AuditLog[i].attempt \in Nat
  <1>1. AuditLog \in Seq(Line \cup {Garbled})
    BY Labels DEF TypeOK, AuditLog
  <1>2. \A i \in AuditLines : AuditLog[i] \in Line
    BY <1>1 DEF AuditLines
  <1> QED
    BY <1>2, RetryAssumption DEF Line, Attempts

\* A step of the only live process that leaves the audit as it is.
LEMMA AuditFrame ==
    ASSUME BudgetInv, AuditInv, NEW w \in Workers, Live(w),
           \A v \in Workers \ {w} : proc'[v] = proc[v],
           AuditLog' = AuditLog,
           stateFile' = NoFile => AuditLines = {},
           stateFile' \in StateRec => AuditUpTo(stateFile'.attempt),
           Live(w)' => LiveAudit(w)'
    PROVE  AuditInv'
  <1>1. \A v \in Workers \ {w} : ~Live(v)'
    BY DEF BudgetInv, Live
  <1>2. AuditLines' = AuditLines
    BY DEF AuditLines
  <1>3. AuditIdsUnique'
    BY <1>2 DEF AuditInv, AuditIdsUnique
  <1>4. stateFile' \in StateRec => AuditUpTo(stateFile.attempt)'
    BY <1>2 DEF AuditUpTo
  <1>5. \A v \in Workers : Live(v)' => LiveAudit(v)'
    BY <1>1
  <1> QED
    BY <1>2, <1>3, <1>4, <1>5 DEF AuditInv

\* The same where the process stays within its attempt, or ends.
LEMMA AuditSameAttempt ==
    ASSUME BudgetInv, AuditInv, NEW w \in Workers, Live(w),
           \A v \in Workers \ {w} : proc'[v] = proc[v],
           AuditLog' = AuditLog, stateFile' = stateFile,
           \/ proc'[w].pc = "none"
           \/ /\ InAttempt(w) /\ proc'[w].attempt = proc[w].attempt
              /\ ToAnnounce(w)' => ToAnnounce(w)
              /\ ~(proc'[w].pc \in {"create", "fill"} /\ proc'[w].log = "audit")
    PROVE  AuditInv'
  <1>1. AuditLines' = AuditLines
    BY DEF AuditLines
  <1>2. Live(w)' => LiveAudit(w)'
    BY <1>1 DEF AuditInv, LiveAudit, AuditUpTo, AuditBelow, Live
  <1> QED
    BY <1>2, AuditFrame DEF AuditInv

\* The audit gets the line of the process that announces its attempt.
LEMMA AuditGrows ==
    ASSUME TypeInv, BudgetInv, AuditInv, NEW w \in Workers,
           proc[w].pc \in {"fill", "append"}, proc[w].log = "audit",
           FillLog(w) \/ AppendLog(w)
    PROVE  /\ AuditIdsUnique'
           /\ \A i \in AuditLines' : AuditLog'[i].attempt <= proc[w].attempt
  <1>0. /\ proc[w].attempt \in Nat /\ LogLine(w) \in Line
        /\ LogLine(w).attempt = proc[w].attempt
        /\ logs["audit"] # NoFile /\ logs["audit"] \in Seq(Line \cup {Garbled})
        /\ logs \in [Log -> Seq(Line \cup {Garbled}) \cup {NoFile}]
        /\ TypeOK
    BY Labels, RetryAssumption
       DEF TypeInv, TypeOK, LogSeen, Proc, Attempts, LogLine, Line
  <1>1. /\ LiveAudit(w) /\ ToAnnounce(w)
    BY DEF AuditInv, Live, ToAnnounce, Appending
  <1>2. \A i \in AuditLines : AuditLog[i].attempt < proc[w].attempt
    BY <1>1 DEF LiveAudit, AuditBelow
  <1>3. CASE AppendLog(w)
    <2>1. logs' = [logs EXCEPT !["audit"] = Append(@, LogLine(w))]
      BY <1>3 DEF AppendLog, Kept
    <2> DEFINE line == LogLine(w)
    <2>2. line \in Line /\ line.attempt = proc[w].attempt
      BY <1>0
    <2> HIDE DEF line
    <2>3. /\ AuditLines' = AuditLines \cup {Len(AuditLog) + 1}
          /\ Len(AuditLog) + 1 \notin AuditLines
          /\ \A i \in AuditLines : AuditLog'[i] = AuditLog[i]
          /\ AuditLog'[Len(AuditLog) + 1] = line
      BY <1>0, <2>1, <2>2, AuditAppended DEF line
    <2>4. \A i \in AuditLines' : AuditLog'[i].attempt <= proc[w].attempt
      BY <1>0, <1>2, <2>2, <2>3, AuditAttempts
    <2>5. AuditIdsUnique'
      <3>1. SUFFICES ASSUME NEW i \in AuditLines', NEW j \in AuditLines',
                            AuditLog'[i].attempt = AuditLog'[j].attempt
                     PROVE  i = j
        BY DEF AuditIdsUnique
      <3>2. CASE i \in AuditLines /\ j \in AuditLines
        BY <2>3, <3>1, <3>2 DEF AuditInv, AuditIdsUnique
      <3>3. CASE i \in AuditLines /\ j = Len(AuditLog) + 1
        <4>1. AuditLog[i].attempt < proc[w].attempt /\ AuditLog[i].attempt \in Nat
          BY <1>0, <1>2, <3>3, AuditAttempts
        <4> QED
          BY <1>0, <2>2, <2>3, <3>1, <3>3, <4>1
      <3>4. CASE j \in AuditLines /\ i = Len(AuditLog) + 1
        <4>1. AuditLog[j].attempt < proc[w].attempt /\ AuditLog[j].attempt \in Nat
          BY <1>0, <1>2, <3>4, AuditAttempts
        <4> QED
          BY <1>0, <2>2, <2>3, <3>1, <3>4, <4>1
      <3> QED
        BY <2>3, <3>2, <3>3, <3>4
    <2> QED
      BY <2>4, <2>5
  <1>4. CASE FillLog(w)
    <2>1. proc[w].pc = "fill" /\ logs["audit"] = <<>>
      BY <1>0, <1>1, <1>4 DEF FillLog, LiveAudit, AuditLog
    <2>2. logs' = [logs EXCEPT !["audit"] = <<LogLine(w)>>]
      BY <1>4, <2>1 DEF FillLog, Overwrites, Kept
    <2>3. <<LogLine(w)>> \in Seq(Line \cup {Garbled})
      BY <1>0
    <2>4. AuditLog' = <<LogLine(w)>>
      BY <1>0, <2>2, <2>3, Labels, FileAssumption DEF AuditLog
    <2>5. AuditLines' \subseteq {1}
      BY <2>4 DEF AuditLines
    <2>6. AuditLog'[1].attempt = proc[w].attempt
      BY <1>0, <2>4
    <2> QED
      BY <1>0, <2>5, <2>6 DEF AuditIdsUnique
  <1> QED
    BY <1>3, <1>4

\* Every step of an exclusive, unforced runner preserves AuditInv.
LEMMA AuditStep ==
    ASSUME Exclusive, ~AllowForce, TypeInv, BudgetInv, AuditInv, [Next]_vars
    PROVE  AuditInv'
  <1>0. /\ TypeOK /\ proc \in [Workers -> Proc]
        /\ stateFile \in StateRec \cup {NoFile, Empty, Torn}
        /\ logs \in [Log -> Seq(Line \cup {Garbled}) \cup {NoFile}]
    BY DEF TypeInv, TypeOK
  <1>00. \A v \in Workers : /\ proc[v] \in Proc /\ proc[v].attempt \in Nat
                            /\ proc[v].log \in Log
                            /\ runtime(v) \in StateRec
                            /\ runtime(v).attempt = proc[v].attempt
    BY <1>0, RetryAssumption DEF Proc, Attempts, runtime, StateRec
  <1>1. CASE EditManifest \/ UNCHANGED vars
    <2>1. /\ logs' = logs /\ stateFile' = stateFile
          /\ \A v \in Workers : /\ proc'[v].pc = proc[v].pc /\ proc'[v].log = proc[v].log
                                 /\ proc'[v].status = proc[v].status
                                 /\ proc'[v].attempt = proc[v].attempt
      BY <1>0, <1>1, EditFrame DEF vars
    <2>2. AuditLog' = AuditLog /\ AuditLines' = AuditLines
      BY <2>1 DEF AuditLog, AuditLines
    <2>3. \A w \in Workers : Live(w)' => LiveAudit(w)'
      BY <2>1, <2>2 DEF AuditInv, Live, LiveAudit, InAttempt, ToAnnounce, AuditUpTo, AuditBelow
    <2> QED
      BY <2>1, <2>2, <2>3 DEF AuditInv, AuditIdsUnique, AuditUpTo
  <1>2. ASSUME NEW w \in Workers, Invoke(w) PROVE AuditInv'
    <2>1. PICK limit \in RetryLimits, force \in BOOLEAN :
            proc' = [proc EXCEPT ![w] = [@ EXCEPT !.pc = "load", !.replay = manifest,
                                                  !.read = manifest, !.edited = FALSE,
                                                  !.limit = limit, !.force = force]]
      BY <1>2 DEF Invoke
    <2>2. /\ proc'[w].pc = "load" /\ \A v \in Workers \ {w} : proc'[v] = proc[v]
          /\ logs' = logs /\ stateFile' = stateFile
      BY <1>0, <1>00, <1>2, <2>1 DEF Invoke, Proc
    <2>3. AuditLog' = AuditLog /\ AuditLines' = AuditLines
      BY <2>2 DEF AuditLog, AuditLines
    <2>4. \A v \in Workers \ {w} : ~Live(v)'
      BY <1>2, <2>2 DEF Invoke, Live
    <2>5. LiveAudit(w)'
      BY <2>2 DEF LiveAudit, InAttempt, ToAnnounce, AfterSave, Appending
    <2>6. \A v \in Workers : Live(v)' => LiveAudit(v)'
      BY <2>4, <2>5
    <2> QED
      BY <2>2, <2>3, <2>6 DEF AuditInv, AuditIdsUnique, AuditUpTo
  <1>3. ASSUME NEW w \in Workers,
               LoadFails(w) \/ ReplayHit(w) \/ Refuse(w) \/ SpawnFails(w) \/ Crash(w)
        PROVE  AuditInv'
    <2>1. Live(w) /\ Goto(w, "none") /\ stateFile' = stateFile /\ logs' = logs
      BY <1>3 DEF LoadFails, ReplayHit, Refuse, SpawnFails, Crash, Live
    <2>2. proc'[w].pc = "none" /\ \A v \in Workers \ {w} : proc'[v] = proc[v]
      BY <1>0, <2>1 DEF Goto, Proc
    <2>3. AuditLog' = AuditLog
      BY <2>1 DEF AuditLog
    <2> QED
      BY <2>1, <2>2, <2>3, AuditSameAttempt
  <1>4. ASSUME NEW w \in Workers, FirstAttempt(w) PROVE AuditInv'
    <2>1. Live(w) /\ stateFile' = stateFile /\ logs' = logs
      BY <1>4 DEF FirstAttempt, Live
    <2>2. start_attempt(w) = initial_attempt /\ Parses
      BY <1>4, <2>1 DEF FirstAttempt, start_attempt, BudgetInv, LiveInv
    <2>3. AuditLog' = AuditLog /\ AuditLines' = AuditLines
      BY <2>1 DEF AuditLog, AuditLines
    <2>4. initial_attempt \in Nat /\ AuditUpTo(initial_attempt)
      <3>1. CASE stateFile = NoFile
        BY <3>1 DEF initial_attempt, AuditInv, AuditUpTo
      <3>2. CASE stateFile \in StateRec
        BY <3>2, FileAssumption, RetryAssumption
           DEF initial_attempt, AuditInv, StateRec, Attempts
      <3> QED
        BY <1>0, <2>2, <3>1, <3>2 DEF Parses
    <2>5. CASE EnterAttempt(w, initial_attempt + 1)
      <3>1. /\ proc'[w].pc = "truncate" /\ proc'[w].attempt = initial_attempt + 1
            /\ \A v \in Workers \ {w} : proc'[v] = proc[v]
        BY <1>0, <2>5 DEF EnterAttempt, Proc
      <3>2. \A i \in AuditLines : AuditLog[i].attempt < proc'[w].attempt
                                  /\ AuditLog[i].attempt <= proc'[w].attempt
        BY <1>0, <2>4, <3>1, AuditAttempts DEF AuditUpTo
      <3>3. LiveAudit(w)'
        BY <2>3, <3>1, <3>2 DEF LiveAudit, AuditUpTo, AuditBelow
      <3> QED
        BY <2>1, <2>3, <3>1, <3>3, AuditFrame DEF AuditInv
    <2>6. CASE Goto(w, "none")
      <3>1. proc'[w].pc = "none" /\ \A v \in Workers \ {w} : proc'[v] = proc[v]
        BY <1>0, <2>6 DEF Goto, Proc
      <3> QED
        BY <2>1, <2>3, <3>1, AuditSameAttempt
    <2> QED
      BY <1>4, <2>2, <2>5, <2>6 DEF FirstAttempt
  <1>5. ASSUME NEW w \in Workers, Truncate(w) \/ WriteState(w) PROVE AuditInv'
    <2>1. /\ Live(w) /\ InAttempt(w) /\ logs' = logs
          /\ proc[w].pc \in {"truncate", "write"}
      BY <1>5 DEF Truncate, WriteState, Live, InAttempt
    <2>2. AuditLog' = AuditLog /\ AuditLines' = AuditLines
      BY <2>1 DEF AuditLog, AuditLines
    <2>3. LiveAudit(w) /\ LiveInv(w)
      BY <2>1 DEF AuditInv, BudgetInv
    <2>4. CASE Truncate(w)
      <3>1. /\ stateFile' = Empty /\ proc'[w].pc = "write"
            /\ proc'[w].attempt = proc[w].attempt /\ proc'[w].status = proc[w].status
            /\ \A v \in Workers \ {w} : proc'[v] = proc[v]
        BY <1>0, <1>00, <2>4 DEF Truncate, Goto, Proc
      <3>2. LiveAudit(w)'
        BY <2>1, <2>2, <2>3, <3>1
           DEF LiveAudit, AuditUpTo, AuditBelow, ToAnnounce, Appending
      <3> QED
        BY <2>1, <2>2, <3>1, <3>2, AuditFrame, FileAssumption
    <2>5. CASE WriteState(w)
      <3>1. stateFile' = runtime(w)
        BY <2>3, <2>5 DEF WriteState, LiveInv
      <3>2. proc' = [proc EXCEPT ![w] = [@ EXCEPT !.pc = "exists", !.log = FirstLog(w)]]
        BY <2>5 DEF WriteState
      <3>3. /\ proc'[w].pc = "exists" /\ proc'[w].log = FirstLog(w)
            /\ proc'[w].attempt = proc[w].attempt
            /\ \A v \in Workers \ {w} : proc'[v] = proc[v]
        BY <1>0, <1>00, <3>2 DEF Proc
      <3>4. ToAnnounce(w)' => ToAnnounce(w)
        BY <2>1, <3>3 DEF ToAnnounce, FirstLog, Appending
      <3>5. LiveAudit(w)'
        BY <2>1, <2>2, <2>3, <3>3, <3>4 DEF LiveAudit, AuditUpTo, AuditBelow
      <3>6. AuditUpTo(stateFile'.attempt)
        BY <1>00, <2>1, <2>3, <3>1 DEF LiveAudit
      <3> QED
        BY <1>00, <2>1, <2>2, <3>1, <3>3, <3>5, <3>6, AuditFrame, FileAssumption
    <2> QED
      BY <1>5, <2>4, <2>5
  <1>6. ASSUME NEW w \in Workers, CheckExists(w) \/ CreateLog(w) PROVE AuditInv'
    <2>1. /\ Live(w) /\ InAttempt(w) /\ stateFile' = stateFile
          /\ proc[w].pc \in {"exists", "create"}
      BY <1>6 DEF CheckExists, CreateLog, Live, InAttempt, AfterSave
    <2>2. LiveAudit(w)
      BY <2>1 DEF AuditInv
    <2>3. /\ proc'[w].pc \in {"create", "append", "fill"}
          /\ proc'[w].attempt = proc[w].attempt /\ proc'[w].log = proc[w].log
          /\ \A v \in Workers \ {w} : proc'[v] = proc[v]
      BY <1>0, <1>00, <1>6 DEF CheckExists, CreateLog, Goto, Proc
    <2>4. CASE CheckExists(w)
      <3>1. AuditLog' = AuditLog
        BY <2>4 DEF CheckExists, AuditLog
      <3>2. proc'[w].pc \in {"create", "fill"} /\ proc[w].log = "audit"
              => logs["audit"] = NoFile
        BY <1>0, <1>00, <2>4 DEF CheckExists, Goto, Proc
      <3>3. proc'[w].pc \in {"create", "fill"} /\ proc[w].log = "audit"
              => AuditLog' = <<>>
        BY <3>1, <3>2 DEF AuditLog
      <3> QED
        <4>1. AuditLines' = AuditLines
          BY <3>1 DEF AuditLines
        <4>2. LiveAudit(w)'
          BY <2>1, <2>2, <2>3, <3>1, <3>3, <4>1
             DEF LiveAudit, AuditUpTo, AuditBelow, ToAnnounce, Appending
        <4> QED
          BY <2>1, <2>3, <3>1, <4>2, AuditFrame DEF AuditInv
    <2>5. CASE CreateLog(w)
      <3>1. proc[w].pc = "create" /\ logs' = [logs EXCEPT ![proc[w].log] = <<>>]
        BY <2>5 DEF CreateLog
      <3>2. AuditLog' = AuditLog
        <4>1. CASE proc[w].log = "audit"
          <5>1. AuditLog = <<>>
            BY <2>2, <3>1, <4>1 DEF LiveAudit
          <5>2. logs'["audit"] = <<>>
            BY <1>0, <3>1, <4>1, Labels
          <5>3. AuditLog' = <<>>
            BY <5>2 DEF AuditLog
          <5> QED
            BY <5>1, <5>3
        <4>2. CASE proc[w].log # "audit"
          BY <1>0, <3>1, <4>2, Labels DEF AuditLog
        <4> QED
          BY <4>1, <4>2
      <3>3. AuditLines' = AuditLines
        BY <3>2 DEF AuditLines
      <3>4. LiveAudit(w)'
        BY <2>1, <2>2, <2>3, <3>1, <3>2, <3>3
           DEF LiveAudit, AuditUpTo, AuditBelow, ToAnnounce, Appending
      <3> QED
        BY <2>1, <2>3, <3>2, <3>4, AuditFrame DEF AuditInv
    <2> QED
      BY <1>6, <2>4, <2>5
  <1>7. ASSUME NEW w \in Workers, FillLog(w) \/ AppendLog(w) PROVE AuditInv'
    <2>1. /\ Live(w) /\ InAttempt(w) /\ stateFile' = stateFile /\ AfterAppend(w)
          /\ proc[w].pc \in {"fill", "append"}
      BY <1>7 DEF FillLog, AppendLog, Live, InAttempt, AfterSave
    <2>2. LiveAudit(w) /\ LiveInv(w)
      BY <2>1 DEF AuditInv, BudgetInv
    <2>3. stateFile = runtime(w)
      BY <2>1, <2>2 DEF LiveInv, AfterSave
    <2>4. \A v \in Workers \ {w} : proc'[v] = proc[v]
      BY <1>0, <2>1, AfterAppendCases
    <2>5. CASE proc[w].log = "audit"
      <3>1. /\ AuditIdsUnique'
            /\ \A i \in AuditLines' : AuditLog'[i].attempt <= proc[w].attempt
        BY <1>7, <2>1, <2>5, AuditGrows
      <3>2. proc' = [proc EXCEPT ![w] = [@ EXCEPT !.pc = "exists", !.log = "health"]]
        BY <2>1, <2>5 DEF AfterAppend
      <3>3. /\ proc'[w].pc = "exists" /\ proc'[w].log = "health"
            /\ proc'[w].attempt = proc[w].attempt
        BY <1>0, <1>00, <3>2 DEF Proc
      <3>4. LiveAudit(w)'
        BY <3>1, <3>3 DEF LiveAudit, AuditUpTo, ToAnnounce, Appending
      <3>5. \A v \in Workers : Live(v)' => LiveAudit(v)'
        BY <2>1, <2>4, <3>4 DEF BudgetInv, Live
      <3>6. stateFile' # NoFile /\ AuditUpTo(stateFile.attempt)'
        BY <1>00, <2>1, <2>3, <3>1, FileAssumption DEF AuditUpTo
      <3> QED
        BY <3>1, <3>5, <3>6 DEF AuditInv
    <2>6. CASE proc[w].log = "health"
      <3>1. AuditLog' = AuditLog
        <4>1. PICK new : logs' = [logs EXCEPT !["health"] = new]
          BY <1>7, <2>6 DEF FillLog, AppendLog
        <4> QED
          BY <1>0, <4>1, Labels DEF AuditLog
      <3>2. CASE proc[w].status = "Running" /\ Goto(w, "spawn")
        <4>1. proc'[w].pc = "spawn" /\ proc'[w].attempt = proc[w].attempt
          BY <1>0, <1>00, <3>2 DEF Goto, Proc
        <4>2. ToAnnounce(w)' => ToAnnounce(w)
          BY <4>1 DEF ToAnnounce, Appending
        <4> QED
          BY <2>1, <2>4, <3>1, <4>1, <4>2, AuditSameAttempt
      <3>3. CASE EnterAttempt(w, proc[w].attempt + 1)
        <4>1. proc'[w].pc = "truncate" /\ proc'[w].attempt = proc[w].attempt + 1
          BY <1>0, <1>00, <3>3 DEF EnterAttempt, Proc
        <4>2. \A i \in AuditLines : AuditLog[i].attempt < proc'[w].attempt
                                    /\ AuditLog[i].attempt <= proc'[w].attempt
          BY <1>0, <1>00, <2>1, <2>2, <4>1, AuditAttempts DEF LiveAudit, AuditUpTo
        <4>3. AuditLines' = AuditLines
          BY <3>1 DEF AuditLines
        <4>4. LiveAudit(w)'
          BY <3>1, <4>1, <4>2, <4>3 DEF LiveAudit, AuditUpTo, AuditBelow
        <4> QED
          BY <2>1, <2>4, <3>1, <4>4, AuditFrame DEF AuditInv
      <3>4. CASE Goto(w, "none")
        <4>1. proc'[w].pc = "none"
          BY <1>0, <1>00, <3>4 DEF Goto, Proc
        <4> QED
          BY <2>1, <2>4, <3>1, <4>1, AuditSameAttempt
      <3> QED
        BY <2>1, <2>6, <3>2, <3>3, <3>4 DEF AfterAppend
    <2> QED
      BY <1>00, <2>5, <2>6 DEF Log
  <1>8. ASSUME NEW w \in Workers, SpawnWorker(w) \/ WorkerSucceeds(w) \/ WorkerFails(w)
        PROVE  AuditInv'
    <2>1. /\ Live(w) /\ InAttempt(w) /\ stateFile' = stateFile /\ logs' = logs
      BY <1>8 DEF SpawnWorker, WorkerSucceeds, WorkerFails, Live, InAttempt, AfterSave
    <2>2. AuditLog' = AuditLog
      BY <2>1 DEF AuditLog
    <2>3. /\ proc'[w].attempt = proc[w].attempt
          /\ \/ proc'[w].pc = "wait"
             \/ proc'[w].pc = "truncate" /\ proc'[w].status # "Running"
          /\ \A v \in Workers \ {w} : proc'[v] = proc[v]
      <3>1. CASE SpawnWorker(w)
        BY <1>0, <1>00, <3>1 DEF SpawnWorker, Proc
      <3>2. CASE WorkerSucceeds(w)
        BY <1>0, <1>00, <3>2 DEF WorkerSucceeds, Proc
      <3>3. CASE WorkerFails(w)
        <4>1. terminal_status_for_failure(proc[w].attempt, proc[w].limit) # "Running"
          BY DEF terminal_status_for_failure
        <4> QED
          BY <1>0, <1>00, <3>3, <4>1 DEF WorkerFails, Proc
      <3> QED
        BY <1>8, <3>1, <3>2, <3>3
    <2>4. ToAnnounce(w)' => ToAnnounce(w)
      BY <2>3 DEF ToAnnounce, Appending
    <2> QED
      BY <2>1, <2>2, <2>3, <2>4, AuditSameAttempt
  <1> QED
    BY <1>1, <1>2, <1>3, <1>4, <1>5, <1>6, <1>7, <1>8 DEF Next, cmd_run

\* The audit starts without a line.
LEMMA AuditInit == Init => AuditInv
  <1> SUFFICES ASSUME Init PROVE AuditInv
    OBVIOUS
  <1>1. PICK n \in RetryLimits :
          proc = [w \in Workers |->
                    [pc |-> "none", replay |-> manifest, read |-> manifest, limit |-> n,
                     force |-> FALSE, edited |-> FALSE, attempt |-> 0,
                     status |-> "Running", log |-> "audit"]]
    BY DEF Init
  <1>2. \A w \in Workers : ~Live(w)
    BY <1>1 DEF Live
  <1>3. AuditLog = <<>>
    BY Labels DEF Init, AuditLog
  <1>4. AuditLines = {}
    BY <1>3 DEF AuditLines
  <1> QED
    BY <1>2, <1>4 DEF AuditInv, AuditIdsUnique, AuditUpTo

\* The ids of the assignment audit identify: as long as the processes do not
\* overlap and nobody forces, no attempt is announced twice, whatever crashes
\* happen between the save and the line and whatever limits are passed.
THEOREM AuditIdsIdentify ==
    Exclusive /\ ~AllowForce => (Spec => []AuditIdsUnique)
  <1> SUFFICES ASSUME Exclusive, ~AllowForce PROVE Spec => []AuditIdsUnique
    OBVIOUS
  <1>1. TypeInv /\ BudgetInv /\ [Next]_vars => BudgetInv'
    BY BudgetStep
  <1>2. TypeInv /\ BudgetInv /\ AuditInv /\ [Next]_vars => AuditInv'
    BY AuditStep
  <1>3. AuditInv => AuditIdsUnique
    BY DEF AuditInv
  <1> QED
    BY TypeInit, TypeStep, BudgetInit, AuditInit, <1>1, <1>2, <1>3, PTL DEF Spec

-----------------------------------------------------------------------------
(* A recorded success is a real one, whatever runs concurrently.           *)

\* What is known of a worker command that succeeded: its process carried that
\* replay id, and read that manifest unless the manifest was edited under it.
Justified(w, replay, attempt) ==
    \E s \in successes :
        /\ s.worker = w /\ s.attempt = attempt
        /\ s.replay = replay
        /\ s.read = s.replay \/ s.edited

\* A success about to be saved is justified.
SaveJustified(w) ==
    proc[w].pc \in {"truncate", "write"} /\ proc[w].status = "Succeeded" =>
        Justified(w, proc[w].replay, proc[w].attempt)

\* The replay id is the one of the manifest file, as long as nobody edits it.
JustInv ==
    /\ SucceededIsJustified
    /\ \A w \in Workers : Live(w) => proc[w].edited \/ proc[w].replay = manifest
    /\ ~EditsDuringRun => \A w \in Workers : Live(w) => ~proc[w].edited
    /\ \A w \in Workers :
          proc[w].pc = "wait" => proc[w].edited \/ proc[w].read = proc[w].replay
    /\ \A w \in Workers : SaveJustified(w)

\* Nothing is recorded at the start.
LEMMA JustInit == Init => JustInv
<1> SUFFICES ASSUME Init PROVE JustInv
  OBVIOUS
<1>1. PICK n \in RetryLimits :
        proc = [w \in Workers |->
                  [pc |-> "none", replay |-> manifest, read |-> manifest, limit |-> n,
                   force |-> FALSE, edited |-> FALSE, attempt |-> 0,
                   status |-> "Running", log |-> "audit"]]
  BY DEF Init
<1>2. \A w \in Workers : proc[w].pc = "none"
  BY <1>1
<1> QED
  BY <1>2, FileAssumption DEF Init, JustInv, Live, SucceededIsJustified, SaveJustified

\* A step of one process that moves it to a step where nothing is claimed, and
\* leaves manifest, file and successes alone, preserves JustInv.
LEMMA JustFrame ==
    ASSUME JustInv, NEW w \in Workers, manifest' = manifest, stateFile' = stateFile,
           successes' = successes, \A v \in Workers \ {w} : proc'[v] = proc[v],
           Live(w)' => proc'[w].edited \/ proc'[w].replay = manifest,
           ~EditsDuringRun /\ Live(w)' => ~proc'[w].edited,
           proc'[w].pc = "wait" => proc'[w].edited \/ proc'[w].read = proc'[w].replay,
           proc'[w].pc \in {"truncate", "write"} => proc'[w].status # "Succeeded"
    PROVE  JustInv'
  BY DEF JustInv, Live, SucceededIsJustified, SaveJustified, Justified

\* Every step of the program preserves JustInv.
LEMMA JustStep ==
    ASSUME TypeInv, JustInv, [Next]_vars
    PROVE  JustInv'
<1>0. proc \in [Workers -> Proc] /\ stateFile \in StateRec \cup {NoFile, Empty, Torn}
  BY DEF TypeInv, TypeOK
<1>00. \A v \in Workers : proc[v] \in Proc
  BY <1>0
<1> USE <1>0, <1>00
<1>1. CASE EditManifest
  <2>1. \A w \in Workers : Live(w)' = Live(w) /\ proc'[w].edited = Live(w)
    BY <1>1, EditFrame DEF Live
  <2>2. ~EditsDuringRun => \A w \in Workers : ~Live(w)
    BY <1>1 DEF EditManifest
  <2>3. SucceededIsJustified'
    BY <1>1, EditFrame DEF JustInv, SucceededIsJustified
  <2>4. ASSUME NEW w \in Workers, proc'[w].pc = "wait" PROVE proc'[w].edited
    BY <1>1, <2>1, <2>4, EditFrame DEF Live
  <2>5. ASSUME NEW w \in Workers,
               proc'[w].pc \in {"truncate", "write"}, proc'[w].status = "Succeeded"
        PROVE  Justified(w, proc[w].replay, proc[w].attempt)'
    BY <1>1, <2>5, EditFrame DEF JustInv, SaveJustified, Justified
  <2> QED
    BY <2>1, <2>2, <2>3, <2>4, <2>5 DEF JustInv, SaveJustified, Justified
<1>2. ASSUME NEW w \in Workers, Invoke(w) PROVE JustInv'
  <2>1. PICK limit \in RetryLimits, force \in BOOLEAN :
          proc' = [proc EXCEPT ![w] = [@ EXCEPT !.pc = "load", !.replay = manifest,
                                                !.read = manifest, !.edited = FALSE,
                                                !.limit = limit, !.force = force]]
    BY <1>2 DEF Invoke
  <2>2. /\ proc'[w].pc = "load" /\ proc'[w].replay = manifest /\ ~proc'[w].edited
        /\ \A v \in Workers \ {w} : proc'[v] = proc[v]
    BY <2>1 DEF Proc
  <2> QED
    BY <1>2, <2>2, JustFrame DEF Invoke
<1>3. ASSUME NEW w \in Workers,
             LoadFails(w) \/ ReplayHit(w) \/ Refuse(w) \/ SpawnFails(w) \/ Crash(w)
      PROVE  JustInv'
  <2>1. Goto(w, "none") /\ UNCHANGED <<manifest, stateFile, successes>>
    BY <1>3 DEF LoadFails, ReplayHit, Refuse, SpawnFails, Crash
  <2>2. proc'[w].pc = "none" /\ \A v \in Workers \ {w} : proc'[v] = proc[v]
    BY <2>1 DEF Goto, Proc
  <2> QED
    BY <2>1, <2>2, JustFrame DEF Live
<1>4. ASSUME NEW w \in Workers, FirstAttempt(w) \/ FillLog(w) \/ AppendLog(w)
      PROVE  JustInv'
  <2>1. Live(w) /\ UNCHANGED <<manifest, stateFile, successes>>
    BY <1>4 DEF FirstAttempt, FillLog, AppendLog, Live
  <2>2. \/ \E n \in Nat : EnterAttempt(w, n)
        \/ Goto(w, "none") \/ Goto(w, "spawn")
        \/ proc' = [proc EXCEPT ![w] = [@ EXCEPT !.pc = "exists", !.log = "health"]]
    <3>1. CASE FirstAttempt(w)
      <4>1. start_attempt(w) + 1 \in Nat
        BY <3>1 DEF FirstAttempt, start_attempt, initial_attempt, Parses, StateRec, Attempts
      <4> QED
        BY <3>1, <4>1 DEF FirstAttempt
    <3>2. CASE FillLog(w) \/ AppendLog(w)
      <4>1. AfterAppend(w) /\ proc[w].attempt + 1 \in Nat
        BY <3>2 DEF FillLog, AppendLog, Proc, Attempts
      <4> QED
        BY <4>1 DEF AfterAppend
    <3> QED
      BY <1>4, <3>1, <3>2
  <2>3. /\ proc'[w].pc \notin {"wait", "write"} /\ proc'[w].replay = proc[w].replay
        /\ proc'[w].edited = proc[w].edited
        /\ proc'[w].pc = "truncate" => proc'[w].status = "Running"
        /\ \A v \in Workers \ {w} : proc'[v] = proc[v]
    <3>1. ASSUME NEW n \in Nat, EnterAttempt(w, n) PROVE <2>3
      BY <3>1 DEF EnterAttempt, Proc
    <3>2. CASE Goto(w, "none") \/ Goto(w, "spawn")
      BY <3>2 DEF Goto, Proc
    <3>3. CASE proc' = [proc EXCEPT ![w] = [@ EXCEPT !.pc = "exists", !.log = "health"]]
      BY <3>3 DEF Proc
    <3> QED
      BY <2>2, <3>1, <3>2, <3>3
  <2> QED
    BY <2>1, <2>3, JustFrame DEF JustInv
<1>5. ASSUME NEW w \in Workers, Truncate(w) PROVE JustInv'
  <2>1. /\ Live(w) /\ proc[w].pc = "truncate" /\ stateFile' = Empty
        /\ UNCHANGED <<manifest, successes>>
    BY <1>5 DEF Truncate, Live
  <2>2. /\ proc'[w].pc = "write" /\ proc'[w].replay = proc[w].replay
        /\ proc'[w].edited = proc[w].edited
        /\ proc'[w].status = proc[w].status /\ proc'[w].attempt = proc[w].attempt
        /\ \A v \in Workers \ {w} : proc'[v] = proc[v]
    BY <1>5 DEF Truncate, Goto, Proc
  <2>3. SucceededIsJustified'
    BY <2>1, FileAssumption DEF SucceededIsJustified
  <2> QED
    BY <2>1, <2>2, <2>3 DEF JustInv, Live, SaveJustified, Justified
<1>6. ASSUME NEW w \in Workers, WriteState(w) PROVE JustInv'
  <2>1. Live(w) /\ proc[w].pc = "write" /\ UNCHANGED <<manifest, successes>>
    BY <1>6 DEF WriteState, Live
  <2>2. /\ proc'[w].pc = "exists" /\ proc'[w].replay = proc[w].replay
        /\ proc'[w].edited = proc[w].edited
        /\ \A v \in Workers \ {w} : proc'[v] = proc[v]
    BY <1>6 DEF WriteState, Proc
  <2>3. SucceededIsJustified'
    <3>1. CASE stateFile' = runtime(w)
      BY <2>1, <3>1 DEF JustInv, SucceededIsJustified, SaveJustified, Justified, runtime
    <3>2. CASE stateFile' = Torn
      BY <3>2, FileAssumption DEF SucceededIsJustified
    <3> QED
      BY <1>6, <3>1, <3>2 DEF WriteState
  <2> QED
    BY <2>1, <2>2, <2>3 DEF JustInv, Live, SaveJustified, Justified
<1>7. ASSUME NEW w \in Workers, CheckExists(w) \/ CreateLog(w) PROVE JustInv'
  <2>1. Live(w) /\ UNCHANGED <<manifest, stateFile, successes>>
    BY <1>7 DEF CheckExists, CreateLog, Live
  <2>2. /\ proc'[w].pc \in {"create", "append", "fill"} /\ proc'[w].replay = proc[w].replay
        /\ proc'[w].edited = proc[w].edited
        /\ \A v \in Workers \ {w} : proc'[v] = proc[v]
    BY <1>7 DEF CheckExists, CreateLog, Goto, Proc
  <2> QED
    BY <2>1, <2>2, JustFrame DEF JustInv
<1>8. ASSUME NEW w \in Workers, SpawnWorker(w) PROVE JustInv'
  <2>1. Live(w) /\ UNCHANGED <<manifest, stateFile, successes>>
    BY <1>8 DEF SpawnWorker, Live
  <2>2. /\ proc'[w].pc = "wait" /\ proc'[w].replay = proc[w].replay
        /\ proc'[w].edited = proc[w].edited
        /\ proc'[w].read = manifest /\ \A v \in Workers \ {w} : proc'[v] = proc[v]
    BY <1>8 DEF SpawnWorker, Proc
  <2> QED
    BY <2>1, <2>2, JustFrame DEF JustInv
<1>9. ASSUME NEW w \in Workers, WorkerSucceeds(w) PROVE JustInv'
  <2> DEFINE s == [worker |-> w, replay |-> proc[w].replay, read |-> proc[w].read,
                   attempt |-> proc[w].attempt, edited |-> proc[w].edited]
  <2>1. Live(w) /\ proc[w].pc = "wait" /\ UNCHANGED <<manifest, stateFile>>
    BY <1>9 DEF WorkerSucceeds, Live
  <2>2. /\ proc[w].edited \/ proc[w].read = proc[w].replay
        /\ proc[w].edited \/ proc[w].replay = manifest
        /\ ~EditsDuringRun => ~proc[w].edited
    BY <2>1 DEF JustInv
  <2>3. /\ proc'[w].pc = "truncate" /\ proc'[w].replay = proc[w].replay
        /\ proc'[w].edited = proc[w].edited
        /\ proc'[w].attempt = proc[w].attempt /\ \A v \in Workers \ {w} : proc'[v] = proc[v]
    BY <1>9 DEF WorkerSucceeds, Proc
  <2>4. successes' = successes \cup {s}
    BY <1>9 DEF WorkerSucceeds
  <2>5. SaveJustified(w)'
    <3>1. s \in successes'
      BY <2>4
    <3>2. /\ s.worker = w /\ s.attempt = proc'[w].attempt /\ s.replay = proc'[w].replay
          /\ s.read = s.replay \/ s.edited
      BY <2>2, <2>3
    <3> HIDE DEF s
    <3> QED
      BY <3>1, <3>2 DEF SaveJustified, Justified
  <2> HIDE DEF s
  <2>6. SucceededIsJustified'
    BY <2>1, <2>4 DEF JustInv, SucceededIsJustified
  <2>7. ASSUME NEW v \in Workers \ {w} PROVE SaveJustified(v)'
    BY <2>3, <2>4 DEF JustInv, SaveJustified, Justified
  <2>8. \A v \in Workers \ {w} : Live(v)' = Live(v)
    BY <2>3 DEF Live
  <2>9. /\ \A v \in Workers : Live(v)' => proc'[v].edited \/ proc'[v].replay = manifest'
        /\ ~EditsDuringRun => \A v \in Workers : Live(v)' => ~proc'[v].edited
        /\ \A v \in Workers :
              proc'[v].pc = "wait" => proc'[v].edited \/ proc'[v].read = proc'[v].replay
    BY <2>1, <2>2, <2>3, <2>8 DEF JustInv
  <2> QED
    BY <2>5, <2>6, <2>7, <2>9 DEF JustInv
<1>10. ASSUME NEW w \in Workers, WorkerFails(w) PROVE JustInv'
  <2>1. Live(w) /\ UNCHANGED <<manifest, stateFile, successes>>
    BY <1>10 DEF WorkerFails, Live
  <2>2. terminal_status_for_failure(proc[w].attempt, proc[w].limit) # "Succeeded"
    BY DEF terminal_status_for_failure
  <2>3. /\ proc'[w].pc = "truncate" /\ proc'[w].replay = proc[w].replay
        /\ proc'[w].edited = proc[w].edited
        /\ proc'[w].status # "Succeeded" /\ \A v \in Workers \ {w} : proc'[v] = proc[v]
    BY <1>10, <2>2 DEF WorkerFails, Proc
  <2> QED
    BY <2>1, <2>3, JustFrame DEF JustInv
<1>11. CASE UNCHANGED vars
  BY <1>11 DEF vars, JustInv, Live, SucceededIsJustified, SaveJustified, Justified
<1> QED
  BY <1>1, <1>2, <1>3, <1>4, <1>5, <1>6, <1>7, <1>8, <1>9, <1>10, <1>11 DEF Next, cmd_run

\* A state file that says "succeeded" names a worker command that really
\* succeeded, also when runners overlap, crash, tear the file or force; what
\* that command processed is the manifest of the replay id unless the manifest
\* was edited while its process ran.
THEOREM SuccessJustified == Spec => []SucceededIsJustified
<1>1. TypeInv /\ JustInv /\ [Next]_vars => JustInv'
  BY JustStep
<1>2. JustInv => SucceededIsJustified
  BY DEF JustInv
<1> QED
  BY TypeInit, TypeStep, JustInit, <1>1, <1>2, PTL DEF Spec

-----------------------------------------------------------------------------
(* Refinement of the life cycle.                                           *)

\* Every step is a step of the life cycle or leaves it alone.
LEMMA LifecycleStep ==
    ASSUME Exclusive, ~AllowForce, ~EditsDuringRun,
           TypeInv, BudgetInv, JustInv, [Next]_vars
    PROVE  [Lifecycle!Next]_(Lifecycle!lvars)
<1>0. /\ proc \in [Workers -> Proc] /\ execs \in Nat /\ MaxRetries \in Nat
      /\ \A v \in Workers : proc[v].attempt \in Nat /\ proc[v].attempt <= MaxRetries + 1
                           /\ proc[v].status \in Status
                           /\ runtime(v) \in StateRec /\ runtime(v).status = proc[v].status
  BY RetryAssumption DEF TypeInv, TypeOK, Proc, Attempts, runtime, StateRec
<1>1. ASSUME stateFile' = stateFile PROVE Outcome' = Outcome /\ Done' = Done
  BY <1>1 DEF Done, Outcome
<1>2. ASSUME NEW w \in Workers, Truncate(w) PROVE [Lifecycle!Next]_(Lifecycle!lvars)
  <2>1. LiveInv(w) /\ proc[w].pc = "truncate" /\ proc[w].replay = manifest
    BY <1>2 DEF Truncate, BudgetInv, JustInv, Live
  <2>2. Outcome' = "open" /\ execs' = execs /\ manifest' = manifest
    BY <1>2, FileAssumption DEF Truncate, Outcome
  <2>3. Done' = NoFile
    BY <2>2 DEF Done
  <2>4. CASE Outcome = "open"
    <3>1. Done = NoFile
      BY <2>4 DEF Done
    <3> QED
      BY <2>2, <2>3, <2>4, <3>1 DEF Lifecycle!lvars
  <2>5. CASE Outcome # "open"
    <3>1. execs < MaxRetries + 1
      BY <1>0, <2>1, <2>5 DEF LiveInv, InAttempt
    <3>2. Outcome = "failed" \/ (Outcome = "succeeded" /\ Done # manifest)
      BY <2>1, <2>5 DEF LiveInv, Outcome, Done
    <3> QED
      BY <2>2, <2>3, <3>1, <3>2 DEF Lifecycle!Next, Lifecycle!Reopen
  <2> QED
    BY <2>4, <2>5
<1>3. ASSUME NEW w \in Workers, WriteState(w) PROVE [Lifecycle!Next]_(Lifecycle!lvars)
  <2>1. LiveInv(w) /\ proc[w].pc = "write" /\ proc[w].replay = manifest
    BY <1>3 DEF WriteState, BudgetInv, JustInv, Live
  <2>2. /\ stateFile = Empty /\ stateFile' = runtime(w) /\ execs' = execs
        /\ manifest' = manifest
    BY <1>3, <2>1 DEF WriteState, LiveInv
  <2>3. Outcome = "open" /\ Done = NoFile
    BY <2>2, FileAssumption DEF Outcome, Done
  <2>4. CASE proc[w].status \in {"Running", "RetryScheduled"}
    <3>1. Outcome' = "open"
      BY <1>0, <2>2, <2>4 DEF Outcome
    <3>2. Done' = NoFile
      BY <3>1 DEF Done
    <3> QED
      BY <2>2, <2>3, <3>1, <3>2 DEF Lifecycle!lvars
  <2>5. CASE proc[w].status = "Succeeded"
    <3>1. execs > 0
      BY <2>1, <2>5 DEF LiveInv, InAttempt, Started
    <3>2. Outcome' = "succeeded"
      BY <1>0, <2>2, <2>5 DEF Outcome
    <3>3. Done' = manifest
      BY <2>1, <2>2, <3>2 DEF Done, runtime
    <3> QED
      BY <2>2, <2>3, <3>1, <3>2, <3>3 DEF Lifecycle!Next, Lifecycle!Succeed
  <2>6. CASE proc[w].status = "FailedTerminal"
    <3>1. execs > 0
      BY <2>1, <2>6 DEF LiveInv, InAttempt, Started
    <3>2. Outcome' = "failed"
      BY <1>0, <2>2, <2>6 DEF Outcome
    <3>3. Done' = NoFile
      BY <3>2 DEF Done
    <3> QED
      BY <2>2, <2>3, <3>1, <3>2, <3>3 DEF Lifecycle!Next, Lifecycle!Fail
  <2> QED
    BY <1>0, <2>4, <2>5, <2>6 DEF Status
<1>4. ASSUME NEW w \in Workers, SpawnWorker(w) PROVE [Lifecycle!Next]_(Lifecycle!lvars)
  <2>1. LiveInv(w) /\ proc[w].pc = "spawn"
    BY <1>4 DEF SpawnWorker, BudgetInv, Live
  <2>2. /\ stateFile = runtime(w) /\ proc[w].status = "Running"
        /\ execs < proc[w].attempt
    BY <2>1 DEF LiveInv, InAttempt, Started, AfterSave
  <2>3. Outcome = "open" /\ execs < MaxRetries + 1
    BY <1>0, <2>2 DEF Outcome
  <2>4. execs' = execs + 1 /\ manifest' = manifest /\ Outcome' = Outcome /\ Done' = Done
    BY <1>1, <1>4 DEF SpawnWorker
  <2> QED
    BY <2>3, <2>4 DEF Lifecycle!Next, Lifecycle!Try
<1>5. CASE EditManifest
  <2>1. manifest' # manifest /\ execs' = execs /\ Outcome' = Outcome /\ Done' = Done
    BY <1>1, <1>5 DEF EditManifest
  <2> QED
    BY <2>1 DEF Lifecycle!Next, Lifecycle!Resubmit
<1>7. CASE UNCHANGED vars
  BY <1>1, <1>7 DEF vars, Lifecycle!lvars
<1>6. ASSUME NEW w \in Workers,
             \/ Invoke(w) \/ Crash(w) \/ LoadFails(w) \/ ReplayHit(w) \/ Refuse(w)
             \/ FirstAttempt(w) \/ CheckExists(w) \/ CreateLog(w) \/ FillLog(w)
             \/ AppendLog(w) \/ SpawnFails(w) \/ WorkerSucceeds(w) \/ WorkerFails(w)
      PROVE  [Lifecycle!Next]_(Lifecycle!lvars)
  <2>1. stateFile' = stateFile /\ execs' = execs /\ manifest' = manifest
    BY <1>6 DEF Invoke, Crash, LoadFails, ReplayHit, Refuse, FirstAttempt, CheckExists,
                CreateLog, FillLog, AppendLog, SpawnFails, WorkerSucceeds, WorkerFails
  <2> QED
    BY <1>1, <2>1 DEF Lifecycle!lvars
<1> QED
  BY <1>2, <1>3, <1>4, <1>5, <1>6, <1>7 DEF Next, cmd_run

\* Without overlap, --force and edits under a live process, `offf-jobs run`
\* implements the life cycle: at most MaxRetries + 1 tries, and the recorded
\* success of a manifest is final until the manifest is edited.
THEOREM LifecycleImplemented ==
    ASSUME Exclusive, ~AllowForce, ~EditsDuringRun
    PROVE  Spec => ImplementsLifecycle
<1>1. Init => Lifecycle!Init
  BY FileAssumption DEF Init, Lifecycle!Init, Outcome, Done
<1>2. TypeInv /\ BudgetInv /\ [Next]_vars => BudgetInv'
  BY BudgetStep
<1>3. TypeInv /\ JustInv /\ [Next]_vars => JustInv'
  BY JustStep
<1>4. TypeInv /\ BudgetInv /\ JustInv /\ [Next]_vars => [Lifecycle!Next]_(Lifecycle!lvars)
  BY LifecycleStep
<1> QED
  BY TypeInit, TypeStep, BudgetInit, JustInit, <1>1, <1>2, <1>3, <1>4, PTL
     DEF Spec, ImplementsLifecycle, Lifecycle!Spec
=============================================================================
