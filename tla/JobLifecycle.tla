---------------------------- MODULE JobLifecycle ----------------------------
(***************************************************************************)
(* What `offf-jobs run` promises about one job: the worker command is      *)
(* tried at most Budget times; the outcome is open until a try succeeds or *)
(* the job is declared failed; the success of a job is final as long as    *)
(* its content stays the same, and a job is only reopened while tries are  *)
(* left.                                                                   *)
(***************************************************************************)
EXTENDS Naturals

CONSTANTS Budget, None

VARIABLES
    job,      \* the content of the job as it was last submitted
    used,     \* tries so far
    outcome,  \* "open", "succeeded" or "failed"
    done      \* the content that succeeded, or None

lvars == <<job, used, outcome, done>>

Init == used = 0 /\ outcome = "open" /\ done = None

Resubmit ==
    /\ job' # job
    /\ UNCHANGED <<used, outcome, done>>

Try ==
    /\ outcome = "open"
    /\ used < Budget
    /\ used' = used + 1
    /\ UNCHANGED <<job, outcome, done>>

Succeed ==
    /\ outcome = "open"
    /\ used > 0
    /\ outcome' = "succeeded"
    /\ done' = job
    /\ UNCHANGED <<job, used>>

Fail ==
    /\ outcome = "open"
    /\ used > 0
    /\ outcome' = "failed"
    /\ UNCHANGED <<job, used, done>>

Reopen ==
    /\ \/ outcome = "failed"
       \/ outcome = "succeeded" /\ done # job
    /\ used < Budget
    /\ outcome' = "open"
    /\ done' = None
    /\ UNCHANGED <<job, used>>

Next == Resubmit \/ Try \/ Succeed \/ Fail \/ Reopen

Spec == Init /\ [][Next]_lvars
=============================================================================
