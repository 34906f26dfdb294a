---------------------------- MODULE Publication ----------------------------
(***************************************************************************)
(* Where offf-convert and offf-collect meet: both make a container in a    *)
(* temporary directory and rename it to an output that they have seen not  *)
(* to exist, and may be given the same output.                             *)
(***************************************************************************)
EXTENDS Container

CONSTANTS
    Converters, Collectors,     \* runs of offf-convert and offf-collect
    Outputs,
    MaxTools,                   \* bound: how many of them are started
    MaxDamage                   \* bound: how many files are damaged afterwards

\* A run is of one of the two.
ASSUME ToolsAssumption == Converters \cap Collectors = {}

Absent == [absent |-> TRUE]

VARIABLES
    run,        \* what each tool does next, or how it ended
    out,        \* the directory at each output
    damage      \* number of files damaged

Tools == Converters \cup Collectors

Ended == {"done", "failed", "crashed"}

Started == {p \in Tools : run[p] # "idle"}

InitPublication ==
    /\ run = [p \in Tools |-> "idle"]
    /\ out = [o \in Outputs |-> Absent]
    /\ damage = 0

Step(p, from, to) == run[p] = from /\ run' = [run EXCEPT ![p] = to]

\* An output that exists ends the run before anything is made.  Bound: no tool
\* starts after damage.
Begin(p, o, to) ==
    /\ Step(p, "idle", IF out[o] # Absent THEN "failed" ELSE to)
    /\ Cardinality(Started) < MaxTools
    /\ damage = 0

\* The rename fails without its source, and on an output that is there by now.
Rename(p, o, dir) ==
    /\ run[p] = "publish"
    /\ IF dir # Absent /\ out[o] = Absent
       THEN Step(p, "publish", "done") /\ out' = [out EXCEPT ![o] = dir]
       ELSE Step(p, "publish", "failed") /\ UNCHANGED out

\* Bound: only what a tool that was alone has published is damaged.
Damages(o, dir) ==
    /\ \E p \in Started : Started = {p} /\ run[p] = "done"
    /\ out[o] # Absent
    /\ damage < MaxDamage
    /\ damage' = damage + 1
    /\ out' = [out EXCEPT ![o] = dir]
    /\ UNCHANGED run
=============================================================================
