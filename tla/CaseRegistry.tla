---------------------------- MODULE CaseRegistry ----------------------------
(***************************************************************************)
(* A case directory (offf-core/src/case.rs): the case manifest with its    *)
(* root count, the registry of evidence roots, the case provenance log,    *)
(* the global object indexes and the verify report; and the operations     *)
(* create_case, attach_root, detach_root, build_case_global_indexes and    *)
(* verify_case, each a sequence of whole-file reads and writes without a   *)
(* lock.  A JSON document is replaced at once (write_json_pretty: .tmp     *)
(* file and rename); the provenance log and the Parquet indexes are        *)
(* rewritten in place.  A process may be killed, or a call may fail, at    *)
(* every step.  (That two overlapping writers share the .tmp name is left  *)
(* out: it only adds failures to what overlap does.)                       *)
(***************************************************************************)
EXTENDS Naturals, Sequences, FiniteSets

CONSTANTS
    Roots,      \* root ids
    Procs,      \* processes that use the library on one case directory
    MayStop,    \* TRUE: processes are killed and calls fail
    MaxOps,     \* bound on operations
    MaxClashes, \* bound on operations that clash, see Watched
    NoFile,     \* a path that does not exist
    Torn,       \* a Parquet file that was created and not finished
    Broken,     \* a provenance line that is not a complete event
    NoRoot      \* the root of an event about the whole case

VARIABLES
    manifest,   \* case_manifest.json
    registry,   \* evidence_roots.json
    report,     \* reports/verify/case_verify_report.json
    events,     \* provenance/case_provenance.jsonl
    index,      \* the five files of indexes/objects
    op,         \* the operation each process is in
    ops,        \* operations so far
    clashes,    \* history: those that began while another ran, or made a case anew
    met,        \* history: the processes whose operation overlaps, or overlapped, another
    touched     \* history: the roots whose status others changed since a process read
                \* the registry that it is about to write back

history == <<clashes, met, touched>>

vars == <<manifest, registry, report, events, index, op, ops, history>>

\* objects, edges, derivations (Parquet); root summary, relations (JSON).
IndexFiles == 1..5

InPlace(f) == f <= 3

\* root_count, whether global_indexes names the summary and relations files,
\* and whether verify_reports names the report.
Manifest == [count : Nat, indexed : BOOLEAN, reported : BOOLEAN]

\* Every root id with its status; the roots of the file are those not absent.
Registry == [Roots -> {"absent", "active", "detached"}]

Verdict == {"valid", "warning", "invalid"}

Event == [id : Nat, root : Roots \cup {NoRoot}, newline : BOOLEAN,
          action : {"root_attached", "root_detached", "case_verified"}]

Text == Seq(Event \cup {Broken})

Steps == {"idle", "begun", "manifest", "registry", "report", "index",
          "indexFill", "count", "load", "truncate", "write"}

Kinds == {"create", "attach", "detach", "build", "verify"}

Op == [pc : Steps, kind : Kinds,
       root : Roots \cup {NoRoot}, man : Manifest, reg : Registry, verdict : Verdict,
       file : IndexFiles, roots : SUBSET Roots, id : Nat, text : Text]

\* A process that is in no operation.
Rest == [pc |-> "idle", kind |-> "create", root |-> NoRoot,
         man |-> [count |-> 0, indexed |-> FALSE, reported |-> FALSE],
         reg |-> [r \in Roots |-> "absent"], verdict |-> "valid",
         file |-> 1, roots |-> {}, id |-> 0, text |-> <<>>]

ASSUME CaseAssumption ==
    /\ IsFiniteSet(Roots)
    /\ MayStop \in BOOLEAN
    /\ NoFile \notin Manifest /\ NoFile \notin Registry
    /\ NoFile \notin Text /\ \A S \in SUBSET Roots : NoFile # S
    /\ NoFile # Torn /\ Broken \notin Event

TypeOK ==
    /\ manifest \in Manifest \cup {NoFile}
    /\ registry \in Registry \cup {NoFile}
    /\ report \in Verdict \cup {NoFile}
    /\ events \in Text \cup {NoFile}
    /\ index \in [IndexFiles -> {NoFile, Torn} \cup SUBSET Roots]
    /\ op \in [Procs -> Op]
    /\ ops \in Nat /\ clashes \in Nat
    /\ met \subseteq Procs
    /\ touched \in [Procs -> SUBSET Roots]

-----------------------------------------------------------------------------
(* Helpers.                                                                *)

Idle(p) == op[p].pc = "idle"

Registered(reg) == {r \in Roots : reg[r] # "absent"}

Active(reg) == {r \in Roots : reg[r] = "active"}

\* validate_registry; case ids agree and root ids do not repeat by the types.
validate_registry(man, reg) == man.count = Cardinality(Registered(reg))

Goto(p, step) == op' = [op EXCEPT ![p] = [@ EXCEPT !.pc = step]]

Return(p) == op' = [op EXCEPT ![p] = Rest]

EventLines == IF events = NoFile THEN <<>> ELSE events

\* What a text may become when a line is pushed to it: the line merges with a
\* last line that has no newline, as a broken line may or may not.
Extend(text, event) ==
    IF text = <<>> THEN {<<event>>}
    ELSE IF text[Len(text)] = Broken THEN {text, Append(text, event)}
    ELSE IF text[Len(text)].newline THEN {Append(text, event)}
    ELSE {[text EXCEPT ![Len(text)] = Broken]}

\* "case_verified" stands for "case_verify_failed" too.
NewEvent(p) ==
    [id |-> op[p].id, newline |-> TRUE,
     root |-> IF op[p].kind = "verify" THEN NoRoot ELSE op[p].root,
     action |-> CASE op[p].kind = "attach" -> "root_attached"
                  [] op[p].kind = "detach" -> "root_detached"
                  [] OTHER -> "case_verified"]

\* What is left of a text when the process dies inside the write: whole
\* lines, then nothing, a part of a line, or a line without its newline.
CutOff(text) ==
    UNION { {SubSeq(text, 1, n), Append(SubSeq(text, 1, n), Broken)} \cup
              (IF text[n + 1] = Broken THEN {}
               ELSE {Append(SubSeq(text, 1, n), [text[n + 1] EXCEPT !.newline = FALSE])})
            : n \in 0..(Len(text) - 1) }

-----------------------------------------------------------------------------
Init ==
    /\ manifest = NoFile /\ registry = NoFile /\ report = NoFile /\ events = NoFile
    /\ index = [f \in IndexFiles |-> NoFile]
    /\ op = [p \in Procs |-> Rest]
    /\ ops = 0 /\ clashes = 0
    /\ met = {}
    /\ touched = [p \in Procs |-> {}]

Start(p) ==
    /\ Idle(p)
    /\ ops < MaxOps
    /\ ops' = ops + 1

\* create_case with a registry that passes validate_registry.  The code does not
\* ask whether the directory holds a case, or whether another process uses it.
create_case(p) ==
    /\ Start(p)
    /\ \E S \in SUBSET Roots :
          op' = [op EXCEPT ![p] =
                   [@ EXCEPT !.pc = "manifest", !.kind = "create",
                             !.man = [count |-> Cardinality(S), indexed |-> FALSE,
                                      reported |-> FALSE],
                             !.reg = [r \in Roots |-> IF r \in S THEN "active" ELSE "absent"]]]
    /\ UNCHANGED <<manifest, registry, report, events, index>>

\* The other operations begin by reading the manifest.
Begin(p) ==
    /\ Start(p)
    /\ manifest # NoFile
    /\ \E kind \in {"attach", "detach", "build", "verify"}, root \in Roots :
          op' = [op EXCEPT ![p] = [@ EXCEPT !.pc = "begun", !.kind = kind,
                                            !.root = root, !.man = manifest]]
    /\ UNCHANGED <<manifest, registry, report, events, index>>

\* ... and then the registry.
Loaded(p, kind) ==
    /\ op[p].pc = "begun"
    /\ op[p].kind = kind
    /\ registry # NoFile
    /\ UNCHANGED <<manifest, registry, report, events, index, ops>>

\* Mutant: a root id that is registered already is accepted.
attach_root_again(p) ==
    /\ Loaded(p, "attach")
    /\ op' = [op EXCEPT ![p] =
                [@ EXCEPT !.pc = "manifest",
                          !.reg = [registry EXCEPT ![op[p].root] = "active"],
                          !.man = [op[p].man EXCEPT !.count =
                                     Cardinality(Registered(registry)) + 1]]]

\* Mutant: the count is derived from the manifest, not from the registry.
attach_root_increments(p) ==
    /\ Loaded(p, "attach")
    /\ registry[op[p].root] = "absent"
    /\ op' = [op EXCEPT ![p] =
                [@ EXCEPT !.pc = "manifest",
                          !.reg = [registry EXCEPT ![op[p].root] = "active"],
                          !.man = [op[p].man EXCEPT !.count = op[p].man.count + 1]]]

attach_root(p) ==
    /\ Loaded(p, "attach")
    /\ registry[op[p].root] = "absent"
    /\ op' = [op EXCEPT ![p] =
                [@ EXCEPT !.pc = "manifest",
                          !.reg = [registry EXCEPT ![op[p].root] = "active"],
                          !.man = [op[p].man EXCEPT !.count =
                                     Cardinality(Registered(registry)) + 1]]]

\* Mutant: a detached root leaves the registry.
detach_root_removes(p) ==
    /\ Loaded(p, "detach")
    /\ registry[op[p].root] # "absent"
    /\ op' = [op EXCEPT ![p] =
                [@ EXCEPT !.pc = "registry",
                          !.reg = [registry EXCEPT ![op[p].root] = "absent"]]]

detach_root(p) ==
    /\ Loaded(p, "detach")
    /\ registry[op[p].root] # "absent"
    /\ op' = [op EXCEPT ![p] =
                [@ EXCEPT !.pc = "registry",
                          !.reg = [registry EXCEPT ![op[p].root] = "detached"]]]

\* Some active roots are left out: unavailable, or without an object index.
build_case_global_indexes(p) ==
    /\ Loaded(p, "build")
    /\ validate_registry(op[p].man, registry)
    /\ \E S \in SUBSET Active(registry) :
          op' = [op EXCEPT ![p] = [@ EXCEPT !.pc = "index", !.file = 1, !.roots = S]]

\* The verdict depends on roots and indexes; an inactive root forbids "valid".
verify_case(p) ==
    /\ Loaded(p, "verify")
    /\ validate_registry(op[p].man, registry)
    /\ \E v \in Verdict :
          /\ v = "valid" => Active(registry) = Registered(registry)
          /\ op' = [op EXCEPT ![p] = [@ EXCEPT !.pc = "report", !.verdict = v]]

-----------------------------------------------------------------------------
(* Documents.                                                              *)

WriteManifest(p) ==
    /\ op[p].pc = "manifest"
    /\ manifest' = op[p].man
    /\ CASE op[p].kind \in {"create", "attach"} -> Goto(p, "registry")
         [] op[p].kind = "verify" -> Goto(p, "count")
         [] OTHER -> Return(p)
    /\ UNCHANGED <<registry, report, events, index, ops>>

WriteRegistry(p) ==
    /\ op[p].pc = "registry"
    /\ registry' = op[p].reg
    /\ IF op[p].kind = "create" THEN Return(p) ELSE Goto(p, "count")
    /\ UNCHANGED <<manifest, report, events, index, ops>>

\* The manifest that was read at the start is written back with the report's
\* path, unless it names it already.
WriteReport(p) ==
    /\ op[p].pc = "report"
    /\ report' = op[p].verdict
    /\ op' = [op EXCEPT ![p] =
                [@ EXCEPT !.pc = IF op[p].man.reported THEN "count" ELSE "manifest",
                          !.man = [op[p].man EXCEPT !.reported = TRUE]]]
    /\ UNCHANGED <<manifest, registry, events, index, ops>>

\* Where an operation goes after an index file: the next one, or the manifest
\* that was read at the start, written back with the paths of the indexes.
NextIndex(p) ==
    op' = [op EXCEPT ![p] =
             IF op[p].file < 5
             THEN [op[p] EXCEPT !.pc = "index", !.file = op[p].file + 1]
             ELSE [op[p] EXCEPT !.pc = "manifest",
                                !.man = [op[p].man EXCEPT !.indexed = TRUE]]]

CreateIndex(p) ==
    /\ op[p].pc = "index"
    /\ InPlace(op[p].file)
    /\ index' = [index EXCEPT ![op[p].file] = Torn]
    /\ Goto(p, "indexFill")
    /\ UNCHANGED <<manifest, registry, report, events, ops>>

WriteIndex(p) ==
    /\ op[p].pc = "indexFill" \/ (op[p].pc = "index" /\ ~InPlace(op[p].file))
    /\ index' = [index EXCEPT ![op[p].file] = op[p].roots]
    /\ NextIndex(p)
    /\ UNCHANGED <<manifest, registry, report, events, ops>>

-----------------------------------------------------------------------------
(* The provenance log: next_case_event_id, append_case_provenance_event.   *)

\* Mutant: the position of the last line is taken for the number of lines.
CountEvents_last(p) ==
    /\ op[p].pc = "count"
    /\ LET log == EventLines IN
         /\ \A i \in 1..Len(log) : log[i] # Broken
         /\ op' = [op EXCEPT ![p] =
                     [@ EXCEPT !.pc = "load", !.id = IF log = <<>> THEN 0 ELSE Len(log) - 1]]
    /\ UNCHANGED <<manifest, registry, report, events, index, ops>>

\* A line that does not parse is an error, which ends the operation here.
CountEvents(p) ==
    /\ op[p].pc = "count"
    /\ LET log == EventLines IN
         /\ \A i \in 1..Len(log) : log[i] # Broken
         /\ op' = [op EXCEPT ![p] = [@ EXCEPT !.pc = "load", !.id = Len(log)]]
    /\ UNCHANGED <<manifest, registry, report, events, index, ops>>

LoadLog(p) ==
    /\ op[p].pc = "load"
    /\ LET log == EventLines IN
         \E text \in Extend(log, NewEvent(p)) :
            op' = [op EXCEPT ![p] = [@ EXCEPT !.pc = "truncate", !.text = text]]
    /\ UNCHANGED <<manifest, registry, report, events, index, ops>>

TruncateLog(p) ==
    /\ op[p].pc = "truncate"
    /\ events' = <<>>
    /\ Goto(p, "write")
    /\ UNCHANGED <<manifest, registry, report, index, ops>>

\* What may stay behind a shorter text: a part of a line and whole lines that
\* another process wrote since.
Tails(text) ==
    {<<>>} \cup UNION { {SubSeq(text, k, Len(text)), <<Broken>> \o SubSeq(text, k, Len(text))}
                       : k \in 2..(Len(text) + 1) }

WriteLog(p) ==
    /\ op[p].pc = "write"
    /\ \E tail \in Tails(EventLines) : events' = op[p].text \o tail
    /\ Return(p)
    /\ UNCHANGED <<manifest, registry, report, index, ops>>

WriteLogPartly(p) ==
    /\ MayStop
    /\ op[p].pc = "write"
    /\ \/ events' \in CutOff(op[p].text)
       \/ \E n \in 0..(Len(op[p].text) - 1), tail \in Tails(EventLines) :
             events' = SubSeq(op[p].text, 1, n) \o tail
    /\ Return(p)
    /\ UNCHANGED <<manifest, registry, report, index, ops>>

\* A check that fails ends the operation: no registry, a root id that is
\* registered already or not at all, a count that does not match, a root
\* descriptor or an index that does not hold, a provenance line that does not
\* parse.
Refuse(p) ==
    /\ \/ /\ op[p].pc = "begun"
          /\ registry # NoFile =>
               \/ op[p].kind = "attach" /\ registry[op[p].root] # "absent"
               \/ op[p].kind = "detach" /\ registry[op[p].root] = "absent"
               \/ op[p].kind \in {"build", "verify"}
       \/ /\ op[p].pc = "count"
          /\ events # NoFile /\ \E i \in 1..Len(events) : events[i] = Broken
    /\ Return(p)
    /\ UNCHANGED <<manifest, registry, report, events, index, ops>>

\* A read or a write fails, or the process is killed.  What was written stays.
Stop(p) ==
    /\ MayStop
    /\ ~Idle(p)
    /\ Return(p)
    /\ UNCHANGED <<manifest, registry, report, events, index, ops>>

-----------------------------------------------------------------------------
Step(p) ==
    \/ create_case(p) \/ Begin(p)
    \/ attach_root(p) \/ detach_root(p) \/ build_case_global_indexes(p) \/ verify_case(p)
    \/ WriteManifest(p) \/ WriteRegistry(p) \/ WriteReport(p)
    \/ CreateIndex(p) \/ WriteIndex(p)
    \/ CountEvents(p) \/ LoadLog(p) \/ TruncateLog(p) \/ WriteLog(p) \/ WriteLogPartly(p)
    \/ Refuse(p) \/ Stop(p)

\* A process holds a copy of the registry that it will write back.
HoldsCopy(p) == op[p].kind \in {"attach", "detach"} /\ op[p].pc \in {"manifest", "registry"}

\* The history of a step.  An operation clashes when it begins while another
\* runs, or makes a case where there is one.
Watched(p) ==
    LET others  == {q \in Procs \ {p} : ~Idle(q)}
        begins  == Idle(p) /\ ~Idle(p)'
        anew    == op'[p].kind = "create" /\ registry # NoFile
        changed == IF registry' = registry THEN {}
                   ELSE {r \in Roots : registry = NoFile \/ registry'[r] # registry[r]}
    IN  /\ clashes' = IF begins /\ (others # {} \/ anew) THEN clashes + 1 ELSE clashes
        /\ clashes' <= MaxClashes
        /\ met' = IF Idle(p)' THEN met \ {p}
                  ELSE IF begins /\ others # {} THEN met \cup others \cup {p} ELSE met
        /\ touched' = [q \in Procs |-> IF HoldsCopy(q)' THEN touched[q] \cup changed ELSE {}]

Next == \E p \in Procs : Step(p) /\ Watched(p)

Spec == Init /\ [][Next]_vars

-----------------------------------------------------------------------------
(* Properties.                                                             *)

\* As long as no operations clash, failures at any step let root_count run
\* ahead of the registry by one root at most (the manifest is written first),
\* and never behind it.
CountDrift ==
    (clashes = 0 /\ manifest # NoFile /\ registry # NoFile) =>
        manifest.count \in {Cardinality(Registered(registry)),
                            Cardinality(Registered(registry)) + 1}

\* Attaching a root repairs what failures and clashes left behind, if nobody
\* else is in the case meanwhile: once the registry is written, manifest and
\* registry agree whatever they were before.
AttachHeals ==
    [][\A p \in Procs :
         p \notin met /\ op[p].kind = "attach" /\ registry' # registry =>
             validate_registry(manifest', registry')]_vars

\* As long as no operations clash, the provenance never claims more than
\* happened: an attached root of an event is in the registry, a detached one is
\* detached there, and this stays so across failures.  (The registry is written
\* before the event.)
EventsJustified ==
    clashes = 0 =>
      \A i \in 1..Len(EventLines) : EventLines[i] # Broken =>
        /\ registry # NoFile
        /\ EventLines[i].action = "root_attached" => registry[EventLines[i].root] # "absent"
        /\ EventLines[i].action = "root_detached" => registry[EventLines[i].root] = "detached"

\* As long as no operations clash, the events of a case have ids of their own,
\* across failures inside the rewriting of the log.  (The id is the number of
\* lines, and a line that does not parse stops the count.)
EventIdsUnique ==
    clashes = 0 =>
      \A i, j \in 1..Len(EventLines) :
        /\ EventLines[i] # Broken /\ EventLines[j] # Broken
        /\ EventLines[i].id = EventLines[j].id
        => i = j

\* A registered root is dropped, or a detached one active again.
Loses(r) ==
    /\ registry # NoFile
    /\ \/ registry[r] # "absent" /\ registry'[r] = "absent"
       \/ registry[r] = "detached" /\ registry'[r] # "detached"

\* An operation that writes back the copy of the registry it read loses at most
\* what others have changed since: whatever it found there, a root it does not
\* name or one that was detached before, is there after the write.  (Nothing
\* keeps overlapping operations from losing the changes of each other.)
RootsAdvance ==
    [][\A r \in Roots : Loses(r) =>
         \E p \in Procs : /\ op[p].pc = "registry" /\ op'[p].pc # "registry"
                          /\ op[p].kind = "create" \/ r \in touched[p]]_vars

=============================================================================
