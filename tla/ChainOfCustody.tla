--------------------------- MODULE ChainOfCustody ---------------------------
(***************************************************************************)
(* The chain of custody of a container, provenance/chain_of_custody.jsonl  *)
(* on a local file system, and its two kinds of appenders: the command     *)
(* line tools, through ProvenanceWriter (offf-core/src/provenance.rs),     *)
(* which counts the events when it is opened and appends at the end of the *)
(* file; and the access service (append_provenance, through the local half *)
(* of append_jsonl_line in offf-core/src/storage.rs), which counts, reads, *)
(* truncates and rewrites the file for each event.  There is no lock.      *)
(***************************************************************************)
EXTENDS Naturals, Sequences, FiniteSets, SequencesExt

CONSTANTS
    Writers,    \* command line tools, each with a ProvenanceWriter
    Services,   \* requests to the access service
    Exclusive,  \* TRUE: appenders do not overlap
    MayStop,    \* TRUE: appenders are killed and writes fail
    MayMisread, \* TRUE: a read of the file may fail and a later one succeed
    MaxEvents,  \* bound on events
    NoFile,     \* the file does not exist
    NL,         \* the newline after an event
    Part        \* a part of the text of an event

VARIABLES
    file,    \* the file: texts of events, parts of them, and newlines
    proc,    \* the appenders
    made,    \* events made so far
    acked    \* events whose appender was told that they are stored

vars == <<file, proc, made, acked>>

Procs == Writers \cup Services

\* An event: its event_id, and a number that tells it from the others.
Event == [id : Nat, n : Nat]

Pieces == Seq(Event \cup {NL, Part})

Steps == {"idle", "count", "ready", "newline", "load", "truncate", "write"}

Proc == [pc : Steps, counter : Nat, event : Event, text : Pieces]

Rest == [pc |-> "idle", counter |-> 0, event |-> [id |-> 0, n |-> 0], text |-> <<>>]

ASSUME CustodyAssumption ==
    /\ Exclusive \in BOOLEAN /\ MayStop \in BOOLEAN /\ MayMisread \in BOOLEAN
    /\ MaxEvents \in Nat
    /\ NL \notin Event /\ Part \notin Event /\ NL # Part
    /\ NoFile \notin Pieces

TypeOK ==
    /\ file \in Pieces \cup {NoFile}
    /\ proc \in [Procs -> Proc]
    /\ made \in Nat
    /\ acked \subseteq Event

-----------------------------------------------------------------------------
(* The file.                                                               *)

Content == IF file = NoFile THEN <<>> ELSE file

LineStarts(f) == {i \in 1..Len(f) : f[i] # NL /\ (i = 1 \/ f[i - 1] = NL)}

\* Mutant: every line counts, and the first is line one.
CountLines_from_one(f) == Cardinality(LineStarts(f)) + 1

\* content.lines() that are not blank.
CountLines(f) == Cardinality(LineStarts(f))

Idle(p) == proc[p].pc = "idle"

Goto(p, step) == proc' = [proc EXCEPT ![p] = [@ EXCEPT !.pc = step]]

Return(p) == proc' = [proc EXCEPT ![p] = Rest]

\* One tool or request at a time, when they are exclusive.
MayBegin(p) == Idle(p) /\ (Exclusive => \A q \in Procs : Idle(q))

-----------------------------------------------------------------------------
(* ProvenanceWriter.                                                       *)

Init ==
    /\ file = NoFile
    /\ proc = [p \in Procs |-> Rest]
    /\ made = 0
    /\ acked = {}

\* ProvenanceWriter::new creates the file ...
Open(p) ==
    /\ p \in Writers
    /\ MayBegin(p)
    /\ made < MaxEvents
    /\ file' = Content
    /\ Goto(p, "count")
    /\ UNCHANGED <<made, acked>>

\* ... and counts the events in it.
CountEvents(p) ==
    /\ proc[p].pc = "count"
    /\ proc' = [proc EXCEPT ![p] = [@ EXCEPT !.pc = "ready", !.counter = CountLines(Content)]]
    /\ UNCHANGED <<file, made, acked>>

\* Mutant: the text stays in a buffer that is never flushed.
WriteText_buffered(p) ==
    /\ proc[p].pc = "ready"
    /\ made < MaxEvents
    /\ LET event == [id |-> proc[p].counter, n |-> made] IN
         proc' = [proc EXCEPT ![p] = [@ EXCEPT !.pc = "newline", !.event = event]]
    /\ made' = made + 1
    /\ UNCHANGED <<file, acked>>

\* append: writeln! hands the text and the newline to the file one by one.
WriteText(p) ==
    /\ proc[p].pc = "ready"
    /\ made < MaxEvents
    /\ LET event == [id |-> proc[p].counter, n |-> made] IN
         /\ file' = Append(Content, event)
         /\ proc' = [proc EXCEPT ![p] = [@ EXCEPT !.pc = "newline", !.event = event]]
    /\ made' = made + 1
    /\ UNCHANGED acked

WriteTextPartly(p) ==
    /\ MayStop
    /\ proc[p].pc = "ready"
    /\ made < MaxEvents
    /\ file' = Append(Content, Part)
    /\ made' = made + 1
    /\ Return(p)
    /\ UNCHANGED acked

\* Mutant: the counter is not advanced for the next event.
WriteNewline_uncounted(p) ==
    /\ proc[p].pc = "newline"
    /\ file' = Append(Content, NL)
    /\ acked' = acked \cup {proc[p].event}
    /\ proc' = [proc EXCEPT ![p] = [@ EXCEPT !.pc = "ready"]]
    /\ UNCHANGED made

WriteNewline(p) ==
    /\ proc[p].pc = "newline"
    /\ file' = Append(Content, NL)
    /\ acked' = acked \cup {proc[p].event}
    /\ proc' = [proc EXCEPT ![p] = [@ EXCEPT !.pc = "ready", !.counter = proc[p].counter + 1]]
    /\ UNCHANGED made

Close(p) ==
    /\ proc[p].pc = "ready"
    /\ Return(p)
    /\ UNCHANGED <<file, made, acked>>

-----------------------------------------------------------------------------
(* append_provenance and append_jsonl_line.                                *)

\* A read that fails counts as an empty file (unwrap_or_default).
Request(p) ==
    /\ p \in Services
    /\ MayBegin(p)
    /\ made < MaxEvents
    /\ \E count \in {CountLines(Content)} \cup (IF MayMisread THEN {0} ELSE {}) :
          proc' = [proc EXCEPT ![p] = [@ EXCEPT !.pc = "load",
                                                !.event = [id |-> count, n |-> made]]]
    /\ made' = made + 1
    /\ UNCHANGED <<file, acked>>

LoadLog(p) ==
    /\ proc[p].pc = "load"
    /\ proc' = [proc EXCEPT ![p] =
                  [@ EXCEPT !.pc = "truncate", !.text = Content \o <<proc[p].event, NL>>]]
    /\ UNCHANGED <<file, made, acked>>

TruncateLog(p) ==
    /\ proc[p].pc = "truncate"
    /\ file' = <<>>
    /\ Goto(p, "write")
    /\ UNCHANGED <<made, acked>>

\* The text goes to the start of the file; what others made longer than it in
\* the meantime stays behind it.
WriteLog(p) ==
    /\ proc[p].pc = "write"
    /\ LET tail == SubSeq(Content, Len(proc[p].text) + 1, Len(Content)) IN
         \/ file' = proc[p].text \o tail
         \/ tail # <<>> /\ file' = proc[p].text \o <<Part>> \o Tail(tail)
    /\ acked' = acked \cup {proc[p].event}
    /\ Return(p)
    /\ UNCHANGED made

WriteLogPartly(p) ==
    /\ MayStop
    /\ proc[p].pc = "write"
    /\ Content = <<>>
    /\ \E k \in 0..(Len(proc[p].text) - 1), cut \in BOOLEAN :
          file' = SubSeq(proc[p].text, 1, k) \o (IF cut THEN <<Part>> ELSE <<>>)
    /\ Return(p)
    /\ UNCHANGED <<made, acked>>

\* An appender is killed, or fails, between two steps.
Stop(p) ==
    /\ MayStop
    /\ ~Idle(p)
    /\ Return(p)
    /\ UNCHANGED <<file, made, acked>>

-----------------------------------------------------------------------------
Step(p) ==
    \/ Open(p) \/ CountEvents(p) \/ WriteText(p) \/ WriteTextPartly(p) \/ WriteNewline(p)
    \/ Close(p)
    \/ Request(p) \/ LoadLog(p) \/ TruncateLog(p) \/ WriteLog(p) \/ WriteLogPartly(p)
    \/ Stop(p)

Next == \E p \in Procs : Step(p)

Spec == Init /\ [][Next]_vars

-----------------------------------------------------------------------------
(* Properties.                                                             *)

Rested == \A p \in Procs : Idle(p)

\* The lines that begin among the first n pieces, and whether they parse as far
\* as these pieces go.
LinesTo(f, n) == {j \in LineStarts(f) : j <= n}

ParseTo(f, n) == \A j \in LinesTo(f, n) : f[j] # Part /\ (j < n => f[j + 1] = NL)

\* When appenders do not overlap, an event_id is the number of lines in front of
\* the event, so that it is unique, as long as the lines so far parse: appenders
\* that were cut short make ids repeat only behind a line that shows damage.
\* (A read that fails makes the id 0.)
DamageShows ==
    \A i \in 1..Len(Content) :
        Content[i] \in Event /\ ParseTo(Content, i)
        => Content[i].id \in {Cardinality(LinesTo(Content, i - 1))}
                             \cup (IF MayMisread THEN {0} ELSE {})

\* When nobody is appending, every event whose appender was told Ok is
\* somewhere in the file.
AckedKept == Rested => \A e \in acked : \E i \in 1..Len(Content) : Content[i] = e

\* What is in the file stays there: the tools only ever add to its end.
OnlyGrows == [][IsPrefix(Content, Content')]_vars

\* An event_id never runs ahead of the events: it is at most the number of
\* texts in front of it, however the tools overlap or stop.
IdsNeverAhead ==
    \A i \in 1..Len(Content) : Content[i] \in Event =>
        Content[i].id <= Cardinality({j \in 1..(i - 1) : Content[j] # NL})
=============================================================================
