------------------------------ MODULE S3Append ------------------------------
(***************************************************************************)
(* ContainerRef::append_jsonl_line on S3 (offf-core/src/storage.rs): read  *)
(* the object, add the line, and put the object back under the condition   *)
(* that it still has the ETag that was read; on a failed condition read    *)
(* again, at most MAX_ATTEMPTS times.  Any number of calls work on the     *)
(* same key from any number of processes.                                  *)
(*                                                                         *)
(* The ETag of an object written by a single put is the hash of its        *)
(* content, so it is identified with the content here.  Requests and       *)
(* replies travel over a network: a reply may be lost, the SDK then sends  *)
(* the same request again, and a request may be served after its sender    *)
(* gave up.                                                                *)
(***************************************************************************)
EXTENDS Naturals, Sequences, FiniteSets, Functions

CONSTANTS
    Calls,          \* the append calls; a call is identified with its line
    MAX_ATTEMPTS,   \* rounds of the loop (8 in the code)
    SdkAttempts,    \* how often the SDK sends one request
    RepliesLost,    \* TRUE: the reply to a put may be lost
    NoObject        \* a key without an object

ASSUME S3Assumption ==
    /\ MAX_ATTEMPTS \in Nat \ {0}
    /\ SdkAttempts \in Nat \ {0}
    /\ RepliesLost \in BOOLEAN
    /\ NoObject \notin Seq(Calls)

VARIABLES
    object,  \* the object under the key
    call,    \* the state of each append call
    net      \* put requests that the server has not served

vars == <<object, call, net>>

Content == Seq(Calls) \cup {NoObject}

Request == [call : Calls, base : Content]

CallState == [pc : {"idle", "get", "put", "sent", "ok", "err"},
              seen : Content, tries : 0..MAX_ATTEMPTS, sends : 0..SdkAttempts]

TypeOK ==
    /\ object \in Content
    /\ call \in [Calls -> CallState]
    /\ net \subseteq Request

Lines(content) == IF content = NoObject THEN <<>> ELSE content

Goto(c, pc) == call' = [call EXCEPT ![c].pc = pc]

-----------------------------------------------------------------------------
Init ==
    /\ object = NoObject
    /\ call = [c \in Calls |-> [pc |-> "idle", seen |-> NoObject,
                                tries |-> 0, sends |-> 0]]
    /\ net = {}

\* append_jsonl_line is called.
Start(c) ==
    /\ call[c].pc = "idle"
    /\ Goto(c, "get")
    /\ UNCHANGED <<object, net>>

\* get_object: the content with its ETag, or a missing object.
Get(c) ==
    /\ call[c].pc = "get"
    /\ call' = [call EXCEPT ![c] = [@ EXCEPT !.pc = "put", !.seen = object, !.sends = 0]]
    /\ UNCHANGED <<object, net>>

\* A failed read; also a missing object whose error text names none of
\* NoSuchKey, NotFound and 404: the wording is the SDK's, so either may occur.
GetFails(c) ==
    /\ call[c].pc = "get"
    /\ Goto(c, "err")
    /\ UNCHANGED <<object, net>>

\* put_object with if_match(etag), or if_none_match("*") for a new object.
Put(c) ==
    /\ call[c].pc = "put"
    /\ call' = [call EXCEPT ![c] = [@ EXCEPT !.pc = "sent", !.sends = 1]]
    /\ net' = net \cup {[call |-> c, base |-> call[c].seen]}
    /\ UNCHANGED object

-----------------------------------------------------------------------------
(* The server, and what the caller makes of its answer.                    *)

ConditionHolds(r) == object = r.base

\* Mutant: the line goes in front of the others.
Stored_in_front(r) == <<r.call>> \o Lines(r.base)

Stored(r) == Append(Lines(r.base), r.call)

Waits(r) == call[r.call].pc = "sent" /\ call[r.call].seen = r.base

\* Mutant: the same content is put again after a failed condition.
Retry_stale(c) == Goto(c, "put")

\* Mutant: as the first one, with the rounds counted.
Retry_unread(c) ==
    \E pc \in {"err"} \cup (IF call[c].tries + 1 < MAX_ATTEMPTS THEN {"put"} ELSE {}) :
        call' = [call EXCEPT ![c] = [@ EXCEPT !.pc = pc, !.tries = call[c].tries + 1]]

\* is_precondition_error(..) => continue while rounds are left.  An error whose
\* text is_precondition_error does not recognise is returned at once.
Retry(c) ==
    \E pc \in {"err"} \cup (IF call[c].tries + 1 < MAX_ATTEMPTS THEN {"get"} ELSE {}) :
        call' = [call EXCEPT ![c] = [@ EXCEPT !.pc = pc, !.tries = call[c].tries + 1]]

\* The server stores the new content; its reply arrives, or is lost, or
\* nobody waits for it any more.
ServeStores(r) ==
    /\ ConditionHolds(r)
    /\ object' = Stored(r)
    /\ net' = net \ {r}
    /\ \/ Waits(r) /\ Goto(r.call, "ok")
       \/ (RepliesLost \/ ~Waits(r)) /\ UNCHANGED call

\* 412 Precondition Failed.
ServeRefuses(r) ==
    /\ ~ConditionHolds(r)
    /\ net' = net \ {r}
    /\ \/ Waits(r) /\ Retry(r.call)
       \/ (RepliesLost \/ ~Waits(r)) /\ UNCHANGED call
    /\ UNCHANGED object

\* The SDK waited for the reply long enough and sends the request again.
Resend(c) ==
    /\ RepliesLost
    /\ call[c].pc = "sent"
    /\ call[c].sends < SdkAttempts
    /\ call' = [call EXCEPT ![c].sends = @ + 1]
    /\ net' = net \cup {[call |-> c, base |-> call[c].seen]}
    /\ UNCHANGED object

\* Mutant: every failed put is tried again, whatever the error.
GiveUp_retries(c) ==
    /\ call[c].pc = "sent"
    /\ Goto(c, "get")
    /\ UNCHANGED <<object, net>>

\* The SDK (or the process) gives up: any error but a failed condition is
\* returned to the caller, while the request may still be on its way.
GiveUp(c) ==
    /\ call[c].pc = "sent"
    /\ Goto(c, "err")
    /\ UNCHANGED <<object, net>>

Step(c) == Start(c) \/ Get(c) \/ Put(c) \/ GetFails(c) \/ Resend(c) \/ GiveUp(c)

Server == \E r \in net : ServeStores(r) \/ ServeRefuses(r)

Next == Server \/ \E c \in Calls : Step(c)

Spec == Init /\ [][Next]_vars

\* A call that runs keeps running, and the SDK comes back with some outcome for
\* every request; nothing is assumed of the order in which the server works.
FairSpec ==
    Spec /\ \A c \in Calls : WF_vars(Get(c) \/ Put(c) \/ GiveUp(c))

-----------------------------------------------------------------------------
(* Properties.                                                             *)

\* A caller told Ok finds its line in the object.
AckedIsStored ==
    \A c \in Calls : call[c].pc = "ok" => c \in Range(Lines(object))

Copies(c) == {i \in 1..Len(Lines(object)) : Lines(object)[i] = c}

\* Every further copy of a line costs its call a round, whatever replies are
\* lost and however often the SDK sends a request: the copies are bounded by
\* the rounds of the loop, not by the number of requests.
RepeatsPaidByRounds ==
    \A c \in Calls : Cardinality(Copies(c)) <= call[c].tries + 1

\* A failed round is always due to a line that was stored in the meantime: a
\* call can run out of rounds only when the object has MAX_ATTEMPTS lines.
RoundsPaidByProgress ==
    \A c \in Calls : call[c].tries <= Len(Lines(object))

\* Every call that started comes to an answer.
CallEnds == \A c \in Calls : call[c].pc = "get" ~> call[c].pc \in {"ok", "err"}

-----------------------------------------------------------------------------
Log == INSTANCE AppendOnlyLog WITH
    lines <- Lines(object), acked <- {c \in Calls : call[c].pc = "ok"}

\* The conditional put makes the object an append-only log.
ImplementsLog == Log!Spec
=============================================================================
