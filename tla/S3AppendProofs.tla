--------------------------- MODULE S3AppendProofs ---------------------------
(***************************************************************************)
(* Proofs about S3Append, for any set of calls, any number of rounds, and  *)
(* whether replies are lost or not.                                        *)
(***************************************************************************)
EXTENDS S3Append, FiniteSetTheorems, TLAPS

-----------------------------------------------------------------------------
(* Contents.                                                               *)

LEMMA LinesType == \A x \in Content : Lines(x) \in Seq(Calls)
  BY DEF Content, Lines

\* What storing one more line does to a content.
LEMMA StoreGrows ==
  ASSUME NEW x \in Content, NEW c \in Calls
  PROVE  /\ Append(Lines(x), c) \in Content
         /\ Lines(Append(Lines(x), c)) = Append(Lines(x), c)
         /\ Len(Append(Lines(x), c)) = Len(Lines(x)) + 1
         /\ c \in Range(Append(Lines(x), c))
         /\ Range(Lines(x)) \subseteq Range(Append(Lines(x), c))
  <1> DEFINE s == Lines(x)
  <1> DEFINE y == Append(s, c)
  <1>1. s \in Seq(Calls)
    BY LinesType
  <1>2. y \in Seq(Calls) /\ Len(y) = Len(s) + 1
    BY <1>1
  <1>3. Lines(y) = y
    BY <1>2, S3Assumption DEF Lines
  <1>4. \A i \in 1..Len(s) : y[i] = s[i]
    BY <1>1
  <1>5. y[Len(s) + 1] = c
    BY <1>1
  <1>6. DOMAIN y = 1..(Len(s) + 1) /\ DOMAIN s = 1..Len(s) /\ Len(s) \in Nat
    BY <1>1, <1>2
  <1>7. c \in Range(y)
    BY <1>5, <1>6 DEF Range
  <1>8. Range(s) \subseteq Range(y)
    BY <1>4, <1>6 DEF Range
  <1> QED
    BY <1>2, <1>3, <1>7, <1>8 DEF Content

LEMMA LenLines == \A x \in Content : Len(Lines(x)) \in Nat
  BY LinesType

-----------------------------------------------------------------------------
(* Type correctness.                                                       *)

\* The record of one call after the updates that the actions make.
LEMMA CallUpdate ==
  ASSUME NEW r \in CallState
  PROVE  /\ \A pc \in {"idle", "get", "put", "sent", "ok", "err"} :
              [r EXCEPT !.pc = pc] \in CallState
         /\ \A s \in Content : 0 \in 0..SdkAttempts =>
              [r EXCEPT !.pc = "put", !.seen = s, !.sends = 0] \in CallState
         /\ \A n \in 0..SdkAttempts : [r EXCEPT !.pc = "sent", !.sends = n] \in CallState
         /\ \A n \in 0..SdkAttempts : [r EXCEPT !.sends = n] \in CallState
         /\ \A pc \in {"get", "err"}, n \in 0..MAX_ATTEMPTS :
              [r EXCEPT !.pc = pc, !.tries = n] \in CallState
  BY DEF CallState

\* Requests carry calls and contents.
LEMMA RequestType ==
  \A r \in Request : r.call \in Calls /\ r.base \in Content
  BY DEF Request

\* What a failed condition does to the call.
LEMMA RetryStep ==
  ASSUME TypeOK, NEW c \in Calls, call[c].tries < MAX_ATTEMPTS, Retry(c)
  PROVE  /\ call' \in [Calls -> CallState]
         /\ call'[c].pc \in {"get", "err"}
         /\ call'[c].pc = "get" => call'[c].tries < MAX_ATTEMPTS
         /\ call'[c].tries = call[c].tries + 1
         /\ \A d \in Calls \ {c} : call'[d] = call[d]
  <1> DEFINE rec(pc) == [call[c] EXCEPT !.pc = pc, !.tries = call[c].tries + 1]
  <1>1. PICK pc \in {"get", "err"} :
           /\ pc = "get" => call[c].tries + 1 < MAX_ATTEMPTS
           /\ call' = [call EXCEPT ![c] = rec(pc)]
    BY DEF Retry
  <1>2. call[c] \in CallState /\ call \in [Calls -> CallState]
    BY DEF TypeOK
  <1>3. call[c].tries + 1 \in 0..MAX_ATTEMPTS
    BY <1>2, S3Assumption DEF CallState
  <1>4. rec(pc) \in CallState
    BY <1>2, <1>3, CallUpdate
  <1>5. rec(pc).pc = pc /\ rec(pc).tries = call[c].tries + 1
    BY <1>2 DEF CallState
  <1> HIDE DEF rec
  <1> QED
    BY <1>1, <1>2, <1>4, <1>5

\* A call that still waits has rounds left.
RoundsLeft ==
  \A c \in Calls : call[c].pc \in {"idle", "get", "put", "sent"} =>
                     call[c].tries < MAX_ATTEMPTS

\* Rounds are paid for: a content that was read and is no longer current is
\* shorter than the current one.
Paid ==
  \A c \in Calls :
    /\ call[c].tries <= Len(Lines(object))
    /\ call[c].pc \in {"put", "sent"} =>
         /\ call[c].tries <= Len(Lines(call[c].seen))
         /\ \/ call[c].seen = object
            \/ Len(Lines(call[c].seen)) < Len(Lines(object))

Inv == TypeOK /\ RoundsLeft /\ Paid /\ AckedIsStored

-----------------------------------------------------------------------------
(* Steps, in the three ways they touch the state.                          *)

\* A step that moves one call and leaves the object alone.
LEMMA CallStep ==
  ASSUME Inv, NEW c \in Calls, NEW rec \in CallState,
         call' = [call EXCEPT ![c] = rec],
         object' = object,
         net' \subseteq Request,
         rec.pc # "ok",
         rec.tries <= Len(Lines(object)),
         rec.pc \in {"idle", "get", "put", "sent"} => rec.tries < MAX_ATTEMPTS,
         rec.pc \in {"put", "sent"} =>
            /\ rec.tries <= Len(Lines(rec.seen))
            /\ rec.seen = object \/ Len(Lines(rec.seen)) < Len(Lines(object))
  PROVE  Inv'
  <1>1. TypeOK'
    BY DEF Inv, TypeOK
  <1>2. call'[c] = rec /\ \A d \in Calls \ {c} : call'[d] = call[d]
    BY DEF Inv, TypeOK
  <1>3. Lines(object)' = Lines(object) /\ \A x : Lines(x)' = Lines(x)
    BY DEF Lines
  <1>4. RoundsLeft'
    BY <1>2 DEF Inv, RoundsLeft
  <1>5. Paid'
    BY <1>2, <1>3 DEF Inv, Paid
  <1>6. AckedIsStored'
    BY <1>2, <1>3 DEF Inv, AckedIsStored
  <1> QED
    BY <1>1, <1>4, <1>5, <1>6 DEF Inv

\* The server stores a line; the caller may learn of it.
LEMMA StoreStep ==
  ASSUME Inv, NEW r \in net, ServeStores(r)
  PROVE  Inv'
  <1>0. r \in Request /\ net' \subseteq Request
    BY DEF Inv, TypeOK, ServeStores
  <1>1. r.call \in Calls /\ r.base = object /\ object \in Content
    BY <1>0, RequestType DEF ServeStores, ConditionHolds, Inv, TypeOK
  <1>2. object' = Append(Lines(object), r.call)
    BY <1>1 DEF ServeStores, Stored
  <1>3. /\ object' \in Content
        /\ Len(Lines(object')) = Len(Lines(object)) + 1
        /\ r.call \in Range(Lines(object'))
        /\ Range(Lines(object)) \subseteq Range(Lines(object'))
    BY <1>1, <1>2, StoreGrows
  <1>4. /\ call' \in [Calls -> CallState]
        /\ \A d \in Calls : /\ call'[d].tries = call[d].tries
                            /\ call'[d].seen = call[d].seen
                            /\ call'[d].pc = call[d].pc \/ (d = r.call /\ call'[d].pc = "ok")
    <2>1. CASE UNCHANGED call
      BY <2>1 DEF Inv, TypeOK
    <2>2. CASE Goto(r.call, "ok")
      <3>1. [call[r.call] EXCEPT !.pc = "ok"] \in CallState
        BY <1>1, CallUpdate DEF Inv, TypeOK
      <3>2. call' = [call EXCEPT ![r.call] = [call[r.call] EXCEPT !.pc = "ok"]]
        BY <2>2 DEF Goto
      <3>3. call \in [Calls -> CallState]
        BY DEF Inv, TypeOK
      <3>4. call' \in [Calls -> CallState]
        BY <1>1, <3>1, <3>2, <3>3
      <3>5. \A d \in Calls : d # r.call => call'[d] = call[d]
        BY <3>2, <3>3
      <3>6. /\ call'[r.call].pc = "ok"
            /\ call'[r.call].tries = call[r.call].tries
            /\ call'[r.call].seen = call[r.call].seen
        BY <1>1, <3>2, <3>3 DEF CallState
      <3> QED
        BY <3>4, <3>5, <3>6
    <2> QED
      BY <2>1, <2>2 DEF ServeStores
  <1>5. Len(Lines(object)) \in Nat
    BY <1>1, LenLines
  <1>6. \A d \in Calls : call[d].tries \in Nat /\ Len(Lines(call[d].seen)) \in Nat
    BY LenLines DEF Inv, TypeOK, CallState
  <1>7. Lines(object)' = Lines(object') /\ \A x : Lines(x)' = Lines(x)
    BY DEF Lines
  <1>8. RoundsLeft'
    BY <1>4 DEF Inv, RoundsLeft
  <1>9. Paid'
    BY <1>3, <1>4, <1>5, <1>6, <1>7 DEF Inv, Paid
  <1>10. AckedIsStored'
    BY <1>3, <1>4, <1>7 DEF Inv, AckedIsStored
  <1> QED
    BY <1>0, <1>3, <1>4, <1>8, <1>9, <1>10 DEF Inv, TypeOK

\* The server refuses a put whose ETag is out of date: the object is longer
\* than what the caller read, so one more round is paid for.
LEMMA RefuseStep ==
  ASSUME Inv, NEW r \in net, ServeRefuses(r)
  PROVE  Inv'
  <1>0. r \in Request /\ net' \subseteq Request /\ object' = object
    BY DEF Inv, TypeOK, ServeRefuses
  <1>1. r.call \in Calls /\ r.base # object
    BY <1>0, RequestType DEF ServeRefuses, ConditionHolds
  <1>2. CASE UNCHANGED call
    BY <1>0, <1>2 DEF Inv, TypeOK, RoundsLeft, Paid, AckedIsStored
  <1>3. CASE Waits(r) /\ Retry(r.call)
    <2>1. call[r.call].pc = "sent" /\ call[r.call].seen # object
      BY <1>1, <1>3 DEF Waits
    <2>2. call[r.call].tries < MAX_ATTEMPTS
      BY <1>1, <2>1 DEF Inv, RoundsLeft
    <2>3. /\ call' \in [Calls -> CallState]
          /\ call'[r.call].pc \in {"get", "err"}
          /\ call'[r.call].pc = "get" => call'[r.call].tries < MAX_ATTEMPTS
          /\ call'[r.call].tries = call[r.call].tries + 1
          /\ \A d \in Calls \ {r.call} : call'[d] = call[d]
      BY <1>1, <1>3, <2>2, RetryStep DEF Inv
    <2>4. /\ call[r.call].tries \in Nat
          /\ Len(Lines(call[r.call].seen)) \in Nat
          /\ Len(Lines(object)) \in Nat
      BY <1>1, LenLines DEF Inv, TypeOK, CallState
    <2>5. call[r.call].tries + 1 <= Len(Lines(object))
      BY <1>1, <2>1, <2>4 DEF Inv, Paid
    <2>6. call' = [call EXCEPT ![r.call] = call'[r.call]]
      BY <1>1, <2>3 DEF Inv, TypeOK
    <2> QED
      BY <1>0, <1>1, <2>3, <2>5, <2>6, CallStep
  <1> QED
    BY <1>2, <1>3 DEF ServeRefuses

\* The caller's own steps.
LEMMA OwnStep ==
  ASSUME Inv, NEW c \in Calls, Step(c)
  PROVE  Inv'
  <1>0. /\ call[c] \in CallState /\ object \in Content /\ net \subseteq Request
        /\ call[c].seen \in Content /\ call[c].tries \in Nat
        /\ call[c].sends \in 0..SdkAttempts
        /\ call[c].tries <= Len(Lines(object))
        /\ 0 \in 0..SdkAttempts /\ 1 \in 0..SdkAttempts
    BY S3Assumption DEF Inv, TypeOK, CallState, Paid
  <1>1. \A pc : /\ [call[c] EXCEPT !.pc = pc].pc = pc
                /\ [call[c] EXCEPT !.pc = pc].tries = call[c].tries
    BY <1>0 DEF CallState
  <1>2. [call |-> c, base |-> call[c].seen] \in Request
    BY <1>0 DEF Request
  <1>3. CASE Start(c)
    BY <1>0, <1>1, <1>3, CallUpdate, CallStep DEF Start, Goto, Inv, RoundsLeft
  <1>4. CASE Get(c)
    <2> DEFINE rec == [call[c] EXCEPT !.pc = "put", !.seen = object, !.sends = 0]
    <2>0. rec \in CallState
      BY <1>0, CallUpdate
    <2>1. rec.pc = "put" /\ rec.tries = call[c].tries /\ rec.seen = object
      BY <1>0 DEF CallState
    <2>2. call' = [call EXCEPT ![c] = rec] /\ object' = object /\ net' = net
      BY <1>4 DEF Get
    <2>3. rec.tries < MAX_ATTEMPTS
      BY <1>4, <2>1 DEF Get, Inv, RoundsLeft
    <2> HIDE DEF rec
    <2> QED
      BY <1>0, <2>0, <2>1, <2>2, <2>3, CallStep
  <1>5. CASE GetFails(c) \/ GiveUp(c)
    <2>1. Goto(c, "err") /\ object' = object /\ net' = net
      BY <1>5 DEF GetFails, GiveUp
    <2> QED
      BY <1>0, <1>1, <2>1, CallUpdate, CallStep DEF Goto
  <1>6. CASE Put(c)
    <2> DEFINE rec == [call[c] EXCEPT !.pc = "sent", !.sends = 1]
    <2>0. rec \in CallState
      BY <1>0, CallUpdate
    <2>1. rec.pc = "sent" /\ rec.tries = call[c].tries /\ rec.seen = call[c].seen
      BY <1>0 DEF CallState
    <2>2. call' = [call EXCEPT ![c] = rec] /\ object' = object /\ net' \subseteq Request
      BY <1>0, <1>2, <1>6 DEF Put
    <2>3. /\ rec.tries < MAX_ATTEMPTS
          /\ rec.tries <= Len(Lines(rec.seen))
          /\ rec.seen = object \/ Len(Lines(rec.seen)) < Len(Lines(object))
      BY <1>6, <2>1 DEF Put, Inv, RoundsLeft, Paid
    <2> HIDE DEF rec
    <2> QED
      BY <1>0, <2>0, <2>1, <2>2, <2>3, CallStep
  <1>7. CASE Resend(c)
    <2> DEFINE rec == [call[c] EXCEPT !.sends = call[c].sends + 1]
    <2>00. call[c].sends + 1 \in 0..SdkAttempts
      BY <1>0, <1>7, S3Assumption DEF Resend
    <2>0. rec \in CallState
      BY <1>0, <2>00, CallUpdate
    <2>1. rec.pc = "sent" /\ rec.tries = call[c].tries /\ rec.seen = call[c].seen
      BY <1>0, <1>7 DEF CallState, Resend
    <2>2. call' = [call EXCEPT ![c] = rec] /\ object' = object /\ net' \subseteq Request
      BY <1>0, <1>2, <1>7 DEF Resend
    <2>3. /\ rec.tries < MAX_ATTEMPTS
          /\ rec.tries <= Len(Lines(rec.seen))
          /\ rec.seen = object \/ Len(Lines(rec.seen)) < Len(Lines(object))
      BY <1>7, <2>1 DEF Resend, Inv, RoundsLeft, Paid
    <2> HIDE DEF rec
    <2> QED
      BY <1>0, <2>0, <2>1, <2>2, <2>3, CallStep
  <1> QED
    BY <1>3, <1>4, <1>5, <1>6, <1>7 DEF Step

LEMMA InvInit == Init => Inv
  <1> SUFFICES ASSUME Init PROVE Inv
    OBVIOUS
  <1>1. NoObject \in Content /\ Lines(NoObject) = <<>> /\ Len(<<>>) = 0
    BY DEF Content, Lines
  <1>2. 0 \in 0..SdkAttempts /\ 0 \in 0..MAX_ATTEMPTS /\ 0 < MAX_ATTEMPTS
    BY S3Assumption
  <1>3. TypeOK
    BY <1>1, <1>2 DEF Init, TypeOK, CallState
  <1>4. \A c \in Calls : call[c].pc = "idle" /\ call[c].tries = 0
    BY DEF Init
  <1>5. RoundsLeft /\ Paid /\ AckedIsStored
    BY <1>1, <1>2, <1>4 DEF Init, RoundsLeft, Paid, AckedIsStored
  <1> QED
    BY <1>3, <1>5 DEF Inv

LEMMA InvStep == Inv /\ [Next]_vars => Inv'
  <1> SUFFICES ASSUME Inv, [Next]_vars PROVE Inv'
    OBVIOUS
  <1>1. CASE Server
    BY <1>1, StoreStep, RefuseStep DEF Server
  <1>2. ASSUME NEW c \in Calls, Step(c) PROVE Inv'
    BY <1>2, OwnStep
  <1>3. CASE UNCHANGED vars
    BY <1>3 DEF vars, Inv, TypeOK, RoundsLeft, Paid, AckedIsStored
  <1> QED
    BY <1>1, <1>2, <1>3 DEF Next

-----------------------------------------------------------------------------
(* Copies.                                                                 *)

\* The object has moved on since the call read it.
Outdated(c) == Len(Lines(call[c].seen)) < Len(Lines(object))

\* The round of a call may have stored its line already.
Spent(c) == call[c].pc \in {"sent", "ok", "err"} /\ Outdated(c)

\* A request that can still be stored is one of the round that its call is in
\* or ended with, and no request is ahead of the object.
Live ==
  \A r \in net :
    /\ r.base = object => /\ call[r.call].pc \in {"sent", "ok", "err"}
                          /\ call[r.call].seen = object
    /\ r.base = object \/ Len(Lines(r.base)) < Len(Lines(object))

CopiesPaid ==
  \A c \in Calls :
    /\ Cardinality(Copies(c)) <= call[c].tries + 1
    /\ ~Spent(c) => Cardinality(Copies(c)) <= call[c].tries

Inv2 == Inv /\ Live /\ CopiesPaid

LEMMA CopiesFinite ==
  ASSUME TypeOK, NEW c \in Calls
  PROVE  IsFiniteSet(Copies(c)) /\ Cardinality(Copies(c)) \in Nat
  <1>1. Len(Lines(object)) \in Nat
    BY LenLines DEF TypeOK
  <1>2. IsFiniteSet(1..Len(Lines(object)))
    BY <1>1, FS_Interval
  <1>3. Copies(c) \subseteq 1..Len(Lines(object))
    BY DEF Copies
  <1> QED
    BY <1>2, <1>3, FS_Subset, FS_CardinalityType

\* Storing a line adds one copy of it, and none of another.
LEMMA CopiesStored ==
  ASSUME TypeOK, NEW d \in Calls, object' = Append(Lines(object), d)
  PROVE  \A c \in Calls :
           Cardinality(Copies(c))' = IF c = d THEN Cardinality(Copies(c)) + 1 ELSE Cardinality(Copies(c))
  <1> DEFINE x == Lines(object)
             n == Len(x) + 1
  <1>1. x \in Seq(Calls) /\ Len(x) \in Nat
    BY LinesType, LenLines DEF TypeOK
  <1>2. Lines(object)' = Append(x, d)
    BY StoreGrows DEF TypeOK, Lines
  <1>3. Len(Append(x, d)) = n /\ Append(x, d)[n] = d /\ \A i \in 1..Len(x) : Append(x, d)[i] = x[i]
    BY <1>1
  <1> SUFFICES ASSUME NEW c \in Calls
               PROVE  Cardinality(Copies(c))' = IF c = d THEN Cardinality(Copies(c)) + 1 ELSE Cardinality(Copies(c))
    OBVIOUS
  <1>4. Copies(c)' = {i \in 1..n : Append(x, d)[i] = c}
    BY <1>2, <1>3 DEF Copies
  <1>5. Copies(c) = {i \in 1..Len(x) : x[i] = c}
    BY DEF Copies
  <1>6. 1..n = 1..Len(x) \cup {n} /\ n \notin 1..Len(x)
    BY <1>1
  <1> HIDE DEF x, n
  <1>7. CASE c = d
    <2>1. Copies(c)' = Copies(c) \cup {n} /\ n \notin Copies(c)
      BY <1>3, <1>4, <1>5, <1>6, <1>7
    <2>2. Cardinality(Copies(c) \cup {n}) = Cardinality(Copies(c)) + 1
      BY <2>1, CopiesFinite, FS_AddElement
    <2> QED
      BY <1>7, <2>1, <2>2
  <1>8. CASE c # d
    <2>1. Copies(c)' = Copies(c)
      BY <1>3, <1>4, <1>5, <1>6, <1>8
    <2> QED
      BY <1>8, <2>1
  <1> QED
    BY <1>7, <1>8

\* A step of one call, and of its requests, with the object as it is.
LEMMA CallPays ==
  ASSUME Inv2, NEW c \in Calls, object' = object,
         \A d \in Calls \ {c} : call'[d] = call[d],
         \A r \in net' : \/ r \in net
                         \/ /\ r.call = c /\ r.base = call'[c].seen /\ call'[c].pc = "sent"
                            /\ r.base = object \/ Len(Lines(r.base)) < Len(Lines(object)),
         \A r \in net : r.call = c /\ r.base = object =>
                           call'[c].pc \in {"sent", "ok", "err"} /\ call'[c].seen = object,
         Cardinality(Copies(c)) <= call'[c].tries + 1,
         Spent(c)' \/ Cardinality(Copies(c)) <= call'[c].tries
  PROVE  Live' /\ CopiesPaid'
  <1>1. Lines(object)' = Lines(object) /\ \A x : Lines(x)' = Lines(x)
    BY DEF Lines
  <1>2. \A d \in Calls : Copies(d)' = Copies(d)
    BY <1>1 DEF Copies
  <1>3. \A r \in net : r.call \in Calls
    BY RequestType DEF Inv2, Inv, TypeOK
  <1>4. Live'
    <2> SUFFICES ASSUME NEW r \in net'
                 PROVE  /\ r.base = object => call'[r.call].pc \in {"sent", "ok", "err"} /\ call'[r.call].seen = object
                        /\ r.base = object \/ Len(Lines(r.base)) < Len(Lines(object))
      BY <1>1 DEF Live
    <2>1. CASE r \in net /\ r.call = c
      BY <2>1 DEF Inv2, Live
    <2>2. CASE r \in net /\ r.call # c
      BY <1>3, <2>2 DEF Inv2, Live
    <2>3. CASE r \notin net
      BY <2>3
    <2> QED
      BY <2>1, <2>2, <2>3
  <1>5. \A d \in Calls \ {c} : Spent(d)' <=> Spent(d)
    BY <1>1 DEF Spent, Outdated
  <1>6. CopiesPaid'
    BY <1>2, <1>5 DEF Inv2, CopiesPaid
  <1> QED
    BY <1>4, <1>6

LEMMA PaysInit == Init => Inv2
  <1> SUFFICES ASSUME Init PROVE Inv2
    OBVIOUS
  <1>1. Inv /\ Live
    BY InvInit DEF Init, Live
  <1>2. Lines(object) = <<>> /\ Len(<<>>) = 0
    BY DEF Init, Lines
  <1>3. \A c \in Calls : Copies(c) = {} /\ call[c].tries = 0
    BY <1>2 DEF Init, Copies
  <1> QED
    BY <1>1, <1>3, FS_EmptySet DEF Inv2, CopiesPaid

LEMMA PaysStep == Inv2 /\ [Next]_vars => Inv2'
  <1> SUFFICES ASSUME Inv2, [Next]_vars PROVE Inv2'
    OBVIOUS
  <1>0. Inv'
    BY InvStep DEF Inv2
  <1>t. /\ TypeOK /\ call \in [Calls -> CallState] /\ net \subseteq Request
        /\ \A c \in Calls : /\ call[c].tries \in Nat /\ Len(Lines(call[c].seen)) \in Nat
                            /\ Cardinality(Copies(c)) \in Nat
                            /\ call[c].seen \in Content
        /\ Len(Lines(object)) \in Nat
        /\ \A x : Lines(x)' = Lines(x)
    BY LenLines, CopiesFinite DEF Inv2, Inv, TypeOK, CallState, Lines
  <1>1. ASSUME NEW r \in net, ServeStores(r) PROVE Live' /\ CopiesPaid'
    <2>1. r.call \in Calls /\ r.base = object /\ net' \subseteq net
      BY <1>t, <1>1, RequestType DEF ServeStores, ConditionHolds
    <2>2. object' = Append(Lines(object), r.call)
      BY <1>1, <2>1 DEF ServeStores, Stored
    <2>3. Len(Lines(object')) = Len(Lines(object)) + 1
      BY <1>t, <2>1, <2>2, StoreGrows DEF TypeOK
    <2>4. \A d \in Calls : /\ call'[d].tries = call[d].tries
                           /\ call'[d].seen = call[d].seen
                           /\ call'[d].pc = call[d].pc \/ call'[d].pc = "ok"
                           /\ d # r.call => call'[d] = call[d]
      <3>1. CASE UNCHANGED call
        BY <3>1
      <3>2. CASE Goto(r.call, "ok")
        BY <1>t, <2>1, <3>2 DEF Goto, CallState
      <3> QED
        BY <1>1, <3>1, <3>2 DEF ServeStores
    <2>5. Live'
      <3>1. \A q \in net' : Len(Lines(q.base)) < Len(Lines(object'))
        BY <1>t, <2>1, <2>3, LenLines, RequestType DEF Inv2, Live
      <3> QED
        BY <1>t, <3>1 DEF Live
    <2>6. call[r.call].pc \in {"sent", "ok", "err"} /\ call[r.call].seen = object
      BY <2>1 DEF Inv2, Live
    <2>7. Cardinality(Copies(r.call)) <= call[r.call].tries
      BY <1>t, <2>1, <2>6 DEF Inv2, CopiesPaid, Spent, Outdated
    <2>8. Spent(r.call)'
      BY <1>t, <2>1, <2>3, <2>4, <2>6 DEF Spent, Outdated
    <2>9. \A d \in Calls \ {r.call} : Spent(d) => Spent(d)'
      BY <1>t, <2>3, <2>4 DEF Spent, Outdated
    <2>10. CopiesPaid'
      BY <1>t, <2>1, <2>2, <2>4, <2>7, <2>8, <2>9, CopiesStored DEF Inv2, CopiesPaid
    <2> QED
      BY <2>5, <2>10
  <1>2. ASSUME NEW r \in net, ServeRefuses(r) PROVE Live' /\ CopiesPaid'
    <2>1. r.call \in Calls /\ r.base # object /\ net' \subseteq net /\ object' = object
      BY <1>t, <1>2, RequestType DEF ServeRefuses, ConditionHolds
    <2>2. CASE UNCHANGED call
      <3>1. \A c \in Calls : Copies(c)' = Copies(c) /\ (Spent(c)' <=> Spent(c))
        BY <1>t, <2>1, <2>2 DEF Copies, Spent, Outdated
      <3> QED
        BY <1>t, <2>1, <2>2, <3>1 DEF Inv2, Live, CopiesPaid
    <2>3. CASE Waits(r) /\ Retry(r.call)
      <3>1. call[r.call].pc = "sent" /\ call[r.call].seen # object
        BY <2>1, <2>3 DEF Waits
      <3>2. call[r.call].tries < MAX_ATTEMPTS
        BY <2>1, <3>1 DEF Inv2, Inv, RoundsLeft
      <3>3. /\ call'[r.call].tries = call[r.call].tries + 1
            /\ \A d \in Calls \ {r.call} : call'[d] = call[d]
        BY <1>t, <2>1, <2>3, <3>2, RetryStep
      <3>4. Cardinality(Copies(r.call)) <= call'[r.call].tries
        BY <2>1, <3>3 DEF Inv2, CopiesPaid
      <3>5. \A q \in net : ~(q.call = r.call /\ q.base = object)
        BY <3>1 DEF Inv2, Live
      <3> QED
        BY <1>t, <2>1, <3>3, <3>4, <3>5, CallPays
    <2> QED
      BY <1>2, <2>2, <2>3 DEF ServeRefuses
  <1>3. ASSUME NEW c \in Calls, Step(c) PROVE Live' /\ CopiesPaid'
    <2>1. object' = object /\ \A d \in Calls \ {c} : call'[d] = call[d]
      BY <1>t, <1>3 DEF Step, Start, Get, GetFails, Put, Resend, GiveUp, Goto
    <2>2. call'[c].tries = call[c].tries
      BY <1>t, <1>3 DEF Step, Start, Get, GetFails, Put, Resend, GiveUp, Goto, CallState
    <2>3. Cardinality(Copies(c)) <= call'[c].tries + 1
      BY <2>2 DEF Inv2, CopiesPaid
    <2>4. CASE call[c].pc \in {"idle", "get", "put"}
      <3>1. Cardinality(Copies(c)) <= call'[c].tries
        BY <2>2, <2>4 DEF Inv2, CopiesPaid, Spent
      <3>2. \A r \in net : ~(r.call = c /\ r.base = object)
        BY <2>4 DEF Inv2, Live
      <3>3. \A r \in net' : \/ r \in net
                            \/ /\ r.call = c /\ r.base = call'[c].seen /\ call'[c].pc = "sent"
                               /\ r.base = object \/ Len(Lines(r.base)) < Len(Lines(object))
        <4>1. CASE Put(c)
          <5>1. call'[c].pc = "sent" /\ call'[c].seen = call[c].seen /\ call[c].pc = "put"
            BY <1>t, <4>1 DEF Put, CallState
          <5>2. call[c].seen = object \/ Len(Lines(call[c].seen)) < Len(Lines(object))
            BY <5>1 DEF Inv2, Inv, Paid
          <5> QED
            BY <4>1, <5>1, <5>2 DEF Put
        <4>2. CASE ~Put(c)
          BY <1>3, <2>4, <4>2 DEF Step, Start, Get, GetFails, Resend, GiveUp
        <4> QED
          BY <4>1, <4>2
      <3> QED
        BY <2>1, <2>3, <3>1, <3>2, <3>3, CallPays
    <2>5. CASE call[c].pc \notin {"idle", "get", "put"}
      <3>1. Resend(c) \/ GiveUp(c)
        BY <1>3, <2>5 DEF Step, Start, Get, GetFails, Put
      <3>2. /\ call[c].pc = "sent" /\ call'[c].pc \in {"sent", "err"}
            /\ call'[c].seen = call[c].seen
        BY <1>t, <3>1 DEF Resend, GiveUp, Goto, CallState
      <3>3. Spent(c)' <=> Spent(c)
        BY <1>t, <2>1, <3>2 DEF Spent, Outdated
      <3>4. Spent(c)' \/ Cardinality(Copies(c)) <= call'[c].tries
        BY <2>2, <3>3 DEF Inv2, CopiesPaid
      <3>5. \A r \in net : r.call = c /\ r.base = object =>
                call'[c].pc \in {"sent", "ok", "err"} /\ call'[c].seen = object
        BY <3>2 DEF Inv2, Live
      <3>6. \A r \in net' : \/ r \in net
                            \/ /\ r.call = c /\ r.base = call'[c].seen /\ call'[c].pc = "sent"
                               /\ r.base = object \/ Len(Lines(r.base)) < Len(Lines(object))
        <4>1. CASE Resend(c)
          <5>1. call[c].seen = object \/ Len(Lines(call[c].seen)) < Len(Lines(object))
            BY <3>2 DEF Inv2, Inv, Paid
          <5>2. call'[c].pc = "sent"
            BY <1>t, <4>1 DEF Resend, CallState
          <5> QED
            BY <3>2, <4>1, <5>1, <5>2 DEF Resend
        <4>2. CASE GiveUp(c)
          BY <4>2 DEF GiveUp
        <4> QED
          BY <3>1, <4>1, <4>2
      <3> QED
        BY <2>1, <2>3, <3>4, <3>5, <3>6, CallPays
    <2> QED
      BY <2>4, <2>5
  <1>4. CASE UNCHANGED vars
    <2>1. object' = object /\ call' = call /\ net' = net
      BY <1>4 DEF vars
    <2>2. Live'
      BY <2>1 DEF Inv2, Live
    <2>3. \A c \in Calls : (Spent(c)' <=> Spent(c)) /\ Copies(c)' = Copies(c)
      BY <2>1 DEF Spent, Outdated, Copies
    <2>4. CopiesPaid'
      BY <2>1, <2>3 DEF Inv2, CopiesPaid
    <2> QED
      BY <1>0, <2>2, <2>4 DEF Inv2
  <1>5. CASE Next
    BY <1>0, <1>1, <1>2, <1>3, <1>5 DEF Next, Server, Inv2
  <1> QED
    BY <1>0, <1>4, <1>5 DEF Inv2

-----------------------------------------------------------------------------
(* Theorems.                                                               *)

\* The object, the state of each call of append_jsonl_line and the requests on
\* their way have their types in every run.
THEOREM TypeCorrect == Spec => []TypeOK
  <1>1. Inv => TypeOK
    BY DEF Inv
  <1> QED
    BY InvInit, InvStep, <1>1, PTL DEF Spec

\* Each further copy of a line costs its call a round of the loop: lost
\* replies and requests sent again do not add copies by themselves.
THEOREM CopiesCostRounds == Spec => []RepeatsPaidByRounds
  <1>1. Inv2 => RepeatsPaidByRounds
    BY DEF Inv2, CopiesPaid, RepeatsPaidByRounds
  <1> QED
    BY PaysInit, PaysStep, <1>1, PTL DEF Spec

\* In every run a caller that was told Ok finds its line in the object, and
\* keeps finding it.
THEOREM AckedLinesStay == Spec => []AckedIsStored
  <1>1. Inv => AckedIsStored
    BY DEF Inv
  <1> QED
    BY InvInit, InvStep, <1>1, PTL DEF Spec

\* A failed round of the loop of append_jsonl_line is always paid for by a
\* line somebody stored: no call runs out of rounds without progress.
THEOREM NoRoundWithoutProgress == Spec => []RoundsPaidByProgress
  <1>1. Inv => RoundsPaidByProgress
    BY DEF Inv, Paid, RoundsPaidByProgress
  <1> QED
    BY InvInit, InvStep, <1>1, PTL DEF Spec

\* The conditional put implements an append-only log, under lost replies,
\* repeated requests and requests that are served late.
THEOREM LogImplemented == Spec => ImplementsLog
  <1> DEFINE acked == {c \in Calls : call[c].pc = "ok"}
  <1>1. Init => Log!Init
    BY DEF Init, Log!Init, Lines
  <1>2. ASSUME Inv, Inv', [Next]_vars
        PROVE  [Log!Next]_(Log!lvars)
    <2>1. ASSUME NEW r \in net, ServeStores(r)
          PROVE  Log!Store(r.call) /\ r.call \in Calls
      <3>1. r.call \in Calls /\ r.base = object /\ object \in Content
        BY <1>2, <2>1, RequestType DEF ServeStores, ConditionHolds, Inv, TypeOK
      <3>2. object' = Append(Lines(object), r.call)
        BY <2>1, <3>1 DEF ServeStores, Stored
      <3>3. Lines(object)' = Append(Lines(object), r.call)
        BY <3>1, <3>2, StoreGrows DEF Lines
      <3>4. acked' \in {acked, acked \cup {r.call}}
        <4>1. CASE UNCHANGED call
          BY <4>1
        <4>2. CASE Goto(r.call, "ok")
          BY <1>2, <3>1, <4>2 DEF Goto, Inv, TypeOK, CallState
        <4> QED
          BY <2>1, <4>1, <4>2 DEF ServeStores
      <3> QED
        BY <3>1, <3>3, <3>4 DEF Log!Store
    <2>2. ASSUME NEW r \in net, ServeRefuses(r) PROVE UNCHANGED Log!lvars
      <3>1. r.call \in Calls /\ object' = object
        BY <1>2, <2>2, RequestType DEF ServeRefuses, Inv, TypeOK
      <3>2. acked' = acked
        <4>1. CASE UNCHANGED call
          BY <4>1
        <4>2. CASE Waits(r) /\ Retry(r.call)
          <5>1. call[r.call].pc = "sent"
            BY <4>2 DEF Waits
          <5>2. call[r.call].tries < MAX_ATTEMPTS
            BY <1>2, <3>1, <5>1 DEF Inv, RoundsLeft
          <5>3. /\ call'[r.call].pc \in {"get", "err"}
                /\ \A d \in Calls \ {r.call} : call'[d] = call[d]
            BY <1>2, <3>1, <4>2, <5>2, RetryStep DEF Inv
          <5> QED
            BY <5>1, <5>3
        <4> QED
          BY <2>2, <4>1, <4>2 DEF ServeRefuses
      <3> QED
        BY <3>1, <3>2 DEF Log!lvars, Lines
    <2>3. ASSUME NEW c \in Calls, Step(c) PROVE UNCHANGED Log!lvars
      <3>1. object' = object /\ call[c].pc # "ok"
        BY <2>3 DEF Step, Start, Get, GetFails, Put, Resend, GiveUp
      <3>2. call'[c].pc # "ok" /\ \A d \in Calls \ {c} : call'[d] = call[d]
        BY <1>2, <2>3 DEF Step, Start, Get, GetFails, Put, Resend, GiveUp, Goto, Inv, TypeOK, CallState
      <3>3. acked' = acked
        BY <3>1, <3>2
      <3> QED
        BY <3>1, <3>3 DEF Log!lvars, Lines
    <2>4. CASE UNCHANGED vars
      BY <2>4 DEF vars, Log!lvars, Lines
    <2> QED
      BY <1>2, <2>1, <2>2, <2>3, <2>4 DEF Next, Server, Log!Next
  <1> QED
    BY InvInit, InvStep, <1>1, <1>2, PTL DEF Spec, ImplementsLog, Log!Spec
=============================================================================
