------------------------- MODULE AccessWritesProofs -------------------------
(***************************************************************************)
(* Proofs about AccessWrites, for any number of requests, tools, files and *)
(* contents.                                                               *)
(***************************************************************************)
EXTENDS AccessWrites, TLAPS

-----------------------------------------------------------------------------
(* How a step changes a request.                                           *)

\* Goto changes the program counter of one request and nothing else.
LEMMA GotoFrame ==
    ASSUME TypeOK, NEW r \in Requests, NEW step \in Steps, Goto(r, step)
    PROVE  /\ req' \in [Requests -> Request]
           /\ req'[r].pc = step
           /\ \A q \in Requests : q # r => req'[q] = req[q]
           /\ \A q \in Requests : /\ req'[q].endpoint = req[q].endpoint
                                  /\ req'[q].tool = req[q].tool
                                  /\ req'[q].path = req[q].path
                                  /\ req'[q].body = req[q].body
<1> DEFINE new == [req[r] EXCEPT !.pc = step]
<1>1. req \in [Requests -> Request] /\ req[r] \in Request
  BY DEF TypeOK
<1>2. new \in Request
  BY <1>1 DEF Request
<1>3. /\ new.pc = step /\ new.endpoint = req[r].endpoint /\ new.tool = req[r].tool
      /\ new.path = req[r].path /\ new.body = req[r].body
  BY <1>1 DEF Request
<1>4. req' = [req EXCEPT ![r] = new]
  BY DEF Goto
<1> HIDE DEF new
<1>5. req'[r] = new /\ req' \in [Requests -> Request]
  BY <1>1, <1>2, <1>4
<1>6. \A q \in Requests : q # r => req'[q] = req[q]
  BY <1>1, <1>4
<1> QED
  BY <1>3, <1>5, <1>6

\* The path of a request lies in the container, and an object's path is named
\* by its body.
LEMMA PathFacts ==
    ASSUME TypeOK, NEW r \in Requests
    PROVE  /\ req[r].path \in Files /\ req[r].body \in Bodies /\ req[r].tool \in Tools
           /\ req[r].endpoint \in Endpoints /\ req[r].pc \in Steps
           /\ req[r].path \in Bodies => req[r].path = req[r].body
           /\ req[r].endpoint = "derived" <=> req[r].path \in Bodies
<1>1. req[r] \in Request
  BY DEF TypeOK
<1>2. req[r].path \in PathsOf(req[r].endpoint, req[r].body)
  BY DEF TypeOK
<1>3. /\ req[r].path \in Files /\ req[r].body \in Bodies /\ req[r].tool \in Tools
      /\ req[r].endpoint \in Endpoints /\ req[r].pc \in Steps
  BY <1>1 DEF Request
<1>4. CASE req[r].endpoint = "results"
  <2>1. req[r].path \in Paths
    BY <1>2, <1>4 DEF PathsOf
  <2> QED
    BY <2>1, <1>3, <1>4, AccessAssumption
<1>5. CASE req[r].endpoint = "delta"
  <2>1. req[r].path \in Deltas
    BY <1>2, <1>5 DEF PathsOf
  <2> QED
    BY <2>1, <1>3, <1>5, AccessAssumption DEF Paths
<1>6. CASE req[r].endpoint = "derived"
  <2>1. req[r].path = req[r].body
    BY <1>2, <1>6 DEF PathsOf
  <2> QED
    BY <2>1, <1>3, <1>6
<1> QED
  BY <1>3, <1>4, <1>5, <1>6 DEF Endpoints

\* A step that only moves a request on keeps what TypeOK says of the requests.
LEMMA GotoTyped ==
    ASSUME TypeOK, NEW r \in Requests, NEW step \in Steps, Goto(r, step)
    PROVE  /\ req' \in [Requests -> Request]
           /\ \A q \in Requests : req'[q].path \in PathsOf(req'[q].endpoint, req'[q].body)
<1>1. \A q \in Requests : req[q].path \in PathsOf(req[q].endpoint, req[q].body)
  BY DEF TypeOK
<1> QED
  BY <1>1, GotoFrame

-----------------------------------------------------------------------------
(* Type correctness.                                                       *)

\* A request that is about to fill its file has created it, and files are
\* never removed.
Created == \A r \in Requests : req[r].pc = "fill" => store[req[r].path] # NoFile

TInv == TypeOK /\ Created

LEMMA InitTyped == Init => TInv
<1> SUFFICES ASSUME Init PROVE TInv
  OBVIOUS
<1> DEFINE b0 == CHOOSE b \in Bodies : TRUE
           t0 == CHOOSE t \in Tools : TRUE
           q0 == [pc |-> "idle", endpoint |-> "derived", tool |-> t0, path |-> b0, body |-> b0]
<1>1. b0 \in Bodies /\ t0 \in Tools
  BY AccessAssumption
<1>2. req = [r \in Requests |-> q0]
  BY DEF Init
<1> HIDE DEF b0, t0
<1>3. q0 \in Request /\ q0.pc = "idle"
  BY <1>1 DEF Request, Steps, Endpoints, Files
<1>4. q0.path \in PathsOf(q0.endpoint, q0.body)
  BY DEF PathsOf
<1>5. store \in [Files -> Contents] /\ \A b \in Bodies : store[b] = NoFile
  BY DEF Init, Contents, Files
<1>6. held \in [Requests -> Rights] /\ denied \subseteq Requests /\ registry \in [Tools -> Rights]
  BY DEF Init, Rights
<1> QED
  BY <1>2, <1>3, <1>4, <1>5, <1>6 DEF TInv, TypeOK, Created

\* Contents that a request may put into its file keep the store typed.
LEMMA StorePut ==
    ASSUME TInv, NEW r \in Requests, NEW c \in Contents,
           req[r].path \in Bodies => c \in {Empty, Cut, req[r].body},
           c # NoFile,
           store' = [store EXCEPT ![req[r].path] = c]
    PROVE  /\ store' \in [Files -> Contents]
           /\ \A b \in Bodies : store'[b] \in {NoFile, Empty, Cut, b}
           /\ \A f \in Files : store[f] # NoFile => store'[f] # NoFile
           /\ store'[req[r].path] = c
           /\ \A f \in Files : f # req[r].path => store'[f] = store[f]
<1> DEFINE p == req[r].path
<1>1. p \in Files /\ req[r].body \in Bodies /\ (p \in Bodies => p = req[r].body)
  BY PathFacts DEF TInv
<1>2. /\ store \in [Files -> Contents]
      /\ \A b \in Bodies : store[b] \in {NoFile, Empty, Cut, b}
  BY DEF TInv, TypeOK
<1>3. store' = [store EXCEPT ![p] = c]
  OBVIOUS
<1>4. p \in Bodies => c \in {Empty, Cut, req[r].body}
  OBVIOUS
<1> HIDE DEF p
<1>5. store'[p] = c /\ store' \in [Files -> Contents]
  BY <1>1, <1>2, <1>3
<1>6. \A f \in Files : f # p => store'[f] = store[f]
  BY <1>2, <1>3
<1>7. \A b \in Bodies : store'[b] \in {NoFile, Empty, Cut, b}
  <2> SUFFICES ASSUME NEW b \in Bodies PROVE store'[b] \in {NoFile, Empty, Cut, b}
    OBVIOUS
  <2>1. CASE b = p
    BY <2>1, <1>1, <1>4, <1>5
  <2>2. CASE b # p
    BY <2>2, <1>2, <1>6 DEF Files
  <2> QED
    BY <2>1, <2>2
<1> QED
  BY <1>5, <1>6, <1>7 DEF p

\* A file that an upload of a materialized object may find is covered by it.
LEMMA DerivedCovered ==
    ASSUME TInv, NEW r \in Requests, req[r].pc = "fill", req[r].path \in Bodies
    PROVE  Covered(r)
<1>1. store[req[r].path] # NoFile
  BY DEF TInv, Created
<1>2. store[req[r].path] \in {NoFile, Empty, Cut, req[r].path}
  BY DEF TInv, TypeOK
<1>3. req[r].path = req[r].body
  BY PathFacts DEF TInv
<1> QED
  BY <1>1, <1>2, <1>3 DEF Covered

\* The steps of a request that leave the store alone and only move it on.
Moves(r) == \/ Authenticate(r) \/ Deny(r) \/ enforce_tool_registry(r) \/ enforce_capability(r)
            \/ Absent(r) \/ Refuse(r) \/ Reject(r) \/ Present(r) \/ Compare(r) \/ Stop(r)

\* Such a step goes to a step other than "fill"; it reaches "ok" only from
\* "compare".
LEMMA MovesFrame ==
    ASSUME NEW r \in Requests, Moves(r), TypeOK
    PROVE  /\ \E step \in Steps \ {"fill", "idle", "cut"} :
                 /\ Goto(r, step)
                 /\ step = "ok" => req[r].pc = "compare" /\ store[req[r].path] = req[r].body
                 /\ req[r].pc = "create" => step = "failed"
                 /\ step = "create" => req[r].pc = "exists" /\ store[req[r].path] = NoFile
                 /\ step = "compare" => req[r].pc = "exists" /\ req[r].endpoint = "derived"
           /\ store' = store /\ registry' = registry /\ held' = held
           /\ denied \subseteq denied' /\ denied' \subseteq denied \cup {r}
           /\ Live(r) /\ req[r].pc # "fill"
<1>1. CASE Authenticate(r)
  BY <1>1 DEF Authenticate, Steps, Live
<1>2. CASE Deny(r)
  BY <1>2 DEF Deny, Steps, LogDenied, Live
<1>3. CASE enforce_tool_registry(r)
  BY <1>3 DEF enforce_tool_registry, Steps, Live
<1>4. CASE enforce_capability(r)
  BY <1>4 DEF enforce_capability, Steps, Live
<1>5. CASE Absent(r)
  BY <1>5 DEF Absent, Steps, Live
<1>6. CASE Refuse(r)
  BY <1>6 DEF Refuse, Steps, LogDenied, Live
<1>7. CASE Reject(r)
  BY <1>7 DEF Reject, Steps, Live
<1>8. CASE Present(r)
  BY <1>8 DEF Present, Steps, Live
<1>9. CASE Compare(r)
  BY <1>9 DEF Compare, Steps, Live
<1>10. CASE Stop(r)
  BY <1>10 DEF Stop, LogFailure, LogDenied, Steps, Live
<1> QED
  BY <1>1, <1>2, <1>3, <1>4, <1>5, <1>6, <1>7, <1>8, <1>9, <1>10 DEF Moves

\* What the three actions that write do to the store and to the request.
LEMMA WritesFrame ==
    ASSUME NEW r \in Requests, TInv, Create(r) \/ Fill(r) \/ StopWriting(r)
    PROVE  /\ registry' = registry /\ held' = held
           /\ denied \subseteq denied' /\ denied' \subseteq denied \cup {r}
           /\ Live(r)
           /\ \E step \in {"fill", "ok", "cut"} :
                 /\ Goto(r, step)
                 /\ step = "fill" => Create(r)
                 /\ step = "ok" => Fill(r)
                 /\ step = "cut" => StopWriting(r)
           /\ \/ store' = store /\ StopWriting(r)
              \/ \E c \in {Empty, Cut, Mixed, req[r].body} :
                    /\ store' = [store EXCEPT ![req[r].path] = c]
                    /\ req[r].path \in Bodies => c # Mixed
                    /\ c \in {Empty} => Create(r)
                    /\ c \in {Cut, Mixed} => req[r].pc = "fill"
                    /\ c = req[r].body => req[r].pc = "fill"
                    /\ c = Cut => MayStop
<1>0. /\ req[r].body \in Bodies
      /\ Empty \notin Bodies /\ Cut \notin Bodies /\ Mixed \notin Bodies
      /\ Empty # Cut /\ Empty # Mixed /\ Cut # Mixed
  BY PathFacts, AccessAssumption DEF TInv
<1>1. CASE Create(r)
  BY <1>0, <1>1 DEF Create, Live
<1>2. CASE Fill(r)
  <2>1. PICK c \in {req[r].body} \cup (IF Covered(r) THEN {} ELSE {Mixed}) :
            store' = [store EXCEPT ![req[r].path] = c]
    BY <1>2 DEF Fill
  <2>2. /\ req[r].pc = "fill" /\ Goto(r, "ok")
        /\ registry' = registry /\ held' = held /\ denied' = denied
    BY <1>2 DEF Fill
  <2>3. req[r].path \in Bodies => c # Mixed
    BY <2>1, <2>2, <1>0, DerivedCovered
  <2> QED
    BY <1>0, <1>2, <2>1, <2>2, <2>3 DEF Live
<1>3. CASE StopWriting(r)
  <2>1. /\ Goto(r, "cut") /\ Live(r) /\ MayStop
        /\ registry' = registry /\ held' = held
        /\ denied \subseteq denied' /\ denied' \subseteq denied \cup {r}
    BY <1>3 DEF StopWriting, LogFailure, LogDenied, Live
  <2>2. CASE store' = store
    BY <1>3, <2>1, <2>2
  <2>3. CASE store' # store
    <3>1. PICK c \in {req[r].body, IF Covered(r) THEN Cut ELSE Mixed} :
              req[r].pc = "fill" /\ store' = [store EXCEPT ![req[r].path] = c]
      BY <1>3, <2>3 DEF StopWriting
    <3>2. req[r].path \in Bodies => c # Mixed
      BY <3>1, <1>0, DerivedCovered
    <3> QED
      BY <1>0, <1>3, <2>1, <3>1, <3>2
  <2> QED
    BY <2>2, <2>3
<1> QED
  BY <1>1, <1>2, <1>3

\* The steps of Next, grouped by what they do.
LEMMA StepCases ==
    ASSUME [Next]_vars
    PROVE  \/ UNCHANGED vars
           \/ EditRegistry
           \/ \E r \in Requests : Receive(r) \/ Moves(r) \/ (Create(r) \/ Fill(r) \/ StopWriting(r))
BY DEF Next, Serve, Moves

\* What the arrival of a request changes.
LEMMA ReceiveFrame ==
    ASSUME TypeOK, NEW r \in Requests, Receive(r)
    PROVE  /\ store' = store /\ registry' = registry /\ denied' = denied
           /\ req' \in [Requests -> Request] /\ held' \in [Requests -> Rights]
           /\ req[r].pc = "idle"
           /\ req'[r].pc = "auth" /\ held'[r] = registry[req'[r].tool]
           /\ req'[r].path \in PathsOf(req'[r].endpoint, req'[r].body)
           /\ \A q \in Requests : q # r => req'[q] = req[q] /\ held'[q] = held[q]
<1>0. PICK e \in Endpoints, t \in Tools, b \in Bodies :
          \E f \in PathsOf(e, b) :
             /\ req' = [req EXCEPT ![r] =
                           [pc |-> "auth", endpoint |-> e, tool |-> t, path |-> f, body |-> b]]
             /\ held' = [held EXCEPT ![r] = registry[t]]
  BY DEF Receive
<1>1. PICK f \in PathsOf(e, b) :
          /\ req' = [req EXCEPT ![r] =
                        [pc |-> "auth", endpoint |-> e, tool |-> t, path |-> f, body |-> b]]
          /\ held' = [held EXCEPT ![r] = registry[t]]
  BY <1>0
<1> DEFINE new == [pc |-> "auth", endpoint |-> e, tool |-> t, path |-> f, body |-> b]
<1>2. f \in Files
  BY DEF PathsOf, Endpoints, Files, Paths
<1>3. new \in Request
  BY <1>2 DEF Request, Steps
<1>4. /\ new.pc = "auth" /\ new.endpoint = e /\ new.tool = t /\ new.path = f /\ new.body = b
  OBVIOUS
<1>5. req' = [req EXCEPT ![r] = new]
  BY <1>1
<1> HIDE DEF new
<1>6. /\ req' \in [Requests -> Request] /\ req'[r] = new
      /\ \A q \in Requests : q # r => req'[q] = req[q]
  BY <1>3, <1>5 DEF TypeOK
<1>7. registry[t] \in Rights /\ held \in [Requests -> Rights]
  BY DEF TypeOK
<1>8. /\ held' \in [Requests -> Rights] /\ held'[r] = registry[t]
      /\ \A q \in Requests : q # r => held'[q] = held[q]
  BY <1>1, <1>7
<1>9. store' = store /\ registry' = registry /\ denied' = denied /\ req[r].pc = "idle"
  BY DEF Receive
<1> QED
  BY <1>1, <1>4, <1>6, <1>8, <1>9

\* What an edit of the registry changes.
LEMMA EditFrame ==
    ASSUME TypeOK, EditRegistry
    PROVE  /\ store' = store /\ req' = req /\ denied' = denied
           /\ registry' \in [Tools -> Rights] /\ held' \in [Requests -> Rights]
           /\ \A r \in Requests :
                 /\ held[r].approved => held'[r].approved
                 /\ held[r].capable => held'[r].capable
                 /\ Live(r) => \/ registry'[req[r].tool] = registry[req[r].tool]
                               \/ /\ registry'[req[r].tool].approved => held'[r].approved
                                  /\ registry'[req[r].tool].capable => held'[r].capable
<1>1. PICK t \in Tools, rights \in Rights :
          /\ registry' = [registry EXCEPT ![t] = rights]
          /\ held' = [r \in Requests |->
                        IF Live(r) /\ req[r].tool = t THEN Either(held[r], rights) ELSE held[r]]
  BY DEF EditRegistry
<1>2. \A r \in Requests : /\ Either(held[r], rights) \in Rights
                          /\ Either(held[r], rights).approved = (held[r].approved \/ rights.approved)
                          /\ Either(held[r], rights).capable = (held[r].capable \/ rights.capable)
  BY DEF TypeOK, Rights, Either
<1>3. held \in [Requests -> Rights] /\ registry \in [Tools -> Rights]
  BY DEF TypeOK
<1>4. held' \in [Requests -> Rights]
  BY <1>1, <1>2, <1>3
<1>5. registry' \in [Tools -> Rights]
  BY <1>1, <1>3
<1>6. store' = store /\ req' = req /\ denied' = denied
  BY DEF EditRegistry
<1>7. ASSUME NEW r \in Requests
      PROVE  /\ held[r].approved => held'[r].approved
             /\ held[r].capable => held'[r].capable
             /\ Live(r) => \/ registry'[req[r].tool] = registry[req[r].tool]
                           \/ /\ registry'[req[r].tool].approved => held'[r].approved
                              /\ registry'[req[r].tool].capable => held'[r].capable
  <2>1. req[r].tool \in Tools
    BY PathFacts
  <2>2. CASE Live(r) /\ req[r].tool = t
    <3>1. held'[r] = Either(held[r], rights)
      BY <1>1, <2>2
    <3>2. registry'[req[r].tool] = rights
      BY <1>1, <1>3, <2>2
    <3> QED
      BY <1>2, <3>1, <3>2
  <2>3. CASE ~(Live(r) /\ req[r].tool = t)
    <3>1. held'[r] = held[r]
      BY <1>1, <2>3
    <3>2. Live(r) => registry'[req[r].tool] = registry[req[r].tool]
      BY <1>1, <1>3, <2>1, <2>3
    <3> QED
      BY <3>1, <3>2
  <2> QED
    BY <2>2, <2>3
<1> QED
  BY <1>4, <1>5, <1>6, <1>7

\* A write keeps the store typed and removes no file.
LEMMA WritesStore ==
    ASSUME NEW r \in Requests, TInv, Create(r) \/ Fill(r) \/ StopWriting(r)
    PROVE  /\ store' \in [Files -> Contents]
           /\ \A b \in Bodies : store'[b] \in {NoFile, Empty, Cut, b}
           /\ \A f \in Files : store[f] # NoFile => store'[f] # NoFile
           /\ \A f \in Files : f # req[r].path => store'[f] = store[f]
           /\ Create(r) => store'[req[r].path] = Empty
<1>1. CASE store' = store /\ ~Create(r)
  BY <1>1 DEF TInv, TypeOK
<1>2. CASE Create(r)
  <2>1. store' = [store EXCEPT ![req[r].path] = Empty]
    BY <1>2 DEF Create
  <2>2. Empty \in Contents /\ Empty # NoFile
    BY AccessAssumption DEF Contents
  <2> QED
    BY <2>1, <2>2, StorePut
<1>3. CASE store' # store /\ ~Create(r)
  <2>1. PICK c \in {Empty, Cut, Mixed, req[r].body} :
            /\ store' = [store EXCEPT ![req[r].path] = c]
            /\ req[r].path \in Bodies => c # Mixed
    BY <1>3, WritesFrame
  <2>2. req[r].body \in Bodies
    BY PathFacts DEF TInv
  <2>3. c \in Contents /\ c # NoFile
    BY <2>2, AccessAssumption DEF Contents
  <2> QED
    BY <1>3, <2>1, <2>3, StorePut
<1> QED
  BY <1>1, <1>2, <1>3

LEMMA NextTyped == TInv /\ [Next]_vars => TInv'
<1> SUFFICES ASSUME TInv, [Next]_vars PROVE TInv'
  OBVIOUS
<1>0. TypeOK /\ Created
  BY DEF TInv
<1>1. CASE UNCHANGED vars
  BY <1>1 DEF vars, TInv, TypeOK, Created, PathsOf
<1>2. CASE EditRegistry
  <2>1. TypeOK'
    BY <1>0, <1>2, EditFrame DEF TypeOK, PathsOf
  <2>2. Created'
    BY <1>0, <1>2, EditFrame DEF Created
  <2> QED
    BY <2>1, <2>2 DEF TInv
<1>3. ASSUME NEW r \in Requests, Receive(r) PROVE TInv'
  <2>1. \A q \in Requests : req'[q].path \in PathsOf(req'[q].endpoint, req'[q].body)
    BY <1>0, <1>3, ReceiveFrame DEF TypeOK
  <2>2. TypeOK'
    BY <1>0, <1>3, <2>1, ReceiveFrame DEF TypeOK, PathsOf
  <2>3. \A q \in Requests : req'[q].pc = "fill" => q # r
    BY <1>0, <1>3, ReceiveFrame
  <2>4. Created'
    BY <1>0, <1>3, <2>3, ReceiveFrame DEF Created
  <2> QED
    BY <2>2, <2>4 DEF TInv
<1>4. ASSUME NEW r \in Requests, Moves(r) PROVE TInv'
  <2>1. PICK step \in Steps \ {"fill", "idle", "cut"} : Goto(r, step)
    BY <1>0, <1>4, MovesFrame
  <2>2. step \in Steps
    OBVIOUS
  <2>3. store' = store /\ registry' = registry /\ held' = held /\ denied' \subseteq denied \cup {r}
    BY <1>0, <1>4, MovesFrame
  <2>4. TypeOK'
    BY <1>0, <2>1, <2>2, <2>3, GotoTyped DEF TypeOK, PathsOf
  <2>5. \A q \in Requests : req'[q].pc = "fill" => q # r
    BY <1>0, <2>1, <2>2, GotoFrame
  <2>6. Created'
    BY <1>0, <2>1, <2>2, <2>3, <2>5, GotoFrame DEF Created
  <2> QED
    BY <2>4, <2>6 DEF TInv
<1>5. ASSUME NEW r \in Requests, Create(r) \/ Fill(r) \/ StopWriting(r) PROVE TInv'
  <2>1. PICK step \in {"fill", "ok", "cut"} : Goto(r, step) /\ (step = "fill" => Create(r))
    BY <1>5, WritesFrame
  <2>2. step \in Steps
    BY DEF Steps
  <2>3. registry' = registry /\ held' = held /\ denied' \subseteq denied \cup {r}
    BY <1>5, WritesFrame
  <2>4. TypeOK'
    BY <1>0, <1>5, <2>1, <2>2, <2>3, GotoTyped, WritesStore DEF TypeOK, PathsOf
  <2>5. Created'
    <3> SUFFICES ASSUME NEW q \in Requests, req'[q].pc = "fill"
                 PROVE  store'[req'[q].path] # NoFile
      BY DEF Created
    <3>1. req'[q].path = req[q].path /\ req[q].path \in Files
      BY <1>0, <2>1, <2>2, GotoFrame, PathFacts
    <3>2. CASE q = r
      <4>1. Create(r)
        BY <1>0, <2>1, <2>2, <3>2, GotoFrame
      <4>2. store'[req[r].path] = Empty
        BY <1>5, <4>1, WritesStore
      <4> QED
        BY <3>1, <3>2, <4>2, AccessAssumption
    <3>3. CASE q # r
      <4>1. req'[q] = req[q]
        BY <1>0, <2>1, <2>2, <3>3, GotoFrame
      <4>2. store[req[q].path] # NoFile
        BY <1>0, <4>1 DEF Created
      <4> QED
        BY <1>5, <3>1, <4>2, WritesStore
    <3> QED
      BY <3>2, <3>3
  <2> QED
    BY <2>4, <2>5 DEF TInv
<1> QED
  BY <1>1, <1>2, <1>3, <1>4, <1>5, StepCases

\* Every state is well-typed.
THEOREM TypeCorrect == Spec => []TypeOK
<1>1. Init => TInv
  BY InitTyped
<1>2. TInv /\ [Next]_vars => TInv'
  BY NextTyped
<1>3. TInv => TypeOK
  BY DEF TInv
<1> QED
  BY <1>1, <1>2, <1>3, PTL DEF Spec

-----------------------------------------------------------------------------
(* Rights.                                                                 *)

\* What a running request has been granted covers the registry of the moment,
\* and what it has passed.
RightsInv ==
    \A r \in Requests :
        /\ Live(r) => /\ registry[req[r].tool].approved => held[r].approved
                      /\ registry[req[r].tool].capable => held[r].capable
        /\ req[r].pc \in {"capability", "exists", "compare", "create", "fill", "ok"} =>
              held[r].approved
        /\ req[r].pc \in {"exists", "compare", "create", "fill", "ok"}
                /\ req[r].endpoint # "results" => held[r].capable

LEMMA RightsNext == TypeOK /\ TInv /\ RightsInv /\ [Next]_vars => RightsInv'
<1> SUFFICES ASSUME TypeOK, TInv, RightsInv, [Next]_vars PROVE RightsInv'
  OBVIOUS
<1>1. CASE UNCHANGED vars
  BY <1>1 DEF vars, RightsInv, Live
<1>2. CASE EditRegistry
  BY <1>2, EditFrame DEF RightsInv, Live
<1>3. ASSUME NEW r \in Requests, Receive(r) PROVE RightsInv'
  <2>1. /\ registry' = registry /\ req'[r].pc = "auth" /\ held'[r] = registry[req'[r].tool]
        /\ \A q \in Requests : q # r => req'[q] = req[q] /\ held'[q] = held[q]
    BY <1>3, ReceiveFrame
  <2> QED
    BY <2>1 DEF RightsInv, Live
<1>4. ASSUME NEW r \in Requests, Moves(r) PROVE RightsInv'
  <2>1. store' = store /\ registry' = registry /\ held' = held /\ Live(r)
    BY <1>4, MovesFrame
  <2>2. PICK step \in Steps : Goto(r, step)
    BY <1>4, MovesFrame
  <2>3. /\ req'[r].pc = step
        /\ \A q \in Requests : q # r => req'[q] = req[q]
        /\ req'[r].endpoint = req[r].endpoint /\ req'[r].tool = req[r].tool
    BY <2>2, GotoFrame
  <2>4. step \in {"capability", "exists", "compare", "create", "fill", "ok"} => held[r].approved
    <3>1. CASE req[r].pc \in {"capability", "exists", "compare", "create", "fill", "ok"}
      BY <3>1 DEF RightsInv
    <3>2. CASE Authenticate(r)
      BY <3>2, <2>3, GotoFrame DEF Authenticate, Steps
    <3>3. CASE enforce_tool_registry(r)
      BY <3>3, <2>1 DEF enforce_tool_registry, RightsInv
    <3>4. CASE Deny(r) \/ Stop(r)
      BY <3>4, <2>3, GotoFrame DEF Deny, Stop, Steps
    <3>5. CASE enforce_capability(r) \/ Absent(r) \/ Refuse(r) \/ Reject(r) \/ Present(r) \/ Compare(r)
      BY <3>1, <3>5 DEF enforce_capability, Absent, Refuse, Reject, Present, Compare
    <3> QED
      BY <1>4, <3>1, <3>2, <3>3, <3>4, <3>5 DEF Moves
  <2>5. step \in {"exists", "compare", "create", "fill", "ok"} /\ req[r].endpoint # "results"
          => held[r].capable
    <3>1. CASE req[r].pc \in {"exists", "compare", "create", "fill", "ok"}
      BY <3>1 DEF RightsInv
    <3>2. CASE Authenticate(r)
      BY <3>2, <2>3, GotoFrame DEF Authenticate, Steps
    <3>3. CASE enforce_tool_registry(r)
      <4>1. Goto(r, IF req[r].endpoint = "results" THEN "exists" ELSE "capability")
        BY <3>3 DEF enforce_tool_registry
      <4>2. req[r].endpoint # "results" => req'[r].pc = "capability"
        BY <4>1, GotoFrame DEF Steps
      <4> QED
        BY <4>2, <2>3
    <3>4. CASE Deny(r) \/ Stop(r)
      BY <3>4, <2>3, GotoFrame DEF Deny, Stop, Steps
    <3>5. CASE enforce_capability(r)
      BY <3>5, <2>1 DEF enforce_capability, RightsInv
    <3>6. CASE Absent(r) \/ Refuse(r) \/ Reject(r) \/ Present(r) \/ Compare(r)
      BY <3>1, <3>6 DEF Absent, Refuse, Reject, Present, Compare
    <3> QED
      BY <1>4, <3>1, <3>2, <3>3, <3>4, <3>5, <3>6 DEF Moves
  <2> QED
    BY <2>1, <2>3, <2>4, <2>5 DEF RightsInv, Live
<1>5. ASSUME NEW r \in Requests, Create(r) \/ Fill(r) \/ StopWriting(r) PROVE RightsInv'
  <2>1. registry' = registry /\ held' = held /\ Live(r)
    BY <1>5, WritesFrame
  <2>2. PICK step \in {"fill", "ok", "cut"} :
            Goto(r, step) /\ (step = "fill" => Create(r)) /\ (step = "ok" => Fill(r))
    BY <1>5, WritesFrame
  <2>3. step \in Steps
    BY DEF Steps
  <2>4. /\ req'[r].pc = step
        /\ \A q \in Requests : q # r => req'[q] = req[q]
        /\ req'[r].endpoint = req[r].endpoint /\ req'[r].tool = req[r].tool
    BY <2>2, <2>3, GotoFrame
  <2>5. step \in {"fill", "ok"} => req[r].pc \in {"create", "fill"}
    BY <2>2 DEF Create, Fill
  <2> QED
    BY <2>1, <2>2, <2>4, <2>5 DEF RightsInv, Live
<1> QED
  BY <1>1, <1>2, <1>3, <1>4, <1>5, StepCases

\* Nothing is written for a tool that lacked a right throughout its request,
\* for any number of requests and any edits of the registry between the reads.
THEOREM WritersHeldRights == Spec => []RightsHeld
<1>1. Init => TInv /\ RightsInv
  <2> SUFFICES ASSUME Init PROVE TInv /\ RightsInv
    OBVIOUS
  <2>1. \A r \in Requests : req[r].pc = "idle"
    BY DEF Init
  <2> QED
    BY <2>1, InitTyped DEF RightsInv, Live
<1>2. TInv /\ RightsInv /\ [Next]_vars => (TInv /\ RightsInv)'
  BY NextTyped, RightsNext DEF TInv
<1>3. RightsInv => RightsHeld
  BY DEF RightsInv, RightsHeld
<1> QED
  BY <1>1, <1>2, <1>3, PTL DEF Spec

-----------------------------------------------------------------------------
(* Materialized objects.                                                   *)

\* An object's file that is not whole is being filled, or an upload of it was
\* cut; and where an upload was acknowledged there is a file.
Filled ==
    /\ \A b \in Bodies : store[b] \in {Empty, Cut} =>
          \E r \in Requests : req[r].path = b /\ req[r].pc \in {"fill", "cut"}
    /\ \A r \in Requests : req[r].pc = "ok" => store[req[r].path] # NoFile

LEMMA FilledNext == TInv /\ Filled /\ [Next]_vars => Filled'
<1> SUFFICES ASSUME TInv, Filled, [Next]_vars PROVE Filled'
  OBVIOUS
<1>0. TypeOK /\ Bodies \subseteq Files
  BY DEF TInv, Files
<1>1. CASE UNCHANGED vars
  BY <1>1 DEF vars, Filled
<1>2. CASE EditRegistry
  BY <1>0, <1>2, EditFrame DEF Filled
<1>3. ASSUME NEW r \in Requests, Receive(r) PROVE Filled'
  <2>1. /\ store' = store /\ req[r].pc = "idle" /\ req'[r].pc = "auth"
        /\ \A q \in Requests : q # r => req'[q] = req[q]
    BY <1>0, <1>3, ReceiveFrame
  <2>2. ASSUME NEW b \in Bodies, store'[b] \in {Empty, Cut}
        PROVE  \E q \in Requests : req'[q].path = b /\ req'[q].pc \in {"fill", "cut"}
    <3>1. PICK q \in Requests : req[q].path = b /\ req[q].pc \in {"fill", "cut"}
      BY <2>1, <2>2 DEF Filled
    <3> QED
      BY <2>1, <3>1
  <2>3. ASSUME NEW q \in Requests, req'[q].pc = "ok" PROVE store'[req'[q].path] # NoFile
    BY <2>1, <2>3 DEF Filled
  <2> QED
    BY <2>2, <2>3 DEF Filled
<1>4. ASSUME NEW r \in Requests, Moves(r) PROVE Filled'
  <2>1. PICK step \in Steps : Goto(r, step) /\ (step = "ok" => store[req[r].path] = req[r].body)
    BY <1>0, <1>4, MovesFrame
  <2>2. /\ req'[r].pc = step /\ \A q \in Requests : q # r => req'[q] = req[q]
        /\ \A q \in Requests : req'[q].path = req[q].path
    BY <1>0, <2>1, GotoFrame
  <2>3. store' = store /\ req[r].pc \notin {"fill", "cut", "ok"}
    BY <1>0, <1>4, MovesFrame DEF Live
  <2>4. ASSUME NEW b \in Bodies, store'[b] \in {Empty, Cut}
        PROVE  \E q \in Requests : req'[q].path = b /\ req'[q].pc \in {"fill", "cut"}
    <3>1. PICK q \in Requests : req[q].path = b /\ req[q].pc \in {"fill", "cut"}
      BY <2>3, <2>4 DEF Filled
    <3> QED
      BY <2>2, <2>3, <3>1
  <2>5. ASSUME NEW q \in Requests, req'[q].pc = "ok" PROVE store'[req'[q].path] # NoFile
    <3>1. CASE q # r
      BY <2>2, <2>3, <2>5, <3>1 DEF Filled
    <3>2. CASE q = r
      <4>1. store[req[r].path] = req[r].body /\ req[r].body \in Bodies
        BY <1>0, <2>1, <2>2, <2>5, <3>2, PathFacts
      <4> QED
        BY <2>2, <2>3, <3>2, <4>1, AccessAssumption
    <3> QED
      BY <3>1, <3>2
  <2> QED
    BY <2>4, <2>5 DEF Filled
<1>5. ASSUME NEW r \in Requests, Create(r) \/ Fill(r) \/ StopWriting(r) PROVE Filled'
  <2>1. /\ \A f \in Files : f # req[r].path => store'[f] = store[f]
        /\ \A f \in Files : store[f] # NoFile => store'[f] # NoFile
    BY <1>5, WritesStore
  <2>2. PICK step \in {"fill", "ok", "cut"} : Goto(r, step) /\ (step = "ok" => Fill(r))
    BY <1>5, WritesFrame
  <2>3. step \in Steps /\ \A q \in Requests : req[q].path \in Files
    BY <1>0, PathFacts DEF Steps
  <2>4. /\ req'[r].pc = step /\ \A q \in Requests : q # r => req'[q] = req[q]
        /\ \A q \in Requests : req'[q].path = req[q].path
    BY <1>0, <2>2, <2>3, GotoFrame
  <2>5. ASSUME NEW b \in Bodies, store'[b] \in {Empty, Cut}
        PROVE  \E q \in Requests : req'[q].path = b /\ req'[q].pc \in {"fill", "cut"}
    <3>1. CASE req[r].path # b
      <4>1. PICK q \in Requests : req[q].path = b /\ req[q].pc \in {"fill", "cut"}
        BY <1>0, <2>1, <2>5, <3>1 DEF Filled
      <4> QED
        BY <2>4, <3>1, <4>1
    <3>2. CASE req[r].path = b /\ step = "ok"
      <4>1. Covered(r) /\ req[r].body = b
        BY <1>0, <2>2, <3>2, DerivedCovered, PathFacts DEF Fill
      <4>2. store' = [store EXCEPT ![b] = b]
        BY <2>2, <3>2, <4>1 DEF Fill
      <4>3. store'[b] = b
        BY <1>0, <4>2 DEF TypeOK
      <4> QED
        BY <2>5, <4>3, AccessAssumption
    <3>3. CASE req[r].path = b /\ step # "ok"
      BY <2>2, <2>4, <3>3
    <3> QED
      BY <3>1, <3>2, <3>3
  <2>6. ASSUME NEW q \in Requests, req'[q].pc = "ok" PROVE store'[req'[q].path] # NoFile
    <3>1. CASE q # r
      BY <2>1, <2>3, <2>4, <2>6, <3>1 DEF Filled
    <3>2. CASE q = r
      <4>1. store[req[r].path] # NoFile
        BY <2>2, <2>4, <2>6, <3>2 DEF Fill, TInv, Created
      <4> QED
        BY <2>1, <2>3, <2>4, <3>2, <4>1
    <3> QED
      BY <3>1, <3>2
  <2> QED
    BY <2>5, <2>6 DEF Filled
<1> QED
  BY <1>1, <1>2, <1>3, <1>4, <1>5, StepCases

\* Uploads of one object converge: its file is whole as soon as no upload of it
\* runs, and there if one was acknowledged, for any number of overlapping
\* uploads, unless one was stopped while it wrote.
THEOREM UploadsConverge == Spec => []DerivedConverge
<1>1. Init => TInv /\ Filled
  <2> SUFFICES ASSUME Init PROVE TInv /\ Filled
    OBVIOUS
  <2>1. \A b \in Bodies : store[b] = NoFile
    BY DEF Init, Files
  <2>2. \A r \in Requests : req[r].pc = "idle"
    BY DEF Init
  <2> QED
    BY <2>1, <2>2, InitTyped, AccessAssumption DEF Filled
<1>2. TInv /\ Filled /\ [Next]_vars => (TInv /\ Filled)'
  BY NextTyped, FilledNext
<1>3. TInv /\ Filled => DerivedConverge
  <2> SUFFICES ASSUME TInv, Filled, NEW b \in Bodies, ~Writing(b)
               PROVE  \/ store[b] = b
                      \/ store[b] = NoFile /\ \A r \in Requests : req[r].path = b => req[r].pc # "ok"
                      \/ \E r \in Requests : req[r].path = b /\ req[r].pc = "cut"
    BY DEF DerivedConverge
  <2>1. store[b] \in {NoFile, Empty, Cut, b}
    BY DEF TInv, TypeOK
  <2>2. store[b] \in {Empty, Cut} => \E r \in Requests : req[r].path = b /\ req[r].pc = "cut"
    BY DEF Filled, Writing
  <2>3. store[b] = NoFile => \A r \in Requests : req[r].path = b => req[r].pc # "ok"
    BY DEF Filled
  <2> QED
    BY <2>1, <2>2, <2>3
<1> QED
  BY <1>1, <1>2, <1>3, PTL DEF Spec

-----------------------------------------------------------------------------
(* The service as a store of files.                                        *)

\* The files and the writers, as the refinement mapping has them.
AbsStore == [p \in Paths |-> store[p]]

Writers == [r \in Requests |-> AsWriter(r)]

\* A file with something in it was written by a request that is done with it;
\* and only objects are compared.
StoreInv ==
    /\ \A p \in Paths : store[p] \notin {NoFile, Empty} =>
          \E q \in Requests : req[q].path = p /\ req[q].pc \in {"ok", "cut"}
    /\ \A r \in Requests : req[r].path \in Paths => req[r].pc # "compare"

LEMMA StoreNext == TInv /\ StoreInv /\ [Next]_vars => StoreInv'
<1> SUFFICES ASSUME TInv, StoreInv, [Next]_vars PROVE StoreInv'
  OBVIOUS
<1>0. TypeOK /\ Paths \subseteq Files
  BY DEF TInv, Files
<1>1. CASE UNCHANGED vars
  BY <1>1 DEF vars, StoreInv
<1>2. CASE EditRegistry
  BY <1>0, <1>2, EditFrame DEF StoreInv
\* A request that is done stays so, and store and requests are otherwise kept.
<1>k. ASSUME NEW r \in Requests, req[r].pc \notin {"ok", "cut"},
             \A q \in Requests : q # r => req'[q] = req[q],
             req'[r].path \in Paths => req'[r].pc # "compare",
             \A p \in Paths : \/ store'[p] \in {store[p], NoFile, Empty}
                              \/ req'[r].path = p /\ req'[r].pc \in {"ok", "cut"}
      PROVE  StoreInv'
  <2>1. ASSUME NEW p \in Paths, store'[p] \notin {NoFile, Empty}
        PROVE  \E q \in Requests : req'[q].path = p /\ req'[q].pc \in {"ok", "cut"}
    <3>1. CASE store'[p] = store[p]
      <4>1. PICK q \in Requests : req[q].path = p /\ req[q].pc \in {"ok", "cut"}
        BY <2>1, <3>1 DEF StoreInv
      <4> QED
        BY <1>k, <4>1
    <3>2. CASE req'[r].path = p /\ req'[r].pc \in {"ok", "cut"}
      BY <3>2
    <3> QED
      BY <1>k, <2>1, <3>1, <3>2
  <2>2. \A q \in Requests : req'[q].path \in Paths => req'[q].pc # "compare"
    BY <1>k DEF StoreInv
  <2> QED
    BY <2>1, <2>2 DEF StoreInv
<1>3. ASSUME NEW r \in Requests, Receive(r) PROVE StoreInv'
  <2>1. /\ store' = store /\ req[r].pc = "idle" /\ req'[r].pc = "auth"
        /\ \A q \in Requests : q # r => req'[q] = req[q]
    BY <1>0, <1>3, ReceiveFrame
  <2> QED
    BY <2>1, <1>k
<1>4. ASSUME NEW r \in Requests, Moves(r) PROVE StoreInv'
  <2>1. PICK step \in Steps : Goto(r, step) /\ (step = "compare" => req[r].endpoint = "derived")
    BY <1>0, <1>4, MovesFrame
  <2>2. store' = store /\ req[r].pc \notin {"ok", "cut"}
    BY <1>0, <1>4, MovesFrame DEF Live
  <2>3. /\ req'[r].pc = step /\ req'[r].path = req[r].path
        /\ \A q \in Requests : q # r => req'[q] = req[q]
    BY <1>0, <2>1, GotoFrame
  <2>4. step = "compare" => req[r].path \notin Paths
    BY <1>0, <2>1, PathFacts, AccessAssumption
  <2> QED
    BY <2>2, <2>3, <2>4, <1>k
<1>5. ASSUME NEW r \in Requests, Create(r) \/ Fill(r) \/ StopWriting(r) PROVE StoreInv'
  <2>1. PICK step \in {"fill", "ok", "cut"} : Goto(r, step) /\ (step = "fill" => Create(r))
    BY <1>5, WritesFrame
  <2>2. step \in Steps /\ req[r].pc \notin {"ok", "cut"}
    BY <1>5, WritesFrame DEF Steps, Live
  <2>3. /\ req'[r].pc = step /\ req'[r].path = req[r].path
        /\ \A q \in Requests : q # r => req'[q] = req[q]
    BY <1>0, <2>1, <2>2, GotoFrame
  <2>4. /\ \A f \in Files : f # req[r].path => store'[f] = store[f]
        /\ Create(r) => store'[req[r].path] = Empty
    BY <1>5, WritesStore
  <2>5. \A p \in Paths : \/ store'[p] \in {store[p], NoFile, Empty}
                         \/ req'[r].path = p /\ req'[r].pc \in {"ok", "cut"}
    BY <1>0, <2>1, <2>3, <2>4
  <2> QED
    BY <2>1, <2>2, <2>3, <2>5, <1>k
<1> QED
  BY <1>1, <1>2, <1>3, <1>4, <1>5, StepCases

\* A request that moves on moves its writer, and no other.
LEMMA WritersStep ==
    ASSUME TypeOK, NEW r \in Requests, NEW step \in Steps, Goto(r, step)
    PROVE  Writers' = [Writers EXCEPT ![r] =
               IF req[r].path \in Paths /\ step \in {"create", "fill", "ok", "cut"}
               THEN [at |-> Standing(step), path |-> req[r].path, body |-> req[r].body]
               ELSE Out]
<1>1. /\ req'[r].pc = step /\ req'[r].path = req[r].path /\ req'[r].body = req[r].body
      /\ \A q \in Requests : q # r => req'[q] = req[q]
  BY GotoFrame
<1>2. \A q \in Requests : q # r => AsWriter(q)' = AsWriter(q)
  BY <1>1 DEF AsWriter
<1>3. AsWriter(r)' = IF req[r].path \in Paths /\ step \in {"create", "fill", "ok", "cut"}
                     THEN [at |-> Standing(step), path |-> req[r].path, body |-> req[r].body]
                     ELSE Out
  BY <1>1 DEF AsWriter
<1>4. Writers' = [q \in Requests |-> AsWriter(q)']
  BY DEF Writers
<1> QED
  BY <1>2, <1>3, <1>4 DEF Writers

\* A writer of a job file.
LEMMA WriterIs ==
    ASSUME TypeOK, NEW r \in Requests, req[r].path \in Paths,
           req[r].pc \in {"create", "fill", "ok", "cut"}
    PROVE  /\ Writers[r] = [at |-> Standing(req[r].pc), path |-> req[r].path, body |-> req[r].body]
           /\ Writers[r] # Out
<1>1. req[r].body \in Bodies
  BY PathFacts
<1>2. Writers[r] = [at |-> Standing(req[r].pc), path |-> req[r].path, body |-> req[r].body]
  BY DEF Writers, AsWriter
<1>3. Standing(req[r].pc) \in {"in", "told", "gone"}
  BY DEF Standing
<1> QED
  BY <1>1, <1>2, <1>3, AccessAssumption

\* What is not covered by a body was written by another that was let in.
LEMMA UncoveredShared ==
    ASSUME TInv, StoreInv, NEW r \in Requests, req[r].path \in Paths, req[r].pc = "fill", ~Covered(r)
    PROVE  \E q \in Requests \ {r} : Writers[q] # Out /\ Writers[q].path = req[r].path
<1>1. store[req[r].path] # NoFile
  BY DEF TInv, Created
<1>2. store[req[r].path] # Empty
  BY DEF Covered
<1>3. PICK q \in Requests : req[q].path = req[r].path /\ req[q].pc \in {"ok", "cut"}
  BY <1>1, <1>2 DEF StoreInv
<1>4. /\ Writers[q] = [at |-> Standing(req[q].pc), path |-> req[q].path, body |-> req[q].body]
      /\ Writers[q] # Out
  BY <1>3, WriterIs DEF TInv
<1>5. Writers[q].path = req[q].path
  BY <1>4
<1>6. q # r
  BY <1>3
<1> QED
  BY <1>3, <1>4, <1>5, <1>6

\* One write as a step of the abstract store.
LEMMA StoreWrites ==
    ASSUME TInv, StoreInv, NEW r \in Requests, Create(r) \/ Fill(r) \/ StopWriting(r)
    PROVE  Store!Next \/ UNCHANGED Store!svars
<1>0. TypeOK /\ store \in [Files -> Contents] /\ Paths \subseteq Files
  BY DEF TInv, TypeOK, Files
<1>a. req[r].path \in Files /\ req[r].body \in Bodies
  BY <1>0, PathFacts
<1> PICK p \in Files : p = req[r].path
  BY <1>a
<1> PICK b \in Bodies : b = req[r].body
  BY <1>a
<1>1. PICK step \in {"fill", "ok", "cut"} :
          /\ Goto(r, step) /\ (step = "fill" => Create(r)) /\ (step = "ok" => Fill(r))
          /\ step = "cut" => StopWriting(r)
  BY WritesFrame
<1>2. step \in Steps
  BY DEF Steps
<1>3. Writers' = [Writers EXCEPT ![r] =
          IF p \in Paths THEN [at |-> Standing(step), path |-> p, body |-> b] ELSE Out]
  BY <1>0, <1>1, <1>2, WritersStep
<1>4. CASE p \notin Paths
  <2>1. \A f \in Paths : store'[f] = store[f]
    BY <1>0, <1>4, WritesStore
  <2>2. AbsStore' = AbsStore
    BY <2>1 DEF AbsStore
  <2>3. Writers[r] = Out
    BY <1>4 DEF Writers, AsWriter
  <2>4. Writers' = Writers
    BY <1>3, <1>4, <2>3 DEF Writers
  <2> QED
    BY <2>2, <2>4 DEF Store!svars, AbsStore, Writers
<1>5. CASE p \in Paths
  <2>1. req[r].pc \in {"create", "fill"}
    BY DEF Create, Fill, StopWriting
  <2>2. Writers[r] # Out /\ Writers[r] = [at |-> "in", path |-> p, body |-> b]
    BY <1>0, <1>5, <2>1, WriterIs DEF Standing
  <2>v. Writers[r].at = "in" /\ Writers[r].path = p /\ Writers[r].body = b
    BY <2>2
  <2>x. \A at : [Writers[r] EXCEPT !.at = at] = [at |-> at, path |-> p, body |-> b]
    BY <2>2
  <2>s. \A c : Store!Sets(r, c) <=> AbsStore' = [AbsStore EXCEPT ![Writers[r].path] = c]
    BY DEF Store!Sets, AbsStore, Writers
  <2>b. \A at : Store!Becomes(r, at) <=> Writers' = [Writers EXCEPT ![r] = [@ EXCEPT !.at = at]]
    BY DEF Store!Becomes, Writers
  <2>3. Store!In(r)
    BY <2>2, <2>v DEF Store!In, Writers
  <2>4. ASSUME NEW c, store' = [store EXCEPT ![p] = c] PROVE Store!Sets(r, c)
    <3>1. AbsStore' = [AbsStore EXCEPT ![p] = c]
      BY <1>0, <1>5, <2>4 DEF AbsStore
    <3> QED
      BY <2>v, <2>s, <3>1
  <2>5. ASSUME req[r].pc = "fill", ~Covered(r) PROVE ~Store!Alone(r)
    BY <1>5, <2>2, <2>5, UncoveredShared DEF Store!Alone, Writers
  <2>6. CASE step = "fill"
    <3>1. store' = [store EXCEPT ![p] = Empty]
      BY <1>1, <2>6 DEF Create
    <3>2. Writers' = Writers
      BY <1>3, <1>5, <2>2, <2>6 DEF Standing, Writers
    <3>3. Store!Truncate(r)
      BY <2>3, <2>4, <3>1, <3>2 DEF Store!Truncate, Writers
    <3> QED
      BY <3>3 DEF Store!Next
  <2>w. Writers' = [Writers EXCEPT ![r] = [Writers[r] EXCEPT !.at = Standing(step)]]
    <3>1. Writers' = [Writers EXCEPT ![r] = [at |-> Standing(step), path |-> p, body |-> b]]
      BY <1>3, <1>5
    <3> QED
      BY <2>x, <3>1
  <2>f. Store!Sets(r, b) <=> Store!Sets(r, Writers[r].body)
    BY <2>v DEF Store!Sets
  <2>7. CASE step = "ok"
    <3>1. Store!Becomes(r, "told")
      BY <2>7, <2>w, <2>b DEF Standing
    <3>2. PICK c \in {b} \cup (IF Covered(r) THEN {} ELSE {Mixed}) : store' = [store EXCEPT ![p] = c]
      BY <1>1, <2>7 DEF Fill
    <3>3. Store!Sets(r, b) \/ (~Store!Alone(r) /\ Store!Sets(r, Mixed))
      BY <1>1, <2>4, <2>5, <2>7, <3>2 DEF Fill
    <3>4. Store!Finish(r)
      BY <2>f, <2>3, <3>1, <3>3 DEF Store!Finish, Writers
    <3> QED
      BY <3>4 DEF Store!Next
  <2>8. CASE step = "cut"
    <3>1. Store!Becomes(r, "gone")
      BY <2>8, <2>w, <2>b DEF Standing
    <3>2. CASE store' = store
      <4>1. AbsStore' = AbsStore
        BY <3>2 DEF AbsStore
      <4>2. Store!GiveUp(r)
        BY <2>3, <3>1, <4>1 DEF Store!GiveUp, AbsStore
      <4> QED
        BY <4>2 DEF Store!Next
    <3>3. CASE store' # store
      <4>1. PICK c \in {b, IF Covered(r) THEN Cut ELSE Mixed} : store' = [store EXCEPT ![p] = c]
        BY <1>1, <2>8, <3>3 DEF StopWriting
      <4>2. Store!Sets(r, b) \/ Store!Sets(r, Cut) \/ (~Store!Alone(r) /\ Store!Sets(r, Mixed))
        BY <1>1, <2>4, <2>5, <2>8, <4>1 DEF StopWriting
      <4>3. Store!GiveUp(r)
        BY <2>f, <2>3, <3>1, <4>2 DEF Store!GiveUp, Writers
      <4> QED
        BY <4>3 DEF Store!Next
    <3> QED
      BY <3>2, <3>3
  <2> QED
    BY <2>6, <2>7, <2>8
<1> QED
  BY <1>4, <1>5

\* A request that is let in, withdraws or only moves on.
LEMMA StoreMoves ==
    ASSUME TInv, StoreInv, NEW r \in Requests, Moves(r)
    PROVE  Store!Next \/ UNCHANGED Store!svars
<1>0. TypeOK
  BY DEF TInv
<1>1. PICK step \in Steps \ {"fill", "idle", "cut"} :
          /\ Goto(r, step)
          /\ step = "ok" => req[r].pc = "compare"
          /\ req[r].pc = "create" => step = "failed"
          /\ step = "create" => req[r].pc = "exists" /\ store[req[r].path] = NoFile
  BY <1>0, MovesFrame
<1>2. store' = store /\ req[r].pc \notin {"fill", "ok", "cut"}
  BY <1>0, MovesFrame DEF Live
<1>3. AbsStore' = AbsStore
  BY <1>2 DEF AbsStore
<1>4. Writers' = [Writers EXCEPT ![r] =
          IF req[r].path \in Paths /\ step \in {"create", "fill", "ok", "cut"}
          THEN [at |-> Standing(step), path |-> req[r].path, body |-> req[r].body]
          ELSE Out]
  BY <1>0, <1>1, WritersStep
<1>5. req[r].body \in Bodies
  BY <1>0, PathFacts
<1>6. CASE req[r].path \in Paths /\ step = "create"
  <2>1. Writers[r] = Out
    BY <1>1, <1>6 DEF Writers, AsWriter
  <2>2. AbsStore[req[r].path] = NoFile
    BY <1>1, <1>6 DEF AbsStore
  <2>3. Writers' = [Writers EXCEPT ![r] = [at |-> "in", path |-> req[r].path, body |-> req[r].body]]
    BY <1>4, <1>6 DEF Standing
  <2>4. Store!LetIn(r, req[r].path, req[r].body)
    BY <1>3, <2>1, <2>2, <2>3 DEF Store!LetIn, AbsStore, Writers
  <2> QED
    BY <1>5, <1>6, <2>4 DEF Store!Next
<1>7. CASE ~(req[r].path \in Paths /\ step = "create")
  <2>1. Writers' = [Writers EXCEPT ![r] = Out]
    BY <1>1, <1>4, <1>7 DEF StoreInv
  <2>2. CASE req[r].path \in Paths /\ req[r].pc = "create"
    <3>1. Store!In(r)
      BY <1>0, <2>2, WriterIs DEF Store!In, Writers, Standing
    <3>2. Store!Withdraw(r)
      BY <1>3, <2>1, <3>1 DEF Store!Withdraw, AbsStore, Writers
    <3> QED
      BY <3>2 DEF Store!Next
  <2>3. CASE ~(req[r].path \in Paths /\ req[r].pc = "create")
    <3>1. Writers[r] = Out
      BY <1>2, <2>3 DEF Writers, AsWriter
    <3>2. Writers' = Writers
      BY <2>1, <3>1 DEF Writers
    <3> QED
      BY <1>3, <3>2 DEF Store!svars, AbsStore, Writers
  <2> QED
    BY <2>2, <2>3
<1> QED
  BY <1>6, <1>7

\* The service implements a store that lets writers in only to files that do
\* not exist, keeps what nobody let in is writing any more, and keeps what a
\* lone writer was told Ok for -- for any number of requests and files, however
\* they overlap, and whichever of them are cut short.
THEOREM StoreImplemented == Spec => ImplementsStore
<1>1. Init => TInv /\ StoreInv /\ Store!Init
  <2> SUFFICES ASSUME Init PROVE TInv /\ StoreInv /\ Store!Init
    OBVIOUS
  <2>1. \A r \in Requests : req[r].pc = "idle"
    BY DEF Init
  <2>2. \A p \in Paths : store[p] = NoFile
    BY DEF Init, Files
  <2>3. StoreInv
    BY <2>1, <2>2 DEF StoreInv
  <2>4. Store!Init
    BY <2>1, <2>2 DEF Store!Init, AsWriter
  <2> QED
    BY <2>3, <2>4, InitTyped
<1>2. TInv /\ StoreInv /\ [Next]_vars => (TInv /\ StoreInv)'
  BY NextTyped, StoreNext
<1>3. TInv /\ StoreInv /\ [Next]_vars => [Store!Next]_(Store!svars)
  <2> SUFFICES ASSUME TInv, StoreInv, [Next]_vars
               PROVE  Store!Next \/ UNCHANGED Store!svars
    OBVIOUS
  <2>0. TypeOK
    BY DEF TInv
  <2>1. CASE UNCHANGED vars
    BY <2>1 DEF vars, Store!svars, AsWriter
  <2>2. CASE EditRegistry
    <3>1. store' = store /\ req' = req
      BY <2>0, <2>2, EditFrame
    <3> QED
      BY <3>1 DEF Store!svars, AsWriter
  <2>3. ASSUME NEW r \in Requests, Receive(r) PROVE UNCHANGED Store!svars
    <3>1. /\ store' = store /\ req[r].pc = "idle" /\ req'[r].pc = "auth"
          /\ \A q \in Requests : q # r => req'[q] = req[q]
      BY <2>0, <2>3, ReceiveFrame
    <3>2. \A q \in Requests : AsWriter(q)' = AsWriter(q)
      BY <3>1 DEF AsWriter
    <3> QED
      BY <3>1, <3>2 DEF Store!svars
  <2>4. ASSUME NEW r \in Requests, Moves(r) PROVE Store!Next \/ UNCHANGED Store!svars
    BY <2>4, StoreMoves
  <2>5. ASSUME NEW r \in Requests, Create(r) \/ Fill(r) \/ StopWriting(r)
        PROVE  Store!Next \/ UNCHANGED Store!svars
    BY <2>5, StoreWrites
  <2> QED
    BY <2>1, <2>2, <2>3, <2>4, <2>5, StepCases
<1> QED
  BY <1>1, <1>2, <1>3, PTL DEF Spec, ImplementsStore, Store!Spec
=============================================================================
