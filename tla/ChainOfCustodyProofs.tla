------------------------ MODULE ChainOfCustodyProofs ------------------------
(***************************************************************************)
(* Proofs about ChainOfCustody: type correctness for any mixture of tools  *)
(* and requests, and, when only the command line tools append, that        *)
(* nothing is lost, for any number of overlapping and killed tools.        *)
(***************************************************************************)
EXTENDS ChainOfCustody, FiniteSetTheorems, TLAPS

-----------------------------------------------------------------------------
(* Counting.                                                               *)

\* The positions of what is not a newline.
Texts(f) == {j \in 1..Len(f) : f[j] # NL}

Upto(f, i) == {j \in 1..(i - 1) : f[j] # NL}

LEMMA ContentType ==
  ASSUME file \in Pieces \cup {NoFile}
  PROVE  Content \in Pieces
  BY DEF Content, Pieces

LEMMA CountsFinite ==
  ASSUME NEW f \in Pieces
  PROVE  /\ IsFiniteSet(Texts(f)) /\ Cardinality(Texts(f)) \in Nat
         /\ IsFiniteSet(LineStarts(f)) /\ CountLines(f) \in Nat
         /\ CountLines(f) <= Cardinality(Texts(f))
  <1>1. IsFiniteSet(1..Len(f))
    BY FS_Interval DEF Pieces
  <1>2. LineStarts(f) \subseteq Texts(f) /\ Texts(f) \subseteq 1..Len(f)
    BY DEF LineStarts, Texts
  <1>3. IsFiniteSet(Texts(f)) /\ Cardinality(Texts(f)) \in Nat
    BY <1>1, <1>2, FS_Subset, FS_CardinalityType
  <1>4. /\ IsFiniteSet(LineStarts(f)) /\ Cardinality(LineStarts(f)) \in Nat
        /\ Cardinality(LineStarts(f)) <= Cardinality(Texts(f))
    BY <1>2, <1>3, FS_Subset, FS_CardinalityType
  <1> QED
    BY <1>3, <1>4 DEF CountLines

\* A piece at the end adds itself to the texts, unless it is a newline.
LEMMA AppendCounts ==
  ASSUME NEW f \in Pieces, NEW x \in Event \cup {NL, Part}
  PROVE  /\ Append(f, x) \in Pieces
         /\ \A i \in 1..Len(f) : Append(f, x)[i] = f[i]
         /\ Append(f, x)[Len(f) + 1] = x /\ Len(Append(f, x)) = Len(f) + 1
         /\ \A i \in 1..(Len(f) + 1) : Upto(Append(f, x), i) = Upto(f, i)
         /\ Upto(f, Len(f) + 1) = Texts(f)
         /\ x # NL => Cardinality(Texts(Append(f, x))) = Cardinality(Texts(f)) + 1
         /\ x = NL => Texts(Append(f, x)) = Texts(f)
  <1> DEFINE g == Append(f, x)
  <1>1. /\ g \in Pieces /\ Len(g) = Len(f) + 1 /\ g[Len(f) + 1] = x
        /\ \A i \in 1..Len(f) : g[i] = f[i]
        /\ Len(f) \in Nat
    BY DEF Pieces
  <1> HIDE DEF g
  <1>2. \A i \in 1..(Len(f) + 1) : Upto(g, i) = Upto(f, i)
    BY <1>1 DEF Upto
  <1>3. Upto(f, Len(f) + 1) = Texts(f)
    BY <1>1 DEF Upto, Texts
  <1>4. x = NL => Texts(g) = Texts(f)
    BY <1>1 DEF Texts
  <1>5. ASSUME x # NL PROVE Cardinality(Texts(g)) = Cardinality(Texts(f)) + 1
    <2>1. Texts(g) = Texts(f) \cup {Len(f) + 1}
      BY <1>1, <1>5 DEF Texts
    <2>2. Len(f) + 1 \notin Texts(f)
      BY <1>1 DEF Texts
    <2> QED
      BY <2>1, <2>2, CountsFinite, FS_AddElement
  <1> QED
    BY <1>1, <1>2, <1>3, <1>4, <1>5 DEF g

-----------------------------------------------------------------------------
(* Type correctness.                                                       *)

LEMMA Labels == {"idle", "count", "ready", "newline", "load", "truncate", "write"} = Steps
  BY DEF Steps

LEMMA RestType == Rest \in Proc /\ Rest.pc = "idle"
  <1>1. <<>> \in Pieces /\ [id |-> 0, n |-> 0] \in Event
    BY DEF Pieces, Event
  <1> QED
    BY <1>1, Labels DEF Rest, Proc

LEMMA ProcFields ==
  \A rec \in Proc : /\ rec.pc \in Steps /\ rec.counter \in Nat
                    /\ rec.event \in Event /\ rec.text \in Pieces
  BY DEF Proc

LEMMA GoneTo ==
  ASSUME proc \in [Procs -> Proc], NEW p \in Procs, NEW step \in Steps, Goto(p, step)
  PROVE  /\ proc' \in [Procs -> Proc] /\ proc'[p].pc = step
         /\ proc'[p].counter = proc[p].counter /\ proc'[p].event = proc[p].event
         /\ proc'[p].text = proc[p].text
         /\ \A q \in Procs \ {p} : proc'[q] = proc[q]
  <1> DEFINE old == proc[p]
             rec == [old EXCEPT !.pc = step]
  <1>1. old \in Proc /\ proc' = [proc EXCEPT ![p] = rec]
    BY DEF Goto
  <1> HIDE DEF old
  <1>2. /\ rec \in Proc /\ rec.pc = step /\ rec.counter = old.counter
        /\ rec.event = old.event /\ rec.text = old.text
    BY <1>1 DEF Proc
  <1> HIDE DEF rec
  <1> QED
    BY <1>1, <1>2 DEF old

LEMMA Returned ==
  ASSUME proc \in [Procs -> Proc], NEW p \in Procs, Return(p)
  PROVE  /\ proc' \in [Procs -> Proc] /\ proc'[p].pc = "idle"
         /\ \A q \in Procs \ {p} : proc'[q] = proc[q]
  BY RestType DEF Return

LEMMA CountEffect ==
  ASSUME TypeOK, NEW p \in Procs, CountEvents(p)
  PROVE  /\ proc' \in [Procs -> Proc] /\ proc'[p].pc = "ready"
         /\ proc'[p].counter = CountLines(Content)
         /\ \A q \in Procs \ {p} : proc'[q] = proc[q]
  <1> DEFINE old == proc[p]
             c == CountLines(Content)
             rec == [old EXCEPT !.pc = "ready", !.counter = c]
  <1>1. old \in Proc /\ proc' = [proc EXCEPT ![p] = rec] /\ proc \in [Procs -> Proc]
    BY DEF CountEvents, TypeOK
  <1>2. c \in Nat
    BY ContentType, CountsFinite DEF TypeOK
  <1> HIDE DEF old, c
  <1>3. rec \in Proc /\ rec.pc = "ready" /\ rec.counter = c
    BY <1>1, <1>2, Labels DEF Proc
  <1> HIDE DEF rec
  <1> QED
    BY <1>1, <1>3 DEF c

LEMMA TextEffect ==
  ASSUME TypeOK, NEW p \in Procs, WriteText(p)
  PROVE  /\ proc' \in [Procs -> Proc] /\ proc[p].pc = "ready" /\ proc'[p].pc = "newline"
         /\ proc'[p].counter = proc[p].counter /\ proc'[p].event \in Event
         /\ proc'[p].event.id = proc[p].counter
         /\ file' = Append(Content, proc'[p].event)
         /\ \A q \in Procs \ {p} : proc'[q] = proc[q]
         /\ made' \in Nat /\ acked' = acked
  <1> DEFINE old == proc[p]
             event == [id |-> proc[p].counter, n |-> made]
             rec == [old EXCEPT !.pc = "newline", !.event = event]
  <1>1. /\ old \in Proc /\ proc' = [proc EXCEPT ![p] = rec] /\ proc \in [Procs -> Proc]
        /\ file' = Append(Content, event) /\ proc[p].pc = "ready"
        /\ made' \in Nat /\ acked' = acked
    BY DEF WriteText, TypeOK
  <1>2. event \in Event /\ event.id = old.counter
    BY <1>1, ProcFields DEF Event, TypeOK
  <1> HIDE DEF old, event
  <1>3. rec \in Proc /\ rec.pc = "newline" /\ rec.event = event /\ rec.counter = old.counter
    BY <1>1, <1>2, Labels DEF Proc
  <1> HIDE DEF rec
  <1> QED
    BY <1>1, <1>2, <1>3 DEF old

LEMMA NewlineEffect ==
  ASSUME TypeOK, NEW p \in Procs, WriteNewline(p)
  PROVE  /\ proc' \in [Procs -> Proc] /\ proc[p].pc = "newline" /\ proc'[p].pc = "ready"
         /\ proc'[p].counter = proc[p].counter + 1
         /\ file' = Append(Content, NL)
         /\ \A q \in Procs \ {p} : proc'[q] = proc[q]
         /\ made' = made /\ acked' = acked \cup {proc[p].event}
  <1> DEFINE old == proc[p]
             c == proc[p].counter + 1
             rec == [old EXCEPT !.pc = "ready", !.counter = c]
  <1>1. /\ old \in Proc /\ proc' = [proc EXCEPT ![p] = rec] /\ proc \in [Procs -> Proc]
        /\ file' = Append(Content, NL) /\ proc[p].pc = "newline"
        /\ made' = made /\ acked' = acked \cup {proc[p].event}
    BY DEF WriteNewline, TypeOK
  <1>2. c \in Nat
    BY <1>1, ProcFields
  <1> HIDE DEF old, c
  <1>3. rec \in Proc /\ rec.pc = "ready" /\ rec.counter = c
    BY <1>1, <1>2, Labels DEF Proc
  <1> HIDE DEF rec
  <1> QED
    BY <1>1, <1>3 DEF c

\* The id of an event whose request could not read the log.
Misread == IF MayMisread THEN {0} ELSE {}

LEMMA RequestEffect ==
  ASSUME TypeOK, NEW p \in Procs, Request(p)
  PROVE  /\ proc' \in [Procs -> Proc] /\ made' \in Nat /\ UNCHANGED <<file, acked>>
         /\ proc'[p].pc = "load" /\ \A q \in Procs \ {p} : proc'[q] = proc[q]
         /\ proc'[p].event.id \in {CountLines(Content)} \cup Misread
  <1>1. PICK count \in {CountLines(Content)} \cup (IF MayMisread THEN {0} ELSE {}) :
          proc' = [proc EXCEPT ![p] = [@ EXCEPT !.pc = "load",
                                                !.event = [id |-> count, n |-> made]]]
    BY DEF Request
  <1> DEFINE old == proc[p]
             event == [id |-> count, n |-> made]
             rec == [old EXCEPT !.pc = "load", !.event = event]
  <1>2. /\ old \in Proc /\ proc' = [proc EXCEPT ![p] = rec] /\ proc \in [Procs -> Proc]
        /\ made \in Nat
    BY <1>1 DEF TypeOK
  <1>a. made' = made + 1 /\ UNCHANGED <<file, acked>>
    BY DEF Request
  <1>3. count \in Nat
    BY ContentType, CountsFinite DEF TypeOK
  <1>4. event \in Event /\ event.id = count
    BY <1>3 DEF Event, TypeOK
  <1>b. count \in {CountLines(Content)} \cup Misread
    BY <1>1 DEF Misread
  <1> HIDE DEF old, event
  <1>5. rec \in Proc /\ rec.pc = "load" /\ rec.event = event
    BY <1>2, <1>4, Labels DEF Proc
  <1> HIDE DEF rec
  <1> QED
    BY <1>2, <1>4, <1>5, <1>a, <1>b

LEMMA LoadEffect ==
  ASSUME TypeOK, NEW p \in Procs, LoadLog(p)
  PROVE  /\ proc' \in [Procs -> Proc] /\ UNCHANGED <<file, made, acked>>
         /\ proc'[p].pc = "truncate" /\ \A q \in Procs \ {p} : proc'[q] = proc[q]
         /\ proc'[p].text = Content \o <<proc[p].event, NL>>
  <1> DEFINE old == proc[p]
             text == Content \o <<proc[p].event, NL>>
             rec == [old EXCEPT !.pc = "truncate", !.text = text]
  <1>1. /\ old \in Proc /\ proc' = [proc EXCEPT ![p] = rec] /\ proc \in [Procs -> Proc]
        /\ UNCHANGED <<file, made, acked>>
    BY DEF LoadLog, TypeOK
  <1>2. proc[p].event \in Event /\ Content \in Pieces
    BY <1>1, ProcFields, ContentType DEF TypeOK
  <1>3. text \in Pieces
    BY <1>2 DEF Pieces
  <1> HIDE DEF old, text
  <1>4. rec \in Proc /\ rec.pc = "truncate" /\ rec.text = text
    BY <1>1, <1>3, Labels DEF Proc
  <1> HIDE DEF rec
  <1> QED
    BY <1>1, <1>4 DEF text

LEMMA Pieced ==
  ASSUME NEW f \in Pieces, NEW t \in Pieces
  PROVE  /\ \A k \in 0..Len(t) : SubSeq(t, 1, k) \in Pieces
         /\ LET tail == SubSeq(f, Len(t) + 1, Len(f)) IN
              /\ t \o tail \in Pieces
              /\ tail # <<>> => t \o <<Part>> \o Tail(tail) \in Pieces
         /\ \A s \in Pieces : s \o <<Part>> \in Pieces /\ s \o <<>> \in Pieces
  <1> DEFINE S == Event \cup {NL, Part}
             tail == SubSeq(f, Len(t) + 1, Len(f))
  <1>1. f \in Seq(S) /\ t \in Seq(S) /\ Part \in S /\ <<Part>> \in Seq(S)
    BY DEF Pieces
  <1> HIDE DEF S
  <1>2. tail \in Seq(S)
    BY <1>1
  <1>3. tail # <<>> => Tail(tail) \in Seq(S)
    BY <1>2
  <1> HIDE DEF tail
  <1>4. \A k \in 0..Len(t) : SubSeq(t, 1, k) \in Seq(S)
    BY <1>1
  <1>5. \A r, s \in Seq(S) : r \o s \in Seq(S)
    OBVIOUS
  <1>6. t \o tail \in Seq(S) /\ (tail # <<>> => t \o <<Part>> \o Tail(tail) \in Seq(S))
    BY <1>1, <1>2, <1>3, <1>5
  <1>7. \A s \in Seq(S) : s \o <<Part>> \in Seq(S) /\ s \o <<>> \in Seq(S)
    BY <1>1, <1>5
  <1> QED
    BY <1>4, <1>6, <1>7 DEF Pieces, S, tail

LEMMA TypeStep ==
  ASSUME TypeOK, [Next]_vars
  PROVE  TypeOK'
  <1>0. /\ file \in Pieces \cup {NoFile} /\ Content \in Pieces
        /\ proc \in [Procs -> Proc] /\ made \in Nat /\ acked \subseteq Event
        /\ made + 1 \in Nat /\ NL \in Event \cup {NL, Part}
        /\ Part \in Event \cup {NL, Part} /\ <<>> \in Pieces
    BY ContentType DEF TypeOK, Pieces
  <1>a. \A x \in Event \cup {NL, Part} : Append(Content, x) \in Pieces
    BY <1>0, AppendCounts
  <1>1. CASE UNCHANGED vars
    BY <1>1 DEF vars, TypeOK
  <1>2. ASSUME NEW p \in Procs, Step(p) PROVE TypeOK'
    <2>0. proc[p].event \in Event /\ proc[p].text \in Pieces
      BY <1>0, <1>2, ProcFields
    <2>1. CASE Open(p)
      <3>1. Goto(p, "count") /\ file' = Content /\ UNCHANGED <<made, acked>>
        BY <2>1 DEF Open
      <3> QED
        BY <1>0, <1>2, <3>1, GoneTo, Labels DEF TypeOK
    <2>2. CASE CountEvents(p)
      <3>1. UNCHANGED <<file, made, acked>>
        BY <2>2 DEF CountEvents
      <3> QED
        BY <1>0, <1>2, <2>2, <3>1, CountEffect DEF TypeOK
    <2>3. CASE WriteText(p)
      <3>1. /\ proc' \in [Procs -> Proc] /\ proc'[p].event \in Event
            /\ file' = Append(Content, proc'[p].event) /\ made' \in Nat /\ acked' = acked
        BY <1>2, <2>3, TextEffect
      <3>2. file' \in Pieces
        BY <1>a, <3>1
      <3> QED
        BY <1>0, <3>1, <3>2 DEF TypeOK
    <2>4. CASE WriteTextPartly(p)
      <3>1. Return(p) /\ file' = Append(Content, Part) /\ made' = made + 1 /\ acked' = acked
        BY <2>4 DEF WriteTextPartly
      <3> QED
        BY <1>0, <1>a, <1>2, <3>1, Returned DEF TypeOK
    <2>5. CASE WriteNewline(p)
      BY <1>0, <1>a, <1>2, <2>0, <2>5, NewlineEffect DEF TypeOK
    <2>6. CASE Close(p)
      <3>1. Return(p) /\ UNCHANGED <<file, made, acked>>
        BY <2>6 DEF Close
      <3> QED
        BY <1>0, <1>2, <3>1, Returned DEF TypeOK
    <2>7. CASE Request(p)
      BY <1>0, <1>2, <2>7, RequestEffect DEF TypeOK
    <2>8. CASE LoadLog(p)
      BY <1>0, <1>2, <2>8, LoadEffect DEF TypeOK
    <2>9. CASE TruncateLog(p)
      <3>1. Goto(p, "write") /\ file' = <<>> /\ UNCHANGED <<made, acked>>
        BY <2>9 DEF TruncateLog
      <3> QED
        BY <1>0, <1>2, <3>1, GoneTo, Labels DEF TypeOK
    <2>10. CASE WriteLog(p)
      <3>1. Return(p) /\ made' = made /\ acked' = acked \cup {proc[p].event}
        BY <2>10 DEF WriteLog
      <3>2. file' \in Pieces
        BY <1>0, <2>0, <2>10, Pieced DEF WriteLog
      <3> QED
        BY <1>0, <1>2, <2>0, <3>1, <3>2, Returned DEF TypeOK
    <2>11. CASE WriteLogPartly(p)
      <3>1. Return(p) /\ made' = made /\ acked' = acked
        BY <2>11 DEF WriteLogPartly
      <3>2. PICK k \in 0..(Len(proc[p].text) - 1), cut \in BOOLEAN :
              file' = SubSeq(proc[p].text, 1, k) \o (IF cut THEN <<Part>> ELSE <<>>)
        BY <2>11 DEF WriteLogPartly
      <3>3. k \in 0..Len(proc[p].text)
        BY <2>0 DEF Pieces
      <3>4. SubSeq(proc[p].text, 1, k) \in Pieces
        BY <2>0, <3>3, Pieced
      <3>5. file' \in Pieces
        BY <2>0, <3>2, <3>4, Pieced
      <3> QED
        BY <1>0, <1>2, <3>1, <3>5, Returned DEF TypeOK
    <2>12. CASE Stop(p)
      <3>1. Return(p) /\ UNCHANGED <<file, made, acked>>
        BY <2>12 DEF Stop
      <3> QED
        BY <1>0, <1>2, <3>1, Returned DEF TypeOK
    <2> QED
      BY <1>2, <2>1, <2>2, <2>3, <2>4, <2>5, <2>6, <2>7, <2>8, <2>9, <2>10, <2>11, <2>12 DEF Step
  <1> QED
    BY <1>1, <1>2 DEF Next

\* Every state has its type, for tools and requests that overlap and fail.
THEOREM TypeCorrect == Spec => []TypeOK
  <1>1. Init => TypeOK
    BY RestType DEF Init, TypeOK
  <1>2. TypeOK /\ [Next]_vars => TypeOK'
    BY TypeStep
  <1> QED
    BY <1>1, <1>2, PTL DEF Spec

-----------------------------------------------------------------------------
(* The tools alone.                                                        *)

ToolSteps == {"idle", "count", "ready", "newline"}

InFile(e) == \E i \in 1..Len(Content) : Content[i] = e

\* Only tools append; what they told or will tell to be stored is in the file,
\* and their counters are no larger than the number of texts in it.
ToolInv ==
    /\ TypeOK
    /\ \A p \in Procs :
         /\ proc[p].pc \in ToolSteps
         /\ proc[p].pc = "newline" =>
              InFile(proc[p].event) /\ proc[p].counter + 1 <= Cardinality(Texts(Content))
         /\ proc[p].pc = "ready" => proc[p].counter <= Cardinality(Texts(Content))
    /\ \A e \in acked : InFile(e)
    /\ IdsNeverAhead

\* What a tool can do to the file.
LEMMA ToolWrites ==
  ASSUME Services = {}, ToolInv, NEW p \in Procs, Step(p)
  PROVE  \/ Content' = Content
         \/ \E x \in Event \cup {NL, Part} : Content' = Append(Content, x) /\ file' = Content'
  <1>1. p \notin Services /\ proc[p].pc \in ToolSteps
    BY DEF ToolInv
  <1>2. ~Request(p) /\ ~LoadLog(p) /\ ~TruncateLog(p) /\ ~WriteLog(p) /\ ~WriteLogPartly(p)
    BY <1>1 DEF Request, LoadLog, TruncateLog, WriteLog, WriteLogPartly, ToolSteps
  <1>3. Content \in Pieces /\ TypeOK
    BY ContentType DEF ToolInv, TypeOK
  <1>4. \A x \in Event \cup {NL, Part} : Append(Content, x) # NoFile /\ Content # NoFile
    BY <1>3, AppendCounts, CustodyAssumption
  <1>5. CASE Open(p)
    <2>1. file' = Content
      BY <1>5 DEF Open
    <2> QED
      BY <1>4, <2>1 DEF Content
  <1>6. CASE CountEvents(p) \/ Close(p) \/ Stop(p)
    <2>1. file' = file
      BY <1>6 DEF CountEvents, Close, Stop
    <2> QED
      BY <2>1 DEF Content
  <1>7. CASE WriteText(p) \/ WriteTextPartly(p) \/ WriteNewline(p)
    <2>1. \E x \in Event \cup {NL, Part} : file' = Append(Content, x)
      <3>1. CASE WriteText(p)
        BY <1>3, <3>1, TextEffect
      <3>2. CASE WriteTextPartly(p)
        BY <3>2 DEF WriteTextPartly
      <3>3. CASE WriteNewline(p)
        BY <3>3 DEF WriteNewline
      <3> QED
        BY <1>7, <3>1, <3>2, <3>3
    <2>2. PICK x \in Event \cup {NL, Part} : file' = Append(Content, x)
      BY <2>1
    <2>3. Content' = file'
      BY <1>4, <2>2 DEF Content
    <2> QED
      BY <2>2, <2>3
  <1> QED
    BY <1>2, <1>5, <1>6, <1>7 DEF Step

\* The file keeps what it has, and the number of its texts does not shrink.
LEMMA ToolKeeps ==
  ASSUME Services = {}, ToolInv, NEW p \in Procs, Step(p)
  PROVE  /\ \A e : InFile(e) => InFile(e)'
         /\ Cardinality(Texts(Content)) \in Nat
         /\ Cardinality(Texts(Content')) \in Nat
         /\ Cardinality(Texts(Content)) <= Cardinality(Texts(Content'))
  <1>1. Content \in Pieces
    BY ContentType DEF ToolInv, TypeOK
  <1>2. CASE Content' = Content
    BY <1>1, <1>2, CountsFinite DEF InFile
  <1>3. ASSUME NEW x \in Event \cup {NL, Part}, Content' = Append(Content, x)
        PROVE  /\ \A e : InFile(e) => InFile(e)'
               /\ Cardinality(Texts(Content)) \in Nat
               /\ Cardinality(Texts(Content')) \in Nat
               /\ Cardinality(Texts(Content)) <= Cardinality(Texts(Content'))
    <2>1. /\ Len(Content') = Len(Content) + 1 /\ Len(Content) \in Nat
          /\ \A i \in 1..Len(Content) : Content'[i] = Content[i]
      BY <1>1, <1>3, AppendCounts DEF Pieces
    <2>2. \A e : InFile(e) => InFile(e)'
      BY <2>1 DEF InFile
    <2>3. Cardinality(Texts(Content)) \in Nat
      BY <1>1, CountsFinite
    <2>4. \/ Cardinality(Texts(Content')) = Cardinality(Texts(Content)) + 1
          \/ Texts(Content') = Texts(Content)
      BY <1>1, <1>3, AppendCounts
    <2> QED
      BY <2>2, <2>3, <2>4
  <1> QED
    BY <1>2, <1>3, ToolWrites

\* A piece at the end keeps the ids in front of it, and has to be looked at.
LEMMA IdsAppend ==
  ASSUME NEW x \in Event \cup {NL, Part}, Content \in Pieces, Content' = Append(Content, x),
         IdsNeverAhead, x \in Event => x.id <= Cardinality(Texts(Content))
  PROVE  IdsNeverAhead'
  <1>1. /\ Len(Content') = Len(Content) + 1 /\ Len(Content) \in Nat
        /\ \A i \in 1..Len(Content) : Content'[i] = Content[i]
        /\ Content'[Len(Content) + 1] = x
        /\ \A i \in 1..(Len(Content) + 1) : Upto(Content', i) = Upto(Content, i)
        /\ Upto(Content, Len(Content) + 1) = Texts(Content)
    BY AppendCounts DEF Pieces
  <1>2. \A i \in 1..Len(Content) : Content[i] \in Event =>
            Content[i].id <= Cardinality(Upto(Content, i))
    BY DEF IdsNeverAhead, Upto
  <1>3. \A i \in 1..Len(Content') : Content'[i] \in Event =>
            Content'[i].id <= Cardinality(Upto(Content', i))
    BY <1>1, <1>2
  <1> QED
    BY <1>3 DEF IdsNeverAhead, Upto

\* The other tools are where they were.
LEMMA ToolFrame ==
  ASSUME Services = {}, ToolInv, NEW p \in Procs, Step(p),
         \A q \in Procs \ {p} : proc'[q] = proc[q],
         NEW q \in Procs \ {p}
  PROVE  /\ proc'[q].pc \in ToolSteps
         /\ proc'[q].pc = "newline" =>
              InFile(proc[q].event)' /\ proc'[q].counter + 1 <= Cardinality(Texts(Content'))
         /\ proc'[q].pc = "ready" => proc'[q].counter <= Cardinality(Texts(Content'))
  <1>1. proc'[q] = proc[q] /\ q \in Procs /\ proc[q].counter \in Nat
    BY ProcFields DEF ToolInv, TypeOK
  <1>2. /\ proc[q].pc \in ToolSteps
        /\ proc[q].pc = "newline" =>
             InFile(proc[q].event) /\ proc[q].counter + 1 <= Cardinality(Texts(Content))
        /\ proc[q].pc = "ready" => proc[q].counter <= Cardinality(Texts(Content))
    BY <1>1 DEF ToolInv
  <1>3. \A e : InFile(e) => InFile(e)'
    BY ToolKeeps
  <1>4. InFile(proc[q].event) => InFile(proc[q].event)'
    BY <1>1, <1>3 DEF InFile
  <1> QED
    BY <1>1, <1>2, <1>4, ToolKeeps

LEMMA ToolStep ==
  ASSUME Services = {}, ToolInv, [Next]_vars
  PROVE  ToolInv'
  <1>z. TypeOK /\ TypeOK'
    BY TypeStep DEF ToolInv
  <1>y. Content' \in Pieces
    BY <1>z DEF TypeOK, Content, Pieces
  <1>0. /\ TypeOK /\ TypeOK' /\ Content \in Pieces /\ Content' \in Pieces
        /\ IdsNeverAhead /\ \A e \in acked : InFile(e)
    BY <1>y, <1>z, ContentType DEF ToolInv, TypeOK
  <1>1. CASE UNCHANGED vars
    BY <1>0, <1>1 DEF ToolInv, vars, InFile, Content, IdsNeverAhead
  <1>2. ASSUME NEW p \in Procs, Step(p) PROVE ToolInv'
    <2>0. /\ proc[p].pc \in ToolSteps /\ proc[p].counter \in Nat /\ proc[p].event \in Event
          /\ proc \in [Procs -> Proc] /\ Cardinality(Texts(Content)) \in Nat
      BY <1>0, <1>2, ProcFields, CountsFinite DEF ToolInv, TypeOK
    <2>a. \A e : InFile(e) => InFile(e)'
      BY <1>2, ToolKeeps
    <2>b. \A x \in Event \cup {NL, Part} : Append(Content, x) # NoFile
      BY <1>0, AppendCounts, CustodyAssumption
    \* What a step leaves to be shown.
    <2>c. ASSUME \A q \in Procs \ {p} : proc'[q] = proc[q],
                 proc'[p].pc \in ToolSteps,
                 proc'[p].pc = "newline" =>
                   InFile(proc[p].event)' /\ proc'[p].counter + 1 <= Cardinality(Texts(Content')),
                 proc'[p].pc = "ready" => proc'[p].counter <= Cardinality(Texts(Content')),
                 \A e \in acked' : InFile(e)', IdsNeverAhead'
          PROVE  ToolInv'
      <3>1. ASSUME NEW q \in Procs
            PROVE  /\ proc'[q].pc \in ToolSteps
                   /\ proc'[q].pc = "newline" =>
                        InFile(proc[q].event)' /\ proc'[q].counter + 1 <= Cardinality(Texts(Content'))
                   /\ proc'[q].pc = "ready" => proc'[q].counter <= Cardinality(Texts(Content'))
        BY <1>2, <2>c, ToolFrame
      <3> QED
        BY <1>0, <2>c, <3>1 DEF ToolInv
    <2>1. CASE Open(p)
      <3>1. Goto(p, "count") /\ file' = Content /\ acked' = acked
        BY <2>1 DEF Open
      <3>2. Content' = Content
        BY <1>0, <3>1, CustodyAssumption DEF Content
      <3>3. IdsNeverAhead'
        BY <1>0, <3>2 DEF IdsNeverAhead
      <3> QED
        BY <1>0, <1>2, <2>0, <2>a, <2>c, <3>1, <3>3, GoneTo, Labels DEF ToolSteps
    <2>2. CASE CountEvents(p)
      <3>1. UNCHANGED <<file, made, acked>>
        BY <2>2 DEF CountEvents
      <3>2. Content' = Content
        BY <3>1 DEF Content
      <3>3. IdsNeverAhead'
        BY <1>0, <3>2 DEF IdsNeverAhead
      <3>4. proc'[p].pc = "ready" /\ proc'[p].counter <= Cardinality(Texts(Content'))
        BY <1>0, <1>2, <2>2, <3>2, CountEffect, CountsFinite
      <3>5. \A q \in Procs \ {p} : proc'[q] = proc[q]
        BY <1>0, <1>2, <2>2, CountEffect
      <3> QED
        BY <1>0, <2>a, <2>c, <3>1, <3>3, <3>4, <3>5 DEF ToolSteps
    <2>3. CASE WriteText(p)
      <3>1. /\ proc[p].pc = "ready" /\ proc'[p].pc = "newline"
            /\ proc'[p].counter = proc[p].counter /\ proc'[p].event \in Event
            /\ proc'[p].event.id = proc[p].counter
            /\ file' = Append(Content, proc'[p].event)
            /\ \A q \in Procs \ {p} : proc'[q] = proc[q]
            /\ acked' = acked
        BY <1>0, <1>2, <2>3, TextEffect
      <3> DEFINE e == proc'[p].event
      <3>2. Content' = Append(Content, e) /\ e \in Event /\ e # NL
        BY <2>b, <3>1, CustodyAssumption DEF Content
      <3>3. proc[p].counter <= Cardinality(Texts(Content))
        BY <1>2, <3>1 DEF ToolInv
      <3>4. IdsNeverAhead'
        BY <1>0, <3>1, <3>2, <3>3, IdsAppend
      <3>5. Content'[Len(Content) + 1] = e /\ Len(Content) + 1 \in 1..Len(Content')
        BY <1>0, <3>2, AppendCounts DEF Pieces
      <3>6. InFile(proc[p].event)'
        BY <3>5 DEF InFile
      <3>7. Cardinality(Texts(Content')) = Cardinality(Texts(Content)) + 1
        BY <1>0, <3>2, AppendCounts
      <3>8. proc'[p].counter + 1 <= Cardinality(Texts(Content'))
        BY <2>0, <3>1, <3>3, <3>7
      <3> QED
        BY <1>0, <2>a, <2>c, <3>1, <3>4, <3>6, <3>8 DEF ToolSteps
    <2>4. CASE WriteTextPartly(p)
      <3>1. Return(p) /\ file' = Append(Content, Part) /\ acked' = acked
        BY <2>4 DEF WriteTextPartly
      <3>2. Content' = Append(Content, Part)
        BY <2>b, <3>1 DEF Content
      <3>3. IdsNeverAhead'
        BY <1>0, <3>2, IdsAppend, CustodyAssumption
      <3> QED
        BY <1>0, <1>2, <2>0, <2>a, <2>c, <3>1, <3>3, Returned DEF ToolSteps
    <2>5. CASE WriteNewline(p)
      <3>1. /\ proc[p].pc = "newline" /\ proc'[p].pc = "ready"
            /\ proc'[p].counter = proc[p].counter + 1
            /\ file' = Append(Content, NL)
            /\ \A q \in Procs \ {p} : proc'[q] = proc[q]
            /\ acked' = acked \cup {proc[p].event}
        BY <1>0, <1>2, <2>5, NewlineEffect
      <3>2. Content' = Append(Content, NL)
        BY <2>b, <3>1 DEF Content
      <3>3. IdsNeverAhead'
        BY <1>0, <3>2, IdsAppend, CustodyAssumption
      <3>4. InFile(proc[p].event) /\ proc[p].counter + 1 <= Cardinality(Texts(Content))
        BY <1>2, <3>1 DEF ToolInv
      <3>5. Texts(Content') = Texts(Content)
        BY <1>0, <3>2, AppendCounts
      <3>6. \A e \in acked' : InFile(e)'
        BY <1>0, <2>a, <3>1, <3>4
      <3> QED
        BY <2>c, <3>1, <3>3, <3>4, <3>5, <3>6 DEF ToolSteps
    <2>6. CASE Close(p) \/ Stop(p)
      <3>1. Return(p) /\ UNCHANGED <<file, acked>>
        BY <2>6 DEF Close, Stop
      <3>2. Content' = Content
        BY <3>1 DEF Content
      <3>3. IdsNeverAhead'
        BY <1>0, <3>2 DEF IdsNeverAhead
      <3> QED
        BY <1>0, <1>2, <2>0, <2>a, <2>c, <3>1, <3>3, Returned DEF ToolSteps
    <2>7. ~Request(p) /\ ~LoadLog(p) /\ ~TruncateLog(p) /\ ~WriteLog(p) /\ ~WriteLogPartly(p)
      BY <2>0 DEF Request, LoadLog, TruncateLog, WriteLog, WriteLogPartly, ToolSteps
    <2> QED
      BY <1>2, <2>1, <2>2, <2>3, <2>4, <2>5, <2>6, <2>7 DEF Step
  <1> QED
    BY <1>1, <1>2 DEF Next

LEMMA ToolInductive ==
  ASSUME Services = {}
  PROVE  Spec => []ToolInv
  <1>1. Init => ToolInv
    <2> SUFFICES ASSUME Init PROVE ToolInv
      OBVIOUS
    <2>1. TypeOK /\ \A p \in Procs : proc[p].pc = "idle"
      BY RestType DEF Init, TypeOK
    <2>2. acked = {} /\ Content = <<>> /\ Len(Content) = 0
      BY DEF Init, Content
    <2>3. IdsNeverAhead
      BY <2>2 DEF IdsNeverAhead
    <2> QED
      BY <2>1, <2>2, <2>3 DEF ToolInv, ToolSteps
  <1>2. ToolInv /\ [Next]_vars => ToolInv'
    BY ToolStep
  <1> QED
    BY <1>1, <1>2, PTL DEF Spec

\* No event that a tool was told is stored is ever lost, however many tools
\* overlap and wherever they are killed.
THEOREM ToolsKeepAcked ==
  ASSUME Services = {}
  PROVE  Spec => []AckedKept
  <1>1. ToolInv => AckedKept
    BY DEF ToolInv, AckedKept, InFile
  <1> QED
    BY <1>1, ToolInductive, PTL

\* No event id is larger than the number of texts in front of it.
THEOREM ToolIdsNeverAhead ==
  ASSUME Services = {}
  PROVE  Spec => []IdsNeverAhead
  <1>1. ToolInv => IdsNeverAhead
    BY DEF ToolInv
  <1> QED
    BY <1>1, ToolInductive, PTL

\* The tools never change what is in the file.
THEOREM ToolsOnlyAppend ==
  ASSUME Services = {}
  PROVE  Spec => OnlyGrows
  <1>1. ToolInv /\ [Next]_vars => [IsPrefix(Content, Content')]_vars
    <2> SUFFICES ASSUME ToolInv, [Next]_vars, ~UNCHANGED vars PROVE IsPrefix(Content, Content')
      OBVIOUS
    <2>1. PICK p \in Procs : Step(p)
      BY DEF Next
    <2>2. Content \in Pieces /\ Len(Content) \in Nat
      BY ContentType DEF ToolInv, TypeOK, Pieces
    <2>3. CASE Content' = Content
      BY <2>2, <2>3 DEF IsPrefix
    <2>4. ASSUME NEW x \in Event \cup {NL, Part}, Content' = Append(Content, x)
          PROVE  IsPrefix(Content, Content')
      <3>1. /\ Len(Content') = Len(Content) + 1 /\ Content' \in Pieces
            /\ \A i \in 1..Len(Content) : Content'[i] = Content[i]
        BY <2>2, <2>4, AppendCounts
      <3>2. SubSeq(Content', 1, Len(Content)) = SubSeq(Content, 1, Len(Content))
        BY <2>2, <3>1 DEF Pieces
      <3> QED
        BY <2>2, <3>1, <3>2 DEF IsPrefix
    <2> QED
      BY <2>1, <2>3, <2>4, ToolWrites
  <1> QED
    BY <1>1, ToolInductive, PTL DEF Spec, OnlyGrows

-----------------------------------------------------------------------------
(* Appenders that do not overlap.                                          *)

\* What the lines of a file say: an event behind lines that parse has their
\* number as its id, and in such lines only their starts are not newlines.
Sound(f) ==
    /\ \A i \in 1..Len(f) :
          f[i] \in Event /\ ParseTo(f, i)
          => f[i].id \in {Cardinality(LinesTo(f, i - 1))} \cup Misread
    /\ \A i \in 1..Len(f) : ParseTo(f, i) /\ f[i] # NL => i \in LineStarts(f)

\* The lines among the first pieces depend on these pieces only.
LEMMA SameFront ==
  ASSUME NEW f \in Pieces, NEW g \in Pieces, NEW n \in Nat, n <= Len(f), n <= Len(g),
         \A i \in 1..n : f[i] = g[i]
  PROVE  \A k \in 0..n : LinesTo(f, k) = LinesTo(g, k) /\ (ParseTo(f, k) <=> ParseTo(g, k))
  <1>1. Len(f) \in Nat /\ Len(g) \in Nat
    BY DEF Pieces
  <1> SUFFICES ASSUME NEW k \in 0..n
               PROVE  LinesTo(f, k) = LinesTo(g, k) /\ (ParseTo(f, k) <=> ParseTo(g, k))
    OBVIOUS
  <1>2. LinesTo(f, k) = LinesTo(g, k)
    BY <1>1 DEF LinesTo, LineStarts
  <1>3. \A j \in LinesTo(f, k) : j \in 1..k
    BY <1>1 DEF LinesTo, LineStarts
  <1>4. \A j \in 1..k : f[j] = g[j] /\ (j < k => f[j + 1] = g[j + 1])
    <2>1. \A j \in 1..k : j \in 1..n /\ (j < k => j + 1 \in 1..n)
      OBVIOUS
    <2> QED
      BY <2>1
  <1> QED
    BY <1>2, <1>3, <1>4 DEF ParseTo

LEMMA SoundFront ==
  ASSUME NEW f \in Pieces, Sound(f), NEW k \in 0..Len(f)
  PROVE  Sound(SubSeq(f, 1, k))
  <1> DEFINE g == SubSeq(f, 1, k)
  <1>1. /\ Len(f) \in Nat /\ g \in Pieces /\ Len(g) = k /\ k \in Nat /\ k <= Len(f)
        /\ \A i \in 1..k : g[i] = f[i]
    BY DEF Pieces
  <1> HIDE DEF g
  <1>2. \A i \in 0..k : LinesTo(g, i) = LinesTo(f, i) /\ (ParseTo(g, i) <=> ParseTo(f, i))
    BY <1>1, SameFront
  <1>3. \A i \in 1..k : i \in 0..k /\ i - 1 \in 0..k /\ i \in 1..Len(f)
    BY <1>1
  <1>4. ASSUME NEW i \in 1..k, i \in LineStarts(f) PROVE i \in LineStarts(g)
    BY <1>1, <1>4 DEF LineStarts
  <1>5. Sound(g)
    BY <1>1, <1>2, <1>3, <1>4 DEF Sound
  <1> QED
    BY <1>5 DEF g

\* A piece more: an event needs the right id only where all lines parse.
LEMMA SoundAppend ==
  ASSUME NEW f \in Pieces, Sound(f), NEW x \in Event \cup {NL, Part},
         x \in Event /\ ParseTo(f, Len(f)) => x.id \in {CountLines(f)} \cup Misread
  PROVE  LET g == Append(f, x) IN
         /\ g \in Pieces /\ Sound(g)
         /\ ParseTo(g, Len(g)) => ParseTo(f, Len(f))
         /\ ParseTo(g, Len(g)) /\ x # NL => CountLines(g) = CountLines(f) + 1
         /\ x = NL => CountLines(g) = CountLines(f)
  <1> DEFINE g == Append(f, x)
             n == Len(f)
  <1>1. /\ g \in Pieces /\ n \in Nat /\ Len(g) = n + 1 /\ g[n + 1] = x
        /\ \A i \in 1..n : g[i] = f[i]
    BY AppendCounts DEF Pieces
  <1> HIDE DEF g, n
  <1>2. \A k \in 0..n : LinesTo(g, k) = LinesTo(f, k) /\ (ParseTo(g, k) <=> ParseTo(f, k))
    BY <1>1, SameFront DEF n
  <1>3. LinesTo(f, n) = LineStarts(f)
    BY DEF LinesTo, LineStarts, n
  <1>4. \A i \in 1..n : i \in LineStarts(g) <=> i \in LineStarts(f)
    BY <1>1 DEF LineStarts, n
  <1>5. ASSUME ParseTo(g, n + 1) PROVE ParseTo(f, n)
    <2>1. SUFFICES ASSUME NEW j \in LinesTo(g, n)
                   PROVE  g[j] # Part /\ (j < n => g[j + 1] = NL)
      BY <1>1, <1>2 DEF ParseTo
    <2>2. j \in LinesTo(g, n + 1) /\ j \in Nat
      BY <1>1 DEF LinesTo, LineStarts
    <2> QED
      BY <1>1, <1>5, <2>2 DEF ParseTo
  <1>6. ASSUME ParseTo(g, n + 1), x # NL PROVE n + 1 \in LineStarts(g)
    <2>1. CASE n = 0
      BY <1>1, <1>6, <2>1 DEF LineStarts
    <2>2. CASE n # 0 /\ f[n] # NL
      <3>1. n \in 1..n /\ n \in LineStarts(f)
        BY <1>1, <1>5, <1>6, <2>2 DEF Sound, n
      <3>2. n \in LinesTo(g, n + 1)
        BY <1>1, <1>4, <3>1 DEF LinesTo
      <3> QED
        BY <1>1, <1>6, <3>2 DEF ParseTo
    <2>3. CASE n # 0 /\ f[n] = NL
      <3>1. g[n] = NL /\ n + 1 # 1 /\ (n + 1) - 1 = n /\ n + 1 \in 1..Len(g)
        BY <1>1, <2>3
      <3> QED
        BY <1>1, <1>6, <3>1 DEF LineStarts
    <2> QED
      BY <2>1, <2>2, <2>3
  <1>7. Sound(g)
    <2>1. ASSUME NEW i \in 1..(n + 1), ParseTo(g, i)
          PROVE  /\ g[i] \in Event => g[i].id \in {Cardinality(LinesTo(g, i - 1))} \cup Misread
                 /\ g[i] # NL => i \in LineStarts(g)
      <3>1. CASE i \in 1..n
        <4>1. /\ i \in 0..n /\ i - 1 \in 0..n /\ g[i] = f[i] /\ ParseTo(f, i)
              /\ LinesTo(g, i - 1) = LinesTo(f, i - 1)
          <5>1. i \in 0..n /\ i - 1 \in 0..n
            BY <1>1, <3>1
          <5> QED
            BY <1>1, <1>2, <2>1, <3>1, <5>1
        <4> QED
          BY <1>4, <3>1, <4>1 DEF Sound, n
      <3>2. CASE i = n + 1
        <4>1. ParseTo(f, n) /\ i - 1 = n /\ n \in 0..n
          BY <1>1, <1>5, <2>1, <3>2
        <4>2. Cardinality(LinesTo(g, i - 1)) = CountLines(f)
          BY <1>2, <1>3, <4>1 DEF CountLines
        <4> QED
          BY <1>1, <1>6, <2>1, <3>2, <4>1, <4>2 DEF n
      <3> QED
        BY <1>1, <2>1, <3>1, <3>2
    <2> QED
      BY <1>1, <2>1 DEF Sound
  <1>8. ASSUME ParseTo(g, n + 1), x # NL PROVE CountLines(g) = CountLines(f) + 1
    <2>1. LineStarts(g) = LineStarts(f) \cup {n + 1}
      BY <1>1, <1>4, <1>6, <1>8 DEF LineStarts, n
    <2>2. n + 1 \notin LineStarts(f)
      BY <1>1 DEF LineStarts, n
    <2>3. IsFiniteSet(LineStarts(f))
      BY CountsFinite
    <2> QED
      BY <2>1, <2>2, <2>3, FS_AddElement DEF CountLines
  <1>9. ASSUME x = NL PROVE CountLines(g) = CountLines(f)
    <2>1. LineStarts(g) = LineStarts(f)
      BY <1>1, <1>4, <1>9 DEF LineStarts, n
    <2> QED
      BY <2>1 DEF CountLines
  <1> QED
    BY <1>1, <1>5, <1>7, <1>8, <1>9 DEF g, n

\* What an appender has to go on, while it is the only one.
Alone(p) ==
    /\ proc[p].pc = "ready" /\ ParseTo(Content, Len(Content))
          => proc[p].counter = CountLines(Content)
    /\ proc[p].pc = "newline" /\ ParseTo(Content, Len(Content))
          => proc[p].counter + 1 = CountLines(Content)
    /\ proc[p].pc = "load" => proc[p].event.id \in {CountLines(Content)} \cup Misread
    /\ proc[p].pc \in {"truncate", "write"} => Sound(proc[p].text)
    /\ proc[p].pc = "write" => Content = <<>>

AloneInv ==
    /\ TypeOK /\ Sound(Content)
    /\ \A p, q \in Procs : ~Idle(p) /\ ~Idle(q) => p = q
    /\ \A p \in Procs : Alone(p)

LEMMA SoundEmpty == Sound(<<>>) /\ <<>> \in Pieces
  BY DEF Sound, Pieces

\* While the others rest, the step of one preserves AloneInv as soon as it
\* preserves what is said of it and of the file.
LEMMA AloneFrame ==
  ASSUME TypeOK', NEW p \in Procs, \A q \in Procs \ {p} : Idle(q),
         \A q \in Procs \ {p} : proc'[q] = proc[q],
         Sound(Content)', Alone(p)'
  PROVE  AloneInv'
  <1>1. \A q \in Procs \ {p} : proc'[q].pc = "idle"
    BY DEF Idle
  <1>2. \A q \in Procs : Alone(q)'
    BY <1>1 DEF Alone
  <1>3. \A q, r \in Procs : ~Idle(q)' /\ ~Idle(r)' => q = r
    BY <1>1 DEF Idle
  <1> QED
    BY <1>2, <1>3 DEF AloneInv

\* An appender that returns leaves a sound file.
LEMMA AloneReturns ==
  ASSUME TypeOK, TypeOK', NEW p \in Procs, \A q \in Procs \ {p} : Idle(q),
         Return(p), Sound(Content')
  PROVE  AloneInv'
  <1>1. proc'[p].pc = "idle" /\ \A q \in Procs \ {p} : proc'[q] = proc[q]
    BY Returned DEF TypeOK
  <1>2. Alone(p)'
    BY <1>1 DEF Alone
  <1> QED
    BY <1>1, <1>2, AloneFrame

LEMMA AloneStep ==
  ASSUME Exclusive, AloneInv, [Next]_vars
  PROVE  AloneInv'
  <1>0. /\ TypeOK /\ TypeOK' /\ Content \in Pieces /\ Sound(Content)
        /\ proc \in [Procs -> Proc]
    BY TypeStep, ContentType DEF AloneInv, TypeOK
  <1>1. CASE UNCHANGED vars
    <2>1. proc' = proc /\ Content' = Content
      BY <1>1 DEF vars, Content
    <2>2. \A p \in Procs : Alone(p)'
      BY <2>1 DEF AloneInv, Alone
    <2>3. \A p, q \in Procs : ~Idle(p)' /\ ~Idle(q)' => p = q
      BY <2>1 DEF AloneInv, Idle
    <2>4. Sound(Content)'
      BY <1>0, <2>1
    <2> QED
      BY <1>0, <2>2, <2>3, <2>4 DEF AloneInv
  <1>2. ASSUME NEW p \in Procs, Step(p) PROVE AloneInv'
    <2>0. /\ Alone(p) /\ proc[p].event \in Event /\ proc[p].text \in Pieces
          /\ proc[p].counter \in Nat
      BY <1>0, ProcFields DEF AloneInv
    <2>a. \A q \in Procs \ {p} : Idle(q)
      <3>1. CASE MayBegin(p)
        BY <3>1 DEF MayBegin
      <3>2. CASE ~Idle(p)
        BY <3>2 DEF AloneInv
      <3> QED
        BY <1>2, <3>1, <3>2
           DEF Step, Open, CountEvents, WriteText, WriteTextPartly, WriteNewline, Close,
               Request, LoadLog, TruncateLog, WriteLog, WriteLogPartly, Stop, Idle
    <2>b. NL \in Event \cup {NL, Part} /\ Part \in Event \cup {NL, Part}
          /\ NL \notin Event /\ Part \notin Event
      BY CustodyAssumption
    <2>c. ASSUME file' \in Pieces PROVE Content' = file'
      BY <2>c, CustodyAssumption DEF Content
    <2>1. CASE Open(p)
      <3>1. Goto(p, "count") /\ file' = Content
        BY <2>1 DEF Open
      <3>2. /\ proc'[p].pc = "count" /\ Content' = Content
            /\ \A q \in Procs \ {p} : proc'[q] = proc[q]
        BY <1>0, <2>c, <3>1, GoneTo, Labels
      <3>3. Alone(p)'
        BY <3>2 DEF Alone
      <3>4. Sound(Content)'
        BY <1>0, <3>2
      <3> QED
        BY <1>0, <2>a, <3>2, <3>3, <3>4, AloneFrame
    <2>2. CASE CountEvents(p)
      <3>1. /\ proc'[p].pc = "ready" /\ proc'[p].counter = CountLines(Content)
            /\ \A q \in Procs \ {p} : proc'[q] = proc[q]
        BY <1>0, <2>2, CountEffect
      <3>2. Content' = Content
        BY <2>2 DEF CountEvents, Content
      <3>3. Alone(p)'
        BY <3>1, <3>2 DEF Alone
      <3>4. Sound(Content)'
        BY <1>0, <3>2
      <3> QED
        BY <1>0, <2>a, <3>1, <3>3, <3>4, AloneFrame
    <2>3. CASE WriteText(p)
      <3>1. /\ proc[p].pc = "ready" /\ proc'[p].pc = "newline"
            /\ proc'[p].counter = proc[p].counter /\ proc'[p].event \in Event
            /\ proc'[p].event.id = proc[p].counter
            /\ file' = Append(Content, proc'[p].event)
            /\ \A q \in Procs \ {p} : proc'[q] = proc[q]
        BY <1>0, <2>3, TextEffect
      <3> DEFINE x == proc'[p].event
                 g == Append(Content, x)
      <3>2. x \in Event \cup {NL, Part} /\ x # NL
            /\ (x \in Event /\ ParseTo(Content, Len(Content))
                  => x.id \in {CountLines(Content)} \cup Misread)
        BY <2>0, <2>b, <3>1 DEF Alone
      <3>3. /\ g \in Pieces /\ Sound(g)
            /\ ParseTo(g, Len(g)) => ParseTo(Content, Len(Content))
            /\ ParseTo(g, Len(g)) => CountLines(g) = CountLines(Content) + 1
        <4> HIDE DEF x
        <4> QED
          BY <1>0, <3>2, SoundAppend
      <3> HIDE DEF g
      <3>4. Content' = g
        BY <2>c, <3>1, <3>3 DEF g
      <3>5. Alone(p)'
        BY <2>0, <3>1, <3>3, <3>4 DEF Alone
      <3>6. Sound(Content)'
        BY <3>3, <3>4
      <3> QED
        BY <1>0, <2>a, <3>1, <3>5, <3>6, AloneFrame
    <2>4. CASE WriteTextPartly(p)
      <3>1. Return(p) /\ file' = Append(Content, Part)
        BY <2>4 DEF WriteTextPartly
      <3>2. Append(Content, Part) \in Pieces /\ Sound(Append(Content, Part))
        BY <1>0, <2>b, SoundAppend
      <3>3. Sound(Content')
        BY <2>c, <3>1, <3>2
      <3> QED
        BY <1>0, <2>a, <3>1, <3>3, AloneReturns
    <2>5. CASE WriteNewline(p)
      <3>1. /\ proc[p].pc = "newline" /\ proc'[p].pc = "ready"
            /\ proc'[p].counter = proc[p].counter + 1
            /\ file' = Append(Content, NL)
            /\ \A q \in Procs \ {p} : proc'[q] = proc[q]
        BY <1>0, <2>5, NewlineEffect
      <3> DEFINE g == Append(Content, NL)
      <3>2. /\ g \in Pieces /\ Sound(g)
            /\ ParseTo(g, Len(g)) => ParseTo(Content, Len(Content))
            /\ CountLines(g) = CountLines(Content)
        BY <1>0, <2>b, SoundAppend
      <3> HIDE DEF g
      <3>3. Content' = g
        BY <2>c, <3>1, <3>2 DEF g
      <3>4. Alone(p)'
        BY <2>0, <3>1, <3>2, <3>3 DEF Alone
      <3>5. Sound(Content)'
        BY <3>2, <3>3
      <3> QED
        BY <1>0, <2>a, <3>1, <3>4, <3>5, AloneFrame
    <2>6. CASE Close(p) \/ Stop(p)
      <3>1. Return(p) /\ Content' = Content
        BY <2>6 DEF Close, Stop, Content
      <3> QED
        BY <1>0, <2>a, <3>1, AloneReturns
    <2>7. CASE Request(p)
      <3>1. /\ proc'[p].pc = "load" /\ \A q \in Procs \ {p} : proc'[q] = proc[q]
            /\ proc'[p].event.id \in {CountLines(Content)} \cup Misread /\ file' = file
        BY <1>0, <2>7, RequestEffect
      <3>2. Content' = Content
        BY <3>1 DEF Content
      <3>3. Alone(p)'
        BY <3>1, <3>2 DEF Alone
      <3>4. Sound(Content)'
        BY <1>0, <3>2
      <3> QED
        BY <1>0, <2>a, <3>1, <3>3, <3>4, AloneFrame
    <2>8. CASE LoadLog(p)
      <3>1. /\ proc'[p].pc = "truncate" /\ \A q \in Procs \ {p} : proc'[q] = proc[q]
            /\ proc'[p].text = Content \o <<proc[p].event, NL>> /\ file' = file
        BY <1>0, <2>8, LoadEffect
      <3>2. Content' = Content /\ proc[p].pc = "load"
        BY <2>8, <3>1 DEF Content, LoadLog
      <3> DEFINE e == proc[p].event
                 g == Append(Content, e)
      <3>3. e \in Event \cup {NL, Part} /\ e.id \in {CountLines(Content)} \cup Misread
        BY <2>0, <3>2 DEF Alone
      <3>4. Content \o <<e, NL>> = Append(g, NL)
        <4>1. e \in Event \cup {NL, Part} /\ Content \in Seq(Event \cup {NL, Part})
          BY <1>0, <3>3 DEF Pieces
        <4> HIDE DEF e
        <4> QED
          BY <4>1, <2>b
      <3>5. g \in Pieces /\ Sound(g)
        <4> HIDE DEF e
        <4> QED
          BY <1>0, <3>3, SoundAppend
      <3> HIDE DEF g
      <3>6. Sound(Append(g, NL))
        BY <2>b, <3>5, SoundAppend
      <3>7. Sound(proc'[p].text)
        BY <3>1, <3>4, <3>6
      <3>8. Alone(p)'
        BY <3>1, <3>7 DEF Alone
      <3>9. Sound(Content)'
        BY <1>0, <3>2
      <3> QED
        BY <1>0, <2>a, <3>1, <3>8, <3>9, AloneFrame
    <2>9. CASE TruncateLog(p)
      <3>1. Goto(p, "write") /\ file' = <<>> /\ proc[p].pc = "truncate"
        BY <2>9 DEF TruncateLog
      <3>2. /\ proc'[p].pc = "write" /\ proc'[p].text = proc[p].text
            /\ \A q \in Procs \ {p} : proc'[q] = proc[q]
        BY <1>0, <3>1, GoneTo, Labels
      <3>3. Content' = <<>>
        BY <2>c, <3>1, SoundEmpty
      <3>4. Alone(p)'
        BY <2>0, <3>1, <3>2, <3>3 DEF Alone
      <3>5. Sound(Content)'
        BY <3>3, SoundEmpty
      <3> QED
        BY <1>0, <2>a, <3>2, <3>4, <3>5, AloneFrame
    <2>10. CASE WriteLog(p)
      <3>1. Return(p) /\ Content = <<>> /\ Sound(proc[p].text)
        BY <2>0, <2>10 DEF WriteLog, Alone
      <3> DEFINE t == proc[p].text
                 tail == SubSeq(Content, Len(t) + 1, Len(Content))
      <3>2. tail = <<>>
        BY <2>0, <3>1 DEF Pieces
      <3>3. t \o <<>> = t
        BY <2>0 DEF Pieces
      <3>4. file' = t
        BY <2>10, <3>2, <3>3 DEF WriteLog
      <3>5. Sound(Content')
        BY <2>0, <2>c, <3>1, <3>4
      <3> QED
        BY <1>0, <2>a, <3>1, <3>5, AloneReturns
    <2>11. CASE WriteLogPartly(p)
      <3>1. Return(p) /\ Sound(proc[p].text)
        BY <2>0, <2>11 DEF WriteLogPartly, Alone
      <3>2. PICK k \in 0..(Len(proc[p].text) - 1), cut \in BOOLEAN :
              file' = SubSeq(proc[p].text, 1, k) \o (IF cut THEN <<Part>> ELSE <<>>)
        BY <2>11 DEF WriteLogPartly
      <3> DEFINE s == SubSeq(proc[p].text, 1, k)
      <3>3. k \in 0..Len(proc[p].text)
        BY <2>0 DEF Pieces
      <3>4. s \in Pieces /\ Sound(s)
        BY <2>0, <3>1, <3>3, Pieced, SoundFront
      <3> HIDE DEF s
      <3>5. s \o <<Part>> = Append(s, Part) /\ s \o <<>> = s
        BY <2>b, <3>4 DEF Pieces
      <3>6. Append(s, Part) \in Pieces /\ Sound(Append(s, Part))
        BY <2>b, <3>4, SoundAppend
      <3>7. file' = s \/ file' = Append(s, Part)
        BY <3>2, <3>5 DEF s
      <3>8. Sound(Content')
        BY <2>c, <3>4, <3>6, <3>7
      <3> QED
        BY <1>0, <2>a, <3>1, <3>8, AloneReturns
    <2> QED
      BY <1>2, <2>1, <2>2, <2>3, <2>4, <2>5, <2>6, <2>7, <2>8, <2>9, <2>10, <2>11 DEF Step
  <1> QED
    BY <1>1, <1>2 DEF Next

\* The ids of a log are the numbers of its lines as long as it parses: for any
\* tools and requests that do not overlap, wherever they were cut short.
THEOREM DamageIsSeen ==
  ASSUME Exclusive
  PROVE  Spec => []DamageShows
  <1>1. Init => AloneInv
    <2> SUFFICES ASSUME Init PROVE AloneInv
      OBVIOUS
    <2>1. TypeOK
      BY RestType DEF Init, TypeOK
    <2>2. Content = <<>> /\ \A p \in Procs : proc[p].pc = "idle"
      BY RestType DEF Init, Content
    <2> QED
      BY <2>1, <2>2, SoundEmpty DEF AloneInv, Alone, Idle
  <1>2. AloneInv /\ [Next]_vars => AloneInv'
    BY AloneStep
  <1>3. AloneInv => DamageShows
    BY DEF AloneInv, Sound, DamageShows, Misread
  <1> QED
    BY <1>1, <1>2, <1>3, PTL DEF Spec
=============================================================================
