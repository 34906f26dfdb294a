------------------------- MODULE CaseRegistryProofs -------------------------
(***************************************************************************)
(* Proofs about CaseRegistry, for any finite set of roots and any number   *)
(* of operations and failures.                                             *)
(***************************************************************************)
EXTENDS CaseRegistry, FiniteSetTheorems, TLAPS

-----------------------------------------------------------------------------
(* The inductive invariant.                                                *)

Lines(log) == IF log = NoFile THEN <<>> ELSE log

\* Operations that do not overlap.
Alone == \A p, q \in Procs : ~Idle(p) /\ ~Idle(q) => p = q

LogSteps == {"count", "load", "truncate", "write"}

\* The count of the manifest against the registry.
Drift ==
    manifest # NoFile /\ registry # NoFile =>
        manifest.count \in {Cardinality(Registered(registry)),
                            Cardinality(Registered(registry)) + 1}

\* What an event claims holds of a registry.
Claims(event, reg) ==
    /\ reg # NoFile
    /\ event.action # "case_verified" => event.root \in Roots
    /\ event.action = "root_attached" => reg[event.root] # "absent"
    /\ event.action = "root_detached" => reg[event.root] = "detached"

\* A log whose events are justified, each with its position as its id.
Good(text, reg) ==
    \A i \in 1..Len(text) : text[i] # Broken => Claims(text[i], reg) /\ text[i].id + 1 = i

\* What an operation has read is still so, because nobody else writes.
Fresh(p) ==
    /\ op[p].pc = "begun" => manifest # NoFile /\ op[p].man = manifest
    /\ op[p].kind = "create" =>
         /\ op[p].pc \in {"idle", "manifest", "registry"}
         /\ op[p].pc # "idle" =>
              /\ registry = NoFile
              /\ op[p].man.count = Cardinality(Registered(op[p].reg))
         /\ op[p].pc = "registry" => manifest = op[p].man
    /\ op[p].kind # "create" /\ op[p].pc \notin {"idle", "begun"} =>
         manifest # NoFile /\ registry # NoFile
    /\ op[p].kind = "attach" =>
         /\ op[p].pc \in {"begun", "manifest", "registry"} \cup LogSteps
         /\ op[p].root \in Roots
         /\ op[p].pc \in {"manifest", "registry"} =>
              /\ registry[op[p].root] = "absent"
              /\ op[p].reg = [registry EXCEPT ![op[p].root] = "active"]
              /\ op[p].man.count = Cardinality(Registered(op[p].reg))
              /\ op[p].man.count = Cardinality(Registered(registry)) + 1
         /\ op[p].pc = "registry" => manifest = op[p].man
         /\ op[p].pc \in LogSteps => registry[op[p].root] # "absent"
    /\ op[p].kind = "detach" =>
         /\ op[p].pc \in {"begun", "registry"} \cup LogSteps
         /\ op[p].root \in Roots
         /\ op[p].pc = "registry" =>
              /\ registry[op[p].root] # "absent"
              /\ op[p].reg = [registry EXCEPT ![op[p].root] = "detached"]
         /\ op[p].pc \in LogSteps => registry[op[p].root] = "detached"
    /\ op[p].kind = "build" =>
         /\ op[p].pc \in {"begun", "index", "indexFill", "manifest"}
         /\ op[p].pc # "begun" => op[p].man.count = manifest.count
    /\ op[p].kind = "verify" =>
         /\ op[p].pc \in {"begun", "report", "manifest"} \cup LogSteps
         /\ op[p].pc \in {"report", "manifest"} => op[p].man.count = manifest.count
    /\ op[p].pc = "load" =>
         /\ op[p].id = Len(Lines(events))
         /\ \A i \in 1..Len(Lines(events)) : Lines(events)[i] # Broken
    /\ op[p].pc \in {"truncate", "write"} => Good(op[p].text, registry)
    /\ op[p].pc = "write" => events = <<>>

\* A process between operations has no local state.
Resting == \A p \in Procs : Idle(p) => op[p] = Rest

\* Two processes in an operation have met.
Meets == \A p, q \in Procs : p # q /\ ~Idle(p) /\ ~Idle(q) => p \in met

\* What an operation makes of the registry it read, and that the registry still
\* shows what it read of the roots that others have not touched.
Copied(p) ==
    /\ op[p].kind \in {"attach", "detach"} =>
         op[p].root \in Roots /\ op[p].pc \notin {"report", "index", "indexFill"}
    /\ op[p].pc = "registry" => op[p].kind \in {"create", "attach", "detach"}
    /\ HoldsCopy(p) =>
         /\ registry # NoFile
         /\ op[p].kind = "attach" =>
              /\ op[p].man.count = Cardinality(Registered(op[p].reg))
              /\ op[p].root \notin touched[p] => registry[op[p].root] = "absent"
         /\ op[p].kind = "detach" => op[p].reg[op[p].root] = "detached"
         /\ \A r \in Roots \ touched[p] : r # op[p].root => op[p].reg[r] = registry[r]

\* The manifest that an operation has written is still there when nobody else
\* has been in the case.
Announced(p) ==
    p \notin met /\ op[p].kind = "attach" /\ op[p].pc = "registry" => manifest = op[p].man

IInv ==
    /\ TypeOK
    /\ Resting
    /\ Meets
    /\ \A p \in Procs : Copied(p) /\ Announced(p)
    /\ clashes = 0 =>
         /\ Alone
         /\ met = {}
         /\ Drift
         /\ Good(Lines(events), registry)
         /\ \A p \in Procs : Fresh(p)

-----------------------------------------------------------------------------
(* Logs.                                                                   *)

\* Whatever is pushed to or cut off a text leaves lines.
LEMMA LinesType == \A log \in Text \cup {NoFile} : Lines(log) \in Text
  BY DEF Lines, Text

LEMMA TailsType ==
  ASSUME NEW text \in Text, NEW tail \in Tails(text)
  PROVE  tail \in Text /\ (text = <<>> => tail = <<>>)
  <1>1. <<>> \in Text /\ <<Broken>> \in Text /\ Len(text) \in Nat
    BY DEF Text
  <1>2. \A s, t \in Text : s \o t \in Text
    BY DEF Text
  <1>3. \A k \in 2..(Len(text) + 1) : SubSeq(text, k, Len(text)) \in Text
    BY <1>1 DEF Text
  <1>4. tail = <<>> \/ \E k \in 2..(Len(text) + 1) :
          tail = SubSeq(text, k, Len(text)) \/ tail = <<Broken>> \o SubSeq(text, k, Len(text))
    BY DEF Tails
  <1>5. tail \in Text
    BY <1>1, <1>2, <1>3, <1>4
  <1>6. text = <<>> => tail = <<>>
    BY <1>4
  <1> QED
    BY <1>5, <1>6

\* What a write that is cut short leaves, on a text that another has written.
LEMMA PartlyType ==
  ASSUME NEW text \in Text, NEW n \in 0..(Len(text) - 1), NEW tail \in Text
  PROVE  SubSeq(text, 1, n) \o tail \in Text
  <1>1. SubSeq(text, 1, n) \in Text
    BY DEF Text
  <1> QED
    BY <1>1 DEF Text

LEMMA ExtendType ==
  ASSUME NEW text \in Text, NEW event \in Event, NEW new \in Extend(text, event)
  PROVE  new \in Text
  <1> DEFINE S == Event \cup {Broken}
  <1>1. text \in Seq(S) /\ event \in S /\ Broken \in S
    BY DEF Text
  <1> HIDE DEF S
  <1>2. <<event>> \in Seq(S) /\ Append(text, event) \in Seq(S)
    BY <1>1
  <1>3. text # <<>> => [text EXCEPT ![Len(text)] = Broken] \in Seq(S)
    BY <1>1
  <1>4. new \in Seq(S)
    BY <1>1, <1>2, <1>3 DEF Extend
  <1> QED
    BY <1>4 DEF Text, S

LEMMA CutOffCases ==
  ASSUME NEW text \in Text, NEW cut \in CutOff(text)
  PROVE  /\ cut \in Text
         /\ \E n \in 0..(Len(text) - 1) :
              \/ cut = SubSeq(text, 1, n)
              \/ cut = Append(SubSeq(text, 1, n), Broken)
              \/ /\ text[n + 1] # Broken
                 /\ cut = Append(SubSeq(text, 1, n), [text[n + 1] EXCEPT !.newline = FALSE])
  <1>1. PICK n \in 0..(Len(text) - 1) :
              \/ cut = SubSeq(text, 1, n)
              \/ cut = Append(SubSeq(text, 1, n), Broken)
              \/ /\ text[n + 1] # Broken
                 /\ cut = Append(SubSeq(text, 1, n), [text[n + 1] EXCEPT !.newline = FALSE])
    BY DEF CutOff
  <1>2. n + 1 \in 1..Len(text) /\ n \in 0..Len(text)
    BY DEF Text
  <1>3. SubSeq(text, 1, n) \in Text
    BY <1>2 DEF Text
  <1>4. text[n + 1] \in Event \cup {Broken}
    BY <1>2 DEF Text
  <1>5. text[n + 1] # Broken => [text[n + 1] EXCEPT !.newline = FALSE] \in Event
    BY <1>4 DEF Event
  <1>6. \A s \in Text, e \in Event \cup {Broken} : Append(s, e) \in Text
    BY DEF Text
  <1>7. cut \in Text
    BY <1>1, <1>3, <1>5, <1>6
  <1> QED
    BY <1>1, <1>7

LEMMA CutOffHolds ==
  ASSUME NEW text, NEW n \in 0..(Len(text) - 1)
  PROVE  SubSeq(text, 1, n) \in CutOff(text)
  <1> DEFINE Left(k) == {SubSeq(text, 1, k), Append(SubSeq(text, 1, k), Broken)} \cup
              (IF text[k + 1] = Broken THEN {}
               ELSE {Append(SubSeq(text, 1, k), [text[k + 1] EXCEPT !.newline = FALSE])})
  <1>1. SubSeq(text, 1, n) \in Left(n)
    OBVIOUS
  <1>2. CutOff(text) = UNION {Left(k) : k \in 0..(Len(text) - 1)}
    BY DEF CutOff
  <1> HIDE DEF Left
  <1> QED
    BY <1>1, <1>2

\* A justified event at the end of a good text, whose id is the length.
LEMMA ExtendGood ==
  ASSUME NEW reg, NEW text \in Text, Good(text, reg),
         \A i \in 1..Len(text) : text[i] # Broken,
         NEW event \in Event, Claims(event, reg), event.id = Len(text),
         NEW new \in Extend(text, event)
  PROVE  Good(new, reg)
  <1>1. CASE text = <<>>
    <2>1. new = <<event>> /\ Len(text) = 0
      BY <1>1 DEF Extend
    <2>2. Len(new) = 1 /\ new[1] = event /\ event.id + 1 = 1
      BY <2>1
    <2> QED
      BY <2>2 DEF Good
  <1>2. CASE text # <<>>
    <2>0. Len(text) \in Nat /\ Len(text) > 0
      BY <1>2 DEF Text
    <2>1. CASE ~text[Len(text)].newline
      <3>1. new = [text EXCEPT ![Len(text)] = Broken]
        BY <1>2, <2>0, <2>1 DEF Extend
      <3> QED
        BY <2>0, <3>1 DEF Good, Text
    <2>2. CASE text[Len(text)].newline
      <3>1. new = Append(text, event)
        BY <1>2, <2>0, <2>2 DEF Extend
      <3>2. Len(Append(text, event)) = Len(text) + 1
        BY DEF Text
      <3>3. \A i \in 1..Len(text) : Append(text, event)[i] = text[i]
        BY DEF Text
      <3>4. Append(text, event)[Len(text) + 1] = event
        BY DEF Text
      <3> QED
        BY <2>0, <3>1, <3>2, <3>3, <3>4 DEF Good
    <2> QED
      BY <2>1, <2>2
  <1> QED
    BY <1>1, <1>2

\* What a cut-off write leaves of a good text is good.
LEMMA CutOffGood ==
  ASSUME NEW reg, NEW text \in Text, Good(text, reg), NEW cut \in CutOff(text)
  PROVE  Good(cut, reg)
  <1>1. PICK n \in 0..(Len(text) - 1) :
              \/ cut = SubSeq(text, 1, n)
              \/ cut = Append(SubSeq(text, 1, n), Broken)
              \/ /\ text[n + 1] # Broken
                 /\ cut = Append(SubSeq(text, 1, n), [text[n + 1] EXCEPT !.newline = FALSE])
    BY CutOffCases
  <1> DEFINE kept == SubSeq(text, 1, n)
  <1>2. /\ kept \in Seq(Event \cup {Broken}) /\ Len(kept) = n
        /\ \A i \in 1..n : kept[i] = text[i] /\ i \in 1..Len(text)
    BY DEF Text
  <1>3. Good(kept, reg)
    BY <1>2 DEF Good
  <1>4. \A e : /\ Len(Append(kept, e)) = n + 1
               /\ \A i \in 1..n : Append(kept, e)[i] = kept[i]
               /\ Append(kept, e)[n + 1] = e
    BY <1>2
  <1> HIDE DEF kept
  <1>5. CASE cut = Append(kept, Broken)
    BY <1>2, <1>3, <1>4, <1>5 DEF Good
  <1>6. CASE /\ text[n + 1] # Broken
             /\ cut = Append(kept, [text[n + 1] EXCEPT !.newline = FALSE])
    <2> DEFINE e == [text[n + 1] EXCEPT !.newline = FALSE]
    <2>1. n + 1 \in 1..Len(text) /\ text[n + 1] \in Event
      BY <1>6 DEF Text
    <2>2. Claims(text[n + 1], reg) /\ text[n + 1].id + 1 = n + 1
      BY <1>6, <2>1 DEF Good
    <2>3. e.action = text[n + 1].action /\ e.root = text[n + 1].root /\ e.id = text[n + 1].id
      BY <2>1 DEF Event
    <2>4. Claims(e, reg) /\ e.id + 1 = n + 1
      BY <2>2, <2>3 DEF Claims
    <2>5. cut = Append(kept, e)
      BY <1>6
    <2> HIDE DEF e
    <2> QED
      BY <1>2, <1>3, <1>4, <2>4, <2>5 DEF Good
  <1> QED
    BY <1>1, <1>3, <1>5, <1>6 DEF kept

-----------------------------------------------------------------------------
(* Type correctness.                                                       *)

LEMMA Labels ==
  /\ {"idle", "begun", "manifest", "registry", "report", "index", "indexFill",
       "count", "load", "truncate", "write"} = Steps
  /\ {"create", "attach", "detach", "build", "verify"} = Kinds
  BY DEF Steps, Kinds

LEMMA ManifestType ==
  /\ \A n \in Nat, b \in BOOLEAN, c \in BOOLEAN :
        [count |-> n, indexed |-> b, reported |-> c] \in Manifest
  /\ \A man \in Manifest :
        /\ man.count \in Nat
        /\ \A n \in Nat : [man EXCEPT !.count = n] \in Manifest
        /\ \A n \in Nat : [man EXCEPT !.count = n].count = n
        /\ [man EXCEPT !.indexed = TRUE] \in Manifest
        /\ [man EXCEPT !.indexed = TRUE].count = man.count
        /\ [man EXCEPT !.reported = TRUE] \in Manifest
        /\ [man EXCEPT !.reported = TRUE].count = man.count
  BY DEF Manifest

LEMMA RestType == Rest \in Op /\ Rest.pc = "idle" /\ Rest.kind = "create"
  <1>1. [count |-> 0, indexed |-> FALSE, reported |-> FALSE] \in Manifest
    BY ManifestType
  <1>2. [r \in Roots |-> "absent"] \in Registry
    BY DEF Registry
  <1>3. <<>> \in Text
    BY DEF Text
  <1> QED
    BY <1>1, <1>2, <1>3, Labels DEF Rest, Op, Verdict, IndexFiles

\* A root is a root, and the registered ones are finitely many.
LEMMA RegisteredFinite ==
  ASSUME NEW reg
  PROVE  IsFiniteSet(Registered(reg)) /\ Cardinality(Registered(reg)) \in Nat
  <1>1. Registered(reg) \subseteq Roots
    BY DEF Registered
  <1>2. IsFiniteSet(Registered(reg))
    BY <1>1, FS_Subset, CaseAssumption
  <1> QED
    BY <1>2, FS_CardinalityType

\* The fields of the operation record.
LEMMA OpFields ==
  \A rec \in Op :
    /\ rec.pc \in Steps /\ rec.kind \in Kinds /\ rec.root \in Roots \cup {NoRoot}
    /\ rec.man \in Manifest /\ rec.reg \in Registry /\ rec.verdict \in Verdict
    /\ rec.file \in IndexFiles /\ rec.roots \in SUBSET Roots
    /\ rec.id \in Nat /\ rec.text \in Text
  BY DEF Op

\* Moving on to another step changes nothing else.
LEMMA GotoFields ==
  \A rec \in Op : \A step \in Steps :
    LET moved == [rec EXCEPT !.pc = step] IN
      /\ moved \in Op
      /\ moved.pc = step /\ moved.kind = rec.kind /\ moved.root = rec.root
      /\ moved.man = rec.man /\ moved.reg = rec.reg /\ moved.text = rec.text
      /\ moved.id = rec.id
  BY DEF Op

\* One process changes its record.
LEMMA OpUpdate ==
  ASSUME op \in [Procs -> Op], NEW p \in Procs, NEW rec \in Op,
         op' = [op EXCEPT ![p] = rec]
  PROVE  op' \in [Procs -> Op] /\ op'[p] = rec /\ \A q \in Procs \ {p} : op'[q] = op[q]
  OBVIOUS

LEMMA GotoStep ==
  ASSUME op \in [Procs -> Op], NEW p \in Procs, NEW step \in Steps, Goto(p, step)
  PROVE  /\ op' \in [Procs -> Op]
         /\ op'[p] = [op[p] EXCEPT !.pc = step]
         /\ \A q \in Procs \ {p} : op'[q] = op[q]
  <1>1. [op[p] EXCEPT !.pc = step] \in Op
    BY GotoFields
  <1> QED
    BY <1>1, OpUpdate DEF Goto

LEMMA ReturnStep ==
  ASSUME op \in [Procs -> Op], NEW p \in Procs, Return(p)
  PROVE  op' \in [Procs -> Op] /\ op'[p] = Rest /\ \A q \in Procs \ {p} : op'[q] = op[q]
  BY RestType, OpUpdate DEF Return

\* An event that a process is about to write.
LEMMA EventType ==
  ASSUME op \in [Procs -> Op], NEW p \in Procs
  PROVE  NewEvent(p) \in Event
  BY OpFields DEF NewEvent, Event

\* What each action makes of the operation record.
LEMMA IndexUpdate ==
  ASSUME NEW rec \in Op, NEW roots \in SUBSET Roots,
         NEW x, x = [rec EXCEPT !.pc = "index", !.file = 1, !.roots = roots]
  PROVE  x \in Op /\ x.pc = "index" /\ x.kind = rec.kind /\ x.man = rec.man
  <1>0. 1 \in IndexFiles
    BY DEF IndexFiles
  <1>1. x \in Op
    BY <1>0, Labels DEF Op
  <1>2. x.pc = "index" /\ x.kind = rec.kind /\ x.man = rec.man
    BY DEF Op
  <1> QED
    BY <1>1, <1>2

LEMMA ReportUpdate ==
  ASSUME NEW rec \in Op, NEW v \in Verdict,
         NEW x, x = [rec EXCEPT !.pc = "report", !.verdict = v]
  PROVE  x \in Op /\ x.pc = "report" /\ x.kind = rec.kind /\ x.man = rec.man
  <1>1. x \in Op
    BY Labels DEF Op
  <1>2. x.pc = "report" /\ x.kind = rec.kind /\ x.man = rec.man
    BY DEF Op
  <1> QED
    BY <1>1, <1>2

-----------------------------------------------------------------------------
(* The effect of an action on the operation of its process.                *)

\* Process p is the only one that moves, and rests when it is idle.
Moved(p) ==
    /\ op' \in [Procs -> Op]
    /\ \A q \in Procs \ {p} : op'[q] = op[q]
    /\ op'[p].pc = "idle" => op'[p] = Rest

LEMMA MovedTo ==
  ASSUME op \in [Procs -> Op], NEW p \in Procs, NEW rec \in Op,
         op' = [op EXCEPT ![p] = rec], rec.pc = "idle" => rec = Rest
  PROVE  Moved(p) /\ op'[p] = rec
  BY DEF Moved

LEMMA Returned ==
  ASSUME op \in [Procs -> Op], NEW p \in Procs, Return(p)
  PROVE  Moved(p) /\ op'[p] = Rest
  BY RestType, MovedTo DEF Return

LEMMA Gone ==
  ASSUME op \in [Procs -> Op], NEW p \in Procs, NEW step \in Steps, step # "idle",
         Goto(p, step)
  PROVE  /\ Moved(p) /\ op'[p].pc = step /\ op'[p].kind = op[p].kind
         /\ op'[p].root = op[p].root /\ op'[p].man = op[p].man
         /\ op'[p].reg = op[p].reg /\ op'[p].text = op[p].text /\ op'[p].id = op[p].id
  <1> DEFINE rec == [op[p] EXCEPT !.pc = step]
  <1>1. /\ rec \in Op /\ rec.pc = step /\ rec.kind = op[p].kind /\ rec.root = op[p].root
        /\ rec.man = op[p].man /\ rec.reg = op[p].reg /\ rec.text = op[p].text
        /\ rec.id = op[p].id
    BY GotoFields
  <1>2. op' = [op EXCEPT ![p] = rec]
    BY DEF Goto
  <1> HIDE DEF rec
  <1> QED
    BY <1>1, <1>2, MovedTo

LEMMA CreateEffect ==
  ASSUME TypeOK, NEW p \in Procs, create_case(p)
  PROVE  /\ Moved(p) /\ op'[p].pc = "manifest" /\ op'[p].kind = "create"
         /\ op'[p].man.count = Cardinality(Registered(op'[p].reg))
         /\ UNCHANGED <<manifest, registry, report, events, index>> /\ ops' = ops + 1
  <1>1. PICK S \in SUBSET Roots :
          op' = [op EXCEPT ![p] =
                   [@ EXCEPT !.pc = "manifest", !.kind = "create",
                             !.man = [count |-> Cardinality(S), indexed |-> FALSE,
                                      reported |-> FALSE],
                             !.reg = [r \in Roots |-> IF r \in S THEN "active" ELSE "absent"]]]
    BY DEF create_case
  <1> DEFINE man == [count |-> Cardinality(S), indexed |-> FALSE, reported |-> FALSE]
             reg == [r \in Roots |-> IF r \in S THEN "active" ELSE "absent"]
             old == op[p]
             rec == [old EXCEPT !.pc = "manifest", !.kind = "create",
                                !.man = man, !.reg = reg]
  <1>2. reg \in Registry
    BY DEF Registry
  <1>3. Registered(reg) = S
    BY DEF Registered
  <1>4. man \in Manifest /\ man.count = Cardinality(Registered(reg))
    BY <1>3, RegisteredFinite, ManifestType
  <1>5. old \in Op /\ op \in [Procs -> Op]
    BY DEF TypeOK
  <1>6. op' = [op EXCEPT ![p] = rec]
    BY <1>1
  <1> HIDE DEF man, reg, old
  <1>7. rec \in Op
    BY <1>2, <1>4, <1>5, Labels DEF Op
  <1>8. rec.pc = "manifest" /\ rec.kind = "create" /\ rec.man = man /\ rec.reg = reg
    BY <1>5 DEF Op
  <1> HIDE DEF rec
  <1>9. Moved(p) /\ op'[p] = rec
    BY <1>5, <1>6, <1>7, <1>8, MovedTo
  <1>10. /\ UNCHANGED <<manifest, registry, report, events, index>> /\ ops' = ops + 1
    BY DEF create_case, Start
  <1> QED
    BY <1>4, <1>8, <1>9, <1>10

LEMMA BeginEffect ==
  ASSUME TypeOK, NEW p \in Procs, Begin(p)
  PROVE  /\ Moved(p) /\ op'[p].pc = "begun" /\ op'[p].kind \in {"attach", "detach", "build", "verify"}
         /\ op'[p].root \in Roots /\ op'[p].man = manifest /\ manifest # NoFile
         /\ Idle(p)
         /\ UNCHANGED <<manifest, registry, report, events, index>> /\ ops' = ops + 1
  <1>1. PICK kind \in {"attach", "detach", "build", "verify"}, root \in Roots :
          op' = [op EXCEPT ![p] = [@ EXCEPT !.pc = "begun", !.kind = kind,
                                            !.root = root, !.man = manifest]]
    BY DEF Begin
  <1> DEFINE old == op[p]
             rec == [old EXCEPT !.pc = "begun", !.kind = kind,
                                !.root = root, !.man = manifest]
  <1>2. /\ manifest # NoFile /\ Idle(p)
        /\ UNCHANGED <<manifest, registry, report, events, index>> /\ ops' = ops + 1
    BY DEF Begin, Start
  <1>3. manifest \in Manifest /\ old \in Op /\ op \in [Procs -> Op]
    BY <1>2 DEF TypeOK
  <1>4. kind \in Kinds
    BY DEF Kinds
  <1>5. op' = [op EXCEPT ![p] = rec]
    BY <1>1
  <1> HIDE DEF old
  <1>6. rec \in Op
    BY <1>3, <1>4, Labels DEF Op
  <1>7. rec.pc = "begun" /\ rec.kind = kind /\ rec.root = root /\ rec.man = manifest
    BY <1>3 DEF Op
  <1> HIDE DEF rec
  <1>8. Moved(p) /\ op'[p] = rec
    BY <1>3, <1>5, <1>6, <1>7, MovedTo
  <1> QED
    BY <1>2, <1>7, <1>8

LEMMA AttachEffect ==
  ASSUME TypeOK, NEW p \in Procs, attach_root(p)
  PROVE  /\ Moved(p) /\ op[p].pc = "begun" /\ op[p].kind = "attach"
         /\ op'[p].pc = "manifest" /\ op'[p].kind = "attach" /\ op'[p].root = op[p].root
         /\ registry \in Registry /\ registry[op[p].root] = "absent"
         /\ op'[p].reg = [registry EXCEPT ![op[p].root] = "active"]
         /\ op'[p].man.count = Cardinality(Registered(registry)) + 1
         /\ UNCHANGED <<manifest, registry, report, events, index, ops>>
  <1> DEFINE reg == [registry EXCEPT ![op[p].root] = "active"]
             man == [op[p].man EXCEPT !.count = Cardinality(Registered(registry)) + 1]
             old == op[p]
             rec == [old EXCEPT !.pc = "manifest", !.reg = reg, !.man = man]
  <1>1. /\ op[p].pc = "begun" /\ op[p].kind = "attach" /\ registry # NoFile
        /\ registry[op[p].root] = "absent" /\ op' = [op EXCEPT ![p] = rec]
        /\ UNCHANGED <<manifest, registry, report, events, index, ops>>
    BY DEF attach_root, Loaded
  <1>2. registry \in Registry /\ old \in Op /\ op \in [Procs -> Op]
    BY <1>1 DEF TypeOK
  <1>3. reg \in Registry
    BY <1>2 DEF Registry
  <1>4. op[p].man \in Manifest /\ Cardinality(Registered(registry)) + 1 \in Nat
    BY <1>2, RegisteredFinite, OpFields
  <1>5. man \in Manifest /\ man.count = Cardinality(Registered(registry)) + 1
    BY <1>4, ManifestType
  <1> HIDE DEF man, reg, old
  <1>6. rec \in Op
    BY <1>2, <1>3, <1>5, Labels DEF Op
  <1>7. /\ rec.pc = "manifest" /\ rec.kind = old.kind
        /\ rec.root = old.root /\ rec.man = man /\ rec.reg = reg
    BY <1>2 DEF Op
  <1> HIDE DEF rec
  <1>8. Moved(p) /\ op'[p] = rec
    BY <1>1, <1>2, <1>6, <1>7, MovedTo
  <1> QED
    BY <1>1, <1>2, <1>5, <1>7, <1>8 DEF old, reg

LEMMA DetachEffect ==
  ASSUME TypeOK, NEW p \in Procs, detach_root(p)
  PROVE  /\ Moved(p) /\ op[p].pc = "begun" /\ op[p].kind = "detach"
         /\ op'[p].pc = "registry" /\ op'[p].kind = "detach" /\ op'[p].root = op[p].root
         /\ registry \in Registry /\ registry[op[p].root] # "absent"
         /\ op'[p].reg = [registry EXCEPT ![op[p].root] = "detached"]
         /\ UNCHANGED <<manifest, registry, report, events, index, ops>>
  <1> DEFINE reg == [registry EXCEPT ![op[p].root] = "detached"]
             old == op[p]
             rec == [old EXCEPT !.pc = "registry", !.reg = reg]
  <1>1. /\ op[p].pc = "begun" /\ op[p].kind = "detach" /\ registry # NoFile
        /\ registry[op[p].root] # "absent" /\ op' = [op EXCEPT ![p] = rec]
        /\ UNCHANGED <<manifest, registry, report, events, index, ops>>
    BY DEF detach_root, Loaded
  <1>2. registry \in Registry /\ old \in Op /\ op \in [Procs -> Op]
    BY <1>1 DEF TypeOK
  <1>3. reg \in Registry
    BY <1>2 DEF Registry
  <1> HIDE DEF reg, old
  <1>4. rec \in Op
    BY <1>2, <1>3, Labels DEF Op
  <1>5. rec.pc = "registry" /\ rec.kind = old.kind /\ rec.root = old.root /\ rec.reg = reg
    BY <1>2 DEF Op
  <1> HIDE DEF rec
  <1>6. Moved(p) /\ op'[p] = rec
    BY <1>1, <1>2, <1>4, <1>5, MovedTo
  <1> QED
    BY <1>1, <1>2, <1>5, <1>6 DEF reg, old

LEMMA BuildEffect ==
  ASSUME TypeOK, NEW p \in Procs, build_case_global_indexes(p)
  PROVE  /\ Moved(p) /\ op[p].pc = "begun" /\ op'[p].pc = "index" /\ op'[p].kind = "build"
         /\ op'[p].man = op[p].man /\ registry # NoFile
         /\ UNCHANGED <<manifest, registry, report, events, index, ops>>
  <1>1. PICK S \in SUBSET Active(registry) :
          op' = [op EXCEPT ![p] = [@ EXCEPT !.pc = "index", !.file = 1, !.roots = S]]
    BY DEF build_case_global_indexes
  <1> DEFINE rec == [op[p] EXCEPT !.pc = "index", !.file = 1, !.roots = S]
  <1>2. /\ op[p].pc = "begun" /\ op[p].kind = "build" /\ registry # NoFile
        /\ UNCHANGED <<manifest, registry, report, events, index, ops>>
    BY DEF build_case_global_indexes, Loaded
  <1>3. S \in SUBSET Roots /\ op[p] \in Op /\ op \in [Procs -> Op]
    BY DEF Active, TypeOK
  <1>4. rec \in Op /\ rec.pc = "index" /\ rec.kind = op[p].kind /\ rec.man = op[p].man
    BY <1>3, IndexUpdate
  <1>5. op' = [op EXCEPT ![p] = rec]
    BY <1>1
  <1> HIDE DEF rec
  <1>6. Moved(p) /\ op'[p] = rec
    BY <1>3, <1>4, <1>5, MovedTo
  <1> QED
    BY <1>2, <1>4, <1>6

LEMMA VerifyEffect ==
  ASSUME TypeOK, NEW p \in Procs, verify_case(p)
  PROVE  /\ Moved(p) /\ op[p].pc = "begun" /\ op'[p].pc = "report" /\ op'[p].kind = "verify"
         /\ op'[p].man = op[p].man /\ registry # NoFile
         /\ UNCHANGED <<manifest, registry, report, events, index, ops>>
  <1>1. PICK v \in Verdict : op' = [op EXCEPT ![p] = [@ EXCEPT !.pc = "report", !.verdict = v]]
    BY DEF verify_case
  <1> DEFINE old == op[p]
             rec == [old EXCEPT !.pc = "report", !.verdict = v]
  <1>2. /\ op[p].pc = "begun" /\ op[p].kind = "verify" /\ registry # NoFile
        /\ UNCHANGED <<manifest, registry, report, events, index, ops>>
    BY DEF verify_case, Loaded
  <1>3. old \in Op /\ op \in [Procs -> Op]
    BY DEF TypeOK
  <1>5. op' = [op EXCEPT ![p] = rec]
    BY <1>1
  <1> HIDE DEF old
  <1>4. rec \in Op /\ rec.pc = "report" /\ rec.kind = old.kind /\ rec.man = old.man
    BY <1>3, ReportUpdate
  <1> HIDE DEF rec
  <1>6. Moved(p) /\ op'[p] = rec
    BY <1>3, <1>4, <1>5, MovedTo
  <1> QED
    BY <1>2, <1>4, <1>6 DEF old

LEMMA ReportEffect ==
  ASSUME TypeOK, NEW p \in Procs, WriteReport(p)
  PROVE  /\ Moved(p) /\ op[p].pc = "report" /\ op'[p].pc \in {"count", "manifest"}
         /\ op'[p].kind = op[p].kind /\ op'[p].root = op[p].root
         /\ op'[p].man.count = op[p].man.count
         /\ report' \in Verdict /\ UNCHANGED <<manifest, registry, events, index, ops>>
  <1> DEFINE old == op[p]
             man == [op[p].man EXCEPT !.reported = TRUE]
             pc == IF op[p].man.reported THEN "count" ELSE "manifest"
             rec == [old EXCEPT !.pc = pc, !.man = man]
  <1>1. /\ op[p].pc = "report" /\ report' = op[p].verdict /\ op' = [op EXCEPT ![p] = rec]
        /\ UNCHANGED <<manifest, registry, events, index, ops>>
    BY DEF WriteReport
  <1>2. old \in Op /\ op \in [Procs -> Op] /\ op[p].verdict \in Verdict
    BY OpFields DEF TypeOK
  <1>3. man \in Manifest /\ man.count = op[p].man.count
    BY <1>2, OpFields, ManifestType
  <1>4. pc \in Steps /\ pc \in {"count", "manifest"}
    BY DEF Steps
  <1> HIDE DEF man, pc, old
  <1>5. rec \in Op
    BY <1>2, <1>3, <1>4, Labels DEF Op
  <1>6. rec.pc = pc /\ rec.kind = old.kind /\ rec.root = old.root /\ rec.man = man
    BY <1>2 DEF Op
  <1> HIDE DEF rec
  <1>7. Moved(p) /\ op'[p] = rec
    BY <1>1, <1>2, <1>4, <1>5, <1>6, MovedTo
  <1> QED
    BY <1>1, <1>2, <1>3, <1>4, <1>6, <1>7 DEF old

LEMMA WriteIndexEffect ==
  ASSUME TypeOK, NEW p \in Procs, WriteIndex(p)
  PROVE  /\ Moved(p) /\ op[p].pc \in {"index", "indexFill"}
         /\ op'[p].pc \in {"index", "manifest"} /\ op'[p].kind = op[p].kind
         /\ op'[p].man.count = op[p].man.count
         /\ index' = [index EXCEPT ![op[p].file] = op[p].roots]
         /\ UNCHANGED <<manifest, registry, report, events, ops>>
  <1> DEFINE old == op[p]
  <1>1. /\ op[p].pc \in {"index", "indexFill"} /\ NextIndex(p)
        /\ index' = [index EXCEPT ![op[p].file] = op[p].roots]
        /\ UNCHANGED <<manifest, registry, report, events, ops>>
    BY DEF WriteIndex
  <1>2. old \in Op /\ op \in [Procs -> Op] /\ op[p].man \in Manifest
    BY OpFields DEF TypeOK
  <1>3. CASE op[p].file < 5
    <2> DEFINE file == op[p].file + 1
               rec == [old EXCEPT !.pc = "index", !.file = file]
    <2>1. file \in IndexFiles
      BY <1>2, <1>3, OpFields DEF IndexFiles
    <2>2. op' = [op EXCEPT ![p] = rec]
      BY <1>1, <1>3 DEF NextIndex
    <2> HIDE DEF old, file
    <2>3. rec \in Op
      BY <1>2, <2>1, Labels DEF Op
    <2>4. rec.pc = "index" /\ rec.kind = old.kind /\ rec.man = old.man
      BY <1>2 DEF Op
    <2> HIDE DEF rec
    <2>5. Moved(p) /\ op'[p] = rec
      BY <1>2, <2>2, <2>3, <2>4, MovedTo
    <2> QED
      BY <1>1, <2>4, <2>5 DEF old
  <1>4. CASE ~(op[p].file < 5)
    <2> DEFINE man == [op[p].man EXCEPT !.indexed = TRUE]
               rec == [old EXCEPT !.pc = "manifest", !.man = man]
    <2>1. man \in Manifest /\ man.count = op[p].man.count
      BY <1>2, ManifestType
    <2>2. op' = [op EXCEPT ![p] = rec]
      BY <1>1, <1>4 DEF NextIndex
    <2>3. "manifest" \in Steps
      BY Labels
    <2> HIDE DEF man, old
    <2>4. rec \in Op
      BY <1>2, <2>1, <2>3 DEF Op
    <2>5. rec.pc = "manifest" /\ rec.kind = old.kind /\ rec.man = man
      BY <1>2 DEF Op
    <2> HIDE DEF rec
    <2>6. Moved(p) /\ op'[p] = rec
      BY <1>2, <2>2, <2>4, <2>5, MovedTo
    <2> QED
      BY <1>1, <2>1, <2>5, <2>6 DEF old
  <1> QED
    BY <1>3, <1>4

LEMMA CountEffect ==
  ASSUME TypeOK, NEW p \in Procs, CountEvents(p)
  PROVE  /\ Moved(p) /\ op[p].pc = "count" /\ op'[p].pc = "load"
         /\ op'[p].kind = op[p].kind /\ op'[p].root = op[p].root
         /\ op'[p].id = Len(Lines(events))
         /\ \A i \in 1..Len(Lines(events)) : Lines(events)[i] # Broken
         /\ UNCHANGED <<manifest, registry, report, events, index, ops>>
  <1> DEFINE old == op[p]
             n == Len(Lines(events))
             rec == [old EXCEPT !.pc = "load", !.id = n]
  <1>1. /\ op[p].pc = "count" /\ op' = [op EXCEPT ![p] = rec]
        /\ \A i \in 1..Len(Lines(events)) : Lines(events)[i] # Broken
        /\ UNCHANGED <<manifest, registry, report, events, index, ops>>
    BY DEF CountEvents, EventLines, Lines
  <1>2. old \in Op /\ op \in [Procs -> Op]
    BY DEF TypeOK
  <1>3. n \in Nat
    BY LinesType DEF TypeOK, Text
  <1> HIDE DEF old, n
  <1>4. rec \in Op
    BY <1>2, <1>3, Labels DEF Op
  <1>5. rec.pc = "load" /\ rec.kind = old.kind /\ rec.root = old.root /\ rec.id = n
    BY <1>2 DEF Op
  <1> HIDE DEF rec
  <1>6. Moved(p) /\ op'[p] = rec
    BY <1>1, <1>2, <1>4, <1>5, MovedTo
  <1> QED
    BY <1>1, <1>5, <1>6 DEF old, n

LEMMA LoadEffect ==
  ASSUME TypeOK, NEW p \in Procs, LoadLog(p)
  PROVE  /\ Moved(p) /\ op[p].pc = "load" /\ op'[p].pc = "truncate"
         /\ op'[p].kind = op[p].kind /\ op'[p].root = op[p].root
         /\ op'[p].text \in Extend(Lines(events), NewEvent(p))
         /\ UNCHANGED <<manifest, registry, report, events, index, ops>>
  <1>1. PICK text \in Extend(Lines(events), NewEvent(p)) :
          op' = [op EXCEPT ![p] = [@ EXCEPT !.pc = "truncate", !.text = text]]
    BY DEF LoadLog, EventLines, Lines
  <1> DEFINE old == op[p]
             rec == [old EXCEPT !.pc = "truncate", !.text = text]
  <1>2. /\ op[p].pc = "load" /\ op' = [op EXCEPT ![p] = rec]
        /\ UNCHANGED <<manifest, registry, report, events, index, ops>>
    BY <1>1 DEF LoadLog
  <1>3. old \in Op /\ op \in [Procs -> Op]
    BY DEF TypeOK
  <1>4. text \in Text
    BY <1>3, LinesType, EventType, ExtendType DEF TypeOK
  <1> HIDE DEF old
  <1>5. rec \in Op
    BY <1>3, <1>4, Labels DEF Op
  <1>6. rec.pc = "truncate" /\ rec.kind = old.kind /\ rec.root = old.root /\ rec.text = text
    BY <1>3 DEF Op
  <1> HIDE DEF rec
  <1>7. Moved(p) /\ op'[p] = rec
    BY <1>2, <1>3, <1>5, <1>6, MovedTo
  <1> QED
    BY <1>2, <1>6, <1>7 DEF old

\* The remaining actions move on or end the operation.
LEMMA StepEffect ==
  ASSUME TypeOK, NEW p \in Procs, NEW step \in Steps, step # "idle", Goto(p, step) \/ Return(p)
  PROVE  Moved(p)
  BY Gone, Returned DEF TypeOK

-----------------------------------------------------------------------------
(* Type correctness.                                                       *)

LEMMA WatchedType ==
  ASSUME TypeOK, NEW p \in Procs, Watched(p)
  PROVE  clashes' \in Nat /\ met' \subseteq Procs /\ touched' \in [Procs -> SUBSET Roots]
  <1> DEFINE others == {q \in Procs \ {p} : ~Idle(q)}
             changed == IF registry' = registry THEN {}
                        ELSE {r \in Roots : registry = NoFile \/ registry'[r] # registry[r]}
  <1>1. clashes' \in {clashes, clashes + 1} /\ clashes \in Nat
    BY DEF Watched, TypeOK
  <1>2. met' \in {met \ {p}, met \cup others \cup {p}, met} /\ met \subseteq Procs
    BY DEF Watched, TypeOK
  <1>3. touched' = [q \in Procs |-> IF HoldsCopy(q)' THEN touched[q] \cup changed ELSE {}]
    BY DEF Watched
  <1>4. changed \subseteq Roots /\ \A q \in Procs : touched[q] \subseteq Roots
    BY DEF TypeOK
  <1> HIDE DEF changed
  <1>5. touched' \in [Procs -> SUBSET Roots]
    BY <1>3, <1>4
  <1> QED
    BY <1>1, <1>2, <1>5

LEMMA TypedStep ==
  ASSUME TypeOK, Resting, NEW p \in Procs, Moved(p),
         manifest' \in Manifest \cup {NoFile}, registry' \in Registry \cup {NoFile},
         report' \in Verdict \cup {NoFile}, events' \in Text \cup {NoFile},
         index' \in [IndexFiles -> {NoFile, Torn} \cup SUBSET Roots], ops' \in Nat,
         Watched(p)
  PROVE  TypeOK' /\ Resting'
  <1>a. clashes' \in Nat /\ met' \subseteq Procs /\ touched' \in [Procs -> SUBSET Roots]
    BY WatchedType
  <1>1. TypeOK'
    BY <1>a DEF TypeOK, Moved
  <1>2. ASSUME NEW q \in Procs, Idle(q)' PROVE op'[q] = Rest
    BY <1>2 DEF Moved, Resting, Idle
  <1> QED
    BY <1>1, <1>2 DEF Resting

LEMMA TypeStep ==
  ASSUME TypeOK, Resting, [Next]_vars
  PROVE  TypeOK' /\ Resting'
  <1> DEFINE NoWrite == UNCHANGED <<manifest, registry, report, events, index>>
  <1>0. /\ manifest \in Manifest \cup {NoFile} /\ registry \in Registry \cup {NoFile}
        /\ report \in Verdict \cup {NoFile} /\ events \in Text \cup {NoFile}
        /\ index \in [IndexFiles -> {NoFile, Torn} \cup SUBSET Roots] /\ ops \in Nat
        /\ op \in [Procs -> Op]
    BY DEF TypeOK
  <1>a. \A n \in Nat : n + 1 \in Nat
    OBVIOUS
  <1>b. \A p \in Procs, step \in Steps : step # "idle" /\ (Goto(p, step) \/ Return(p)) => Moved(p)
    BY StepEffect
  <1>c. {"registry", "count", "indexFill", "write"} \subseteq Steps
    BY Labels
  <1>d. \A p \in Procs : /\ op[p].man \in Manifest /\ op[p].reg \in Registry
                         /\ op[p].file \in IndexFiles /\ op[p].roots \in SUBSET Roots
                         /\ op[p].text \in Text
    BY <1>0, OpFields
  <1>e. <<>> \in Text /\ \A t \in Text : Append(t, Broken) \in Text
    BY DEF Text
  <1>1. CASE UNCHANGED vars
    BY <1>1 DEF vars, history, TypeOK, Resting, Idle
  <1>2. ASSUME NEW p \in Procs, Step(p), Watched(p) PROVE TypeOK' /\ Resting'
    <2>0. (Moved(p) /\ NoWrite /\ ops' \in Nat) => TypeOK' /\ Resting'
      BY <1>0, <1>2, TypedStep
    <2>1. CASE create_case(p)
      BY <1>0, <1>a, <2>0, <2>1, CreateEffect
    <2>2. CASE Begin(p)
      BY <1>0, <1>a, <2>0, <2>2, BeginEffect
    <2>3. CASE attach_root(p)
      BY <1>0, <2>0, <2>3, AttachEffect
    <2>4. CASE detach_root(p)
      BY <1>0, <2>0, <2>4, DetachEffect
    <2>5. CASE build_case_global_indexes(p)
      BY <1>0, <2>0, <2>5, BuildEffect
    <2>6. CASE verify_case(p)
      BY <1>0, <2>0, <2>6, VerifyEffect
    <2>7. CASE WriteManifest(p)
      <3>1. /\ manifest' \in Manifest /\ UNCHANGED <<registry, report, events, index, ops>>
            /\ \E step \in {"registry", "count"} : Goto(p, step) \/ Return(p)
        BY <1>d, <2>7 DEF WriteManifest
      <3> QED
        BY <1>0, <1>2, <1>b, <1>c, <3>1, TypedStep
    <2>8. CASE WriteRegistry(p)
      <3>1. /\ registry' \in Registry /\ UNCHANGED <<manifest, report, events, index, ops>>
            /\ Goto(p, "count") \/ Return(p)
        BY <1>d, <2>8 DEF WriteRegistry
      <3> QED
        BY <1>0, <1>2, <1>b, <1>c, <3>1, TypedStep
    <2>9. CASE WriteReport(p)
      BY <1>0, <1>2, <2>9, ReportEffect, TypedStep
    <2>10. CASE CreateIndex(p)
      <3>1. /\ index' \in [IndexFiles -> {NoFile, Torn} \cup SUBSET Roots]
            /\ UNCHANGED <<manifest, registry, report, events, ops>> /\ Goto(p, "indexFill")
        BY <1>0, <1>d, <2>10 DEF CreateIndex
      <3> QED
        BY <1>0, <1>2, <1>b, <1>c, <3>1, TypedStep
    <2>11. CASE WriteIndex(p)
      <3>1. /\ Moved(p) /\ index' = [index EXCEPT ![op[p].file] = op[p].roots]
            /\ UNCHANGED <<manifest, registry, report, events, ops>>
        BY <2>11, WriteIndexEffect
      <3>2. index' \in [IndexFiles -> {NoFile, Torn} \cup SUBSET Roots]
        BY <1>0, <1>d, <3>1
      <3> QED
        BY <1>0, <1>2, <3>1, <3>2, TypedStep
    <2>12. CASE CountEvents(p)
      BY <1>0, <2>0, <2>12, CountEffect
    <2>13. CASE LoadLog(p)
      BY <1>0, <2>0, <2>13, LoadEffect
    <2>14. CASE TruncateLog(p)
      <3>1. /\ events' \in Text /\ UNCHANGED <<manifest, registry, report, index, ops>>
            /\ Goto(p, "write")
        BY <1>e, <2>14 DEF TruncateLog
      <3> QED
        BY <1>0, <1>2, <1>b, <1>c, <3>1, TypedStep
    <2>15. CASE WriteLog(p)
      <3>1. /\ events' \in Text /\ UNCHANGED <<manifest, registry, report, index, ops>>
            /\ Return(p)
        <4>1. PICK tail \in Tails(EventLines) : events' = op[p].text \o tail
          BY <2>15 DEF WriteLog
        <4>2. EventLines \in Text
          BY <1>0, LinesType DEF EventLines, Lines
        <4>3. tail \in Text
          BY <4>2, TailsType
        <4>4. events' \in Text
          BY <1>d, <4>1, <4>3 DEF Text
        <4> QED
          BY <2>15, <4>4 DEF WriteLog
      <3> QED
        BY <1>0, <1>2, <1>b, <1>c, <3>1, TypedStep
    <2>16. CASE WriteLogPartly(p)
      <3>1. /\ events' \in Text /\ UNCHANGED <<manifest, registry, report, index, ops>>
            /\ Return(p)
        <4>1. EventLines \in Text
          BY <1>0, LinesType DEF EventLines, Lines
        <4>2. CASE events' \in CutOff(op[p].text)
          BY <1>d, <2>16, <4>2, CutOffCases DEF WriteLogPartly
        <4>3. CASE events' \notin CutOff(op[p].text)
          <5>1. PICK n \in 0..(Len(op[p].text) - 1), tail \in Tails(EventLines) :
                    events' = SubSeq(op[p].text, 1, n) \o tail
            BY <2>16, <4>3 DEF WriteLogPartly
          <5>2. tail \in Text
            BY <4>1, TailsType
          <5>3. events' \in Text
            BY <1>d, <5>1, <5>2, PartlyType
          <5> QED
            BY <2>16, <5>3 DEF WriteLogPartly
        <4> QED
          BY <4>2, <4>3
      <3> QED
        BY <1>0, <1>2, <1>b, <1>c, <3>1, TypedStep
    <2>17. CASE Refuse(p)
      <3>1. NoWrite /\ ops' = ops /\ Return(p)
        BY <2>17 DEF Refuse
      <3> QED
        BY <1>0, <1>b, <1>c, <2>0, <3>1
    <2>18. CASE Stop(p)
      <3>1. NoWrite /\ ops' = ops /\ Return(p)
        BY <2>18 DEF Stop
      <3> QED
        BY <1>0, <1>b, <1>c, <2>0, <3>1
    <2> QED
      BY <1>2, <2>1, <2>2, <2>3, <2>4, <2>5, <2>6, <2>7, <2>8, <2>9, <2>10, <2>11,
         <2>12, <2>13, <2>14, <2>15, <2>16, <2>17, <2>18 DEF Step
  <1> QED
    BY <1>1, <1>2 DEF Next

LEMMA InitTyped ==
  ASSUME Init
  PROVE  TypeOK /\ Resting
  BY RestType DEF Init, TypeOK, Resting

\* Every state of the case directory and of its processes has its type.
THEOREM TypeCorrect == Spec => []TypeOK
  <1>1. Init => TypeOK /\ Resting
    BY InitTyped
  <1>2. TypeOK /\ Resting /\ [Next]_vars => (TypeOK /\ Resting)'
    BY TypeStep
  <1> QED
    BY <1>1, <1>2, PTL DEF Spec

-----------------------------------------------------------------------------
(* Registries and logs.                                                    *)

\* Attaching a root adds one to the registered roots.
LEMMA AttachCount ==
  ASSUME NEW reg \in Registry, NEW r \in Roots, reg[r] = "absent"
  PROVE  Cardinality(Registered([reg EXCEPT ![r] = "active"])) = Cardinality(Registered(reg)) + 1
  <1>1. Registered([reg EXCEPT ![r] = "active"]) = Registered(reg) \cup {r}
    BY DEF Registered, Registry
  <1>2. r \notin Registered(reg)
    BY DEF Registered
  <1> QED
    BY <1>1, <1>2, RegisteredFinite, FS_AddElement

\* Detaching one leaves them.
LEMMA DetachCount ==
  ASSUME NEW reg \in Registry, NEW r \in Roots, reg[r] # "absent"
  PROVE  Registered([reg EXCEPT ![r] = "detached"]) = Registered(reg)
  BY DEF Registered, Registry

\* No event is justified before there is a registry.
LEMMA GoodBefore ==
  ASSUME NEW text, NEW reg, Good(text, NoFile)
  PROVE  Good(text, reg)
  BY DEF Good, Claims

\* What justified an event still does after a root is attached or detached.
LEMMA GoodAttached ==
  ASSUME NEW text, NEW reg \in Registry, NEW r \in Roots, reg[r] = "absent", Good(text, reg)
  PROVE  Good(text, [reg EXCEPT ![r] = "active"])
  <1> DEFINE reg2 == [reg EXCEPT ![r] = "active"]
  <1>1. reg2 # NoFile /\ \A x \in Roots \ {r} : reg2[x] = reg[x]
    BY CaseAssumption DEF Registry
  <1>2. reg2[r] = "active"
    BY DEF Registry
  <1> HIDE DEF reg2
  <1>3. \A e : Claims(e, reg) => Claims(e, reg2)
    BY <1>1, <1>2 DEF Claims
  <1> QED
    BY <1>3 DEF Good, reg2

LEMMA GoodDetached ==
  ASSUME NEW text, NEW reg \in Registry, NEW r \in Roots, reg[r] # "absent", Good(text, reg)
  PROVE  Good(text, [reg EXCEPT ![r] = "detached"])
  <1> DEFINE reg2 == [reg EXCEPT ![r] = "detached"]
  <1>1. reg2 # NoFile /\ \A x \in Roots \ {r} : reg2[x] = reg[x]
    BY CaseAssumption DEF Registry
  <1>2. reg2[r] = "detached"
    BY DEF Registry
  <1> HIDE DEF reg2
  <1>3. \A e : Claims(e, reg) => Claims(e, reg2)
    BY <1>1, <1>2 DEF Claims
  <1> QED
    BY <1>3 DEF Good, reg2

-----------------------------------------------------------------------------
(* Operations that do not overlap.                                         *)

\* A process at rest has read nothing that could be stale.
LEMMA RestFresh ==
  ASSUME NEW q \in Procs, op'[q] = Rest
  PROVE  Fresh(q)'
  <1>1. op'[q].pc = "idle" /\ op'[q].kind = "create"
    BY RestType
  <1> QED
    BY <1>1 DEF Fresh, LogSteps

\* Only the process that moves has to be looked at.
LEMMA Frame ==
  ASSUME Alone, Resting, NEW p \in Procs, Moved(p),
         ~Idle(p) \/ \A q \in Procs : Idle(q), Fresh(p)'
  PROVE  Alone' /\ \A q \in Procs : Fresh(q)'
  <1>1. \A q \in Procs \ {p} : Idle(q)
    BY DEF Alone
  <1>2. \A q \in Procs \ {p} : op'[q] = Rest
    BY <1>1 DEF Resting, Moved
  <1>3. \A q \in Procs \ {p} : Fresh(q)' /\ Idle(q)'
    BY <1>2, RestFresh, RestType DEF Idle
  <1> QED
    BY <1>3 DEF Alone, Idle

\* An operation that ends leaves nothing to be fresh.
LEMMA ReturnFresh ==
  ASSUME TypeOK, NEW p \in Procs, Return(p)
  PROVE  Moved(p) /\ Fresh(p)'
  BY Returned, RestFresh DEF TypeOK

\* The part of the invariant that needs operations not to overlap, for the
\* files and for the process that moves.
Local(p) == Drift /\ Good(Lines(events), registry) /\ Fresh(p)

\* A step that writes nothing keeps what is said of the files.
LEMMA Unwritten ==
  ASSUME NEW p \in Procs, Local(p), UNCHANGED <<manifest, registry, events>>
  PROVE  Drift' /\ Good(Lines(events), registry)'
  BY DEF Local, Drift

LEMMA BeginsLocal ==
  ASSUME TypeOK, NEW p \in Procs, Local(p), create_case(p) \/ Begin(p),
         create_case(p) => registry = NoFile
  PROVE  Local(p)'
  <1>1. CASE create_case(p)
    <2>1. Fresh(p)'
      BY <1>1, CreateEffect DEF Fresh, LogSteps
    <2> QED
      BY <1>1, <2>1, CreateEffect, Unwritten DEF Local
  <1>2. CASE Begin(p)
    <2>1. Fresh(p)'
      BY <1>2, BeginEffect DEF Fresh, LogSteps
    <2> QED
      BY <1>2, <2>1, BeginEffect, Unwritten DEF Local
  <1> QED
    BY <1>1, <1>2

LEMMA DecidesLocal ==
  ASSUME TypeOK, NEW p \in Procs, Local(p),
         attach_root(p) \/ detach_root(p) \/ build_case_global_indexes(p) \/ verify_case(p)
  PROVE  Local(p)'
  <1>0. Fresh(p) /\ op[p].root \in Roots \cup {NoRoot}
    BY OpFields DEF Local, TypeOK
  <1>1. CASE attach_root(p)
    <2>1. /\ op[p].root \in Roots /\ manifest # NoFile /\ registry \in Registry
          /\ registry[op[p].root] = "absent"
      BY <1>0, <1>1, AttachEffect DEF Fresh
    <2>2. registry # NoFile
      BY <2>1, CaseAssumption
    <2>3. Fresh(p)'
      BY <1>1, <2>1, <2>2, AttachEffect, AttachCount DEF Fresh, LogSteps
    <2> QED
      BY <1>1, <2>3, AttachEffect, Unwritten DEF Local
  <1>2. CASE detach_root(p)
    <2>1. op[p].root \in Roots /\ manifest # NoFile /\ registry # NoFile
      BY <1>0, <1>2, DetachEffect, CaseAssumption DEF Fresh
    <2>2. Fresh(p)'
      BY <1>2, <2>1, DetachEffect DEF Fresh, LogSteps
    <2> QED
      BY <1>2, <2>2, DetachEffect, Unwritten DEF Local
  <1>3. CASE build_case_global_indexes(p)
    <2>1. manifest # NoFile /\ op[p].man = manifest
      BY <1>0, <1>3, BuildEffect DEF Fresh
    <2>2. Fresh(p)'
      BY <1>3, <2>1, BuildEffect DEF Fresh, LogSteps
    <2> QED
      BY <1>3, <2>2, BuildEffect, Unwritten DEF Local
  <1>4. CASE verify_case(p)
    <2>1. manifest # NoFile /\ op[p].man = manifest
      BY <1>0, <1>4, VerifyEffect DEF Fresh
    <2>2. Fresh(p)'
      BY <1>4, <2>1, VerifyEffect DEF Fresh, LogSteps
    <2> QED
      BY <1>4, <2>2, VerifyEffect, Unwritten DEF Local
  <1> QED
    BY <1>1, <1>2, <1>3, <1>4

LEMMA ManifestLocal ==
  ASSUME TypeOK, NEW p \in Procs, Local(p), WriteManifest(p)
  PROVE  Local(p)'
  <1>1. /\ op[p].pc = "manifest" /\ manifest' = op[p].man
        /\ UNCHANGED <<registry, report, events, index, ops>>
    BY DEF WriteManifest
  <1>2. op[p].man \in Manifest /\ op[p].kind \in Kinds /\ manifest' # NoFile /\ op \in [Procs -> Op]
    BY <1>1, OpFields, CaseAssumption DEF TypeOK
  <1>3. Fresh(p) /\ Drift /\ Good(Lines(events), registry)'
    BY <1>1 DEF Local
  <1>4. "registry" \in Steps /\ "count" \in Steps
    BY Labels
  <1>5. CASE op[p].kind = "create"
    <2>1. Goto(p, "registry")
      BY <1>5 DEF WriteManifest
    <2>2. /\ op'[p].pc = "registry" /\ op'[p].kind = "create"
          /\ op'[p].man = op[p].man /\ op'[p].reg = op[p].reg
      BY <1>2, <1>4, <1>5, <2>1, Gone
    <2>3. registry = NoFile /\ op[p].man.count = Cardinality(Registered(op[p].reg))
      BY <1>1, <1>3, <1>5 DEF Fresh
    <2>4. Fresh(p)' /\ Drift'
      BY <1>1, <2>2, <2>3 DEF Fresh, Drift, LogSteps
    <2> QED
      BY <1>3, <2>4 DEF Local
  <1>6. CASE op[p].kind = "attach"
    <2>1. Goto(p, "registry")
      BY <1>6 DEF WriteManifest
    <2>2. /\ op'[p].pc = "registry" /\ op'[p].kind = "attach" /\ op'[p].root = op[p].root
          /\ op'[p].man = op[p].man /\ op'[p].reg = op[p].reg
      BY <1>2, <1>4, <1>6, <2>1, Gone
    <2>3. /\ registry # NoFile /\ op[p].root \in Roots /\ registry[op[p].root] = "absent"
          /\ op[p].reg = [registry EXCEPT ![op[p].root] = "active"]
          /\ op[p].man.count = Cardinality(Registered(op[p].reg))
          /\ op[p].man.count = Cardinality(Registered(registry)) + 1
      BY <1>1, <1>3, <1>6 DEF Fresh
    <2>4. Fresh(p)'
      BY <1>1, <1>2, <2>2, <2>3 DEF Fresh, LogSteps
    <2>5. Drift'
      BY <1>1, <2>3 DEF Drift
    <2> QED
      BY <1>3, <2>4, <2>5 DEF Local
  <1>7. CASE op[p].kind = "verify"
    <2>1. Goto(p, "count")
      BY <1>7 DEF WriteManifest
    <2>2. op'[p].pc = "count" /\ op'[p].kind = "verify"
      BY <1>2, <1>4, <1>7, <2>1, Gone
    <2>3. manifest # NoFile /\ registry # NoFile /\ op[p].man.count = manifest.count
      BY <1>1, <1>3, <1>7 DEF Fresh
    <2>4. Fresh(p)'
      BY <1>1, <1>2, <2>2, <2>3 DEF Fresh, LogSteps
    <2>5. Drift'
      BY <1>1, <1>3, <2>3 DEF Drift
    <2> QED
      BY <1>3, <2>4, <2>5 DEF Local
  <1>8. CASE op[p].kind \in {"detach", "build"}
    <2>1. Return(p)
      BY <1>8 DEF WriteManifest
    <2>2. op[p].kind = "build" /\ manifest # NoFile /\ op[p].man.count = manifest.count
      BY <1>1, <1>3, <1>8 DEF Fresh, LogSteps
    <2>3. Drift'
      BY <1>1, <1>3, <2>2 DEF Drift
    <2> QED
      BY <1>3, <2>1, <2>3, ReturnFresh DEF Local
  <1> QED
    BY <1>2, <1>5, <1>6, <1>7, <1>8 DEF Kinds

LEMMA RegistryLocal ==
  ASSUME TypeOK, NEW p \in Procs, Local(p), WriteRegistry(p)
  PROVE  Local(p)'
  <1>1. /\ op[p].pc = "registry" /\ registry' = op[p].reg
        /\ UNCHANGED <<manifest, report, events, index, ops>>
    BY DEF WriteRegistry
  <1>2. op[p].reg \in Registry /\ op[p].kind \in Kinds /\ registry' # NoFile /\ op \in [Procs -> Op]
    BY <1>1, OpFields, CaseAssumption DEF TypeOK
  <1>3. Fresh(p) /\ Drift /\ Good(Lines(events), registry) /\ events' = events
    BY <1>1 DEF Local
  <1>4. "count" \in Steps
    BY Labels
  <1>5. registry # NoFile => registry \in Registry
    BY DEF TypeOK
  <1>6. CASE op[p].kind = "create"
    <2>1. /\ registry = NoFile /\ manifest = op[p].man
          /\ op[p].man.count = Cardinality(Registered(op[p].reg))
      BY <1>1, <1>3, <1>6 DEF Fresh
    <2>2. Drift'
      BY <1>1, <2>1 DEF Drift
    <2>3. Good(Lines(events), registry)'
      BY <1>3, <2>1, GoodBefore
    <2>4. Return(p)
      BY <1>6 DEF WriteRegistry
    <2> QED
      BY <2>2, <2>3, <2>4, ReturnFresh DEF Local
  <1>7. CASE op[p].kind = "attach"
    <2>1. /\ manifest # NoFile /\ registry # NoFile /\ op[p].root \in Roots
          /\ registry[op[p].root] = "absent"
          /\ op[p].reg = [registry EXCEPT ![op[p].root] = "active"]
          /\ manifest.count = Cardinality(Registered(op[p].reg))
      BY <1>1, <1>3, <1>7 DEF Fresh
    <2>2. Drift'
      BY <1>1, <2>1 DEF Drift
    <2>g. Good(Lines(events), op[p].reg)
      BY <1>3, <1>5, <2>1, GoodAttached
    <2>3. Good(Lines(events), registry)'
      BY <1>1, <1>3, <2>g
    <2>4. /\ op'[p].pc = "count" /\ op'[p].kind = "attach" /\ op'[p].root = op[p].root
      BY <1>2, <1>4, <1>7, Gone DEF WriteRegistry
    <2>5. registry'[op[p].root] = "active"
      BY <1>1, <1>5, <2>1 DEF Registry
    <2>6. Fresh(p)'
      BY <1>1, <1>2, <2>1, <2>4, <2>5 DEF Fresh, LogSteps
    <2> QED
      BY <2>2, <2>3, <2>6 DEF Local
  <1>8. CASE op[p].kind = "detach"
    <2>1. /\ manifest # NoFile /\ registry # NoFile /\ op[p].root \in Roots
          /\ registry[op[p].root] # "absent"
          /\ op[p].reg = [registry EXCEPT ![op[p].root] = "detached"]
      BY <1>1, <1>3, <1>8 DEF Fresh
    <2>2. Registered(op[p].reg) = Registered(registry)
      BY <1>5, <2>1, DetachCount
    <2>3. Drift'
      BY <1>1, <1>3, <2>1, <2>2 DEF Drift
    <2>g. Good(Lines(events), op[p].reg)
      BY <1>3, <1>5, <2>1, GoodDetached
    <2>4. Good(Lines(events), registry)'
      BY <1>1, <1>3, <2>g
    <2>5. /\ op'[p].pc = "count" /\ op'[p].kind = "detach" /\ op'[p].root = op[p].root
      BY <1>2, <1>4, <1>8, Gone DEF WriteRegistry
    <2>6. registry'[op[p].root] = "detached"
      BY <1>1, <1>5, <2>1 DEF Registry
    <2>7. Fresh(p)'
      BY <1>1, <1>2, <2>1, <2>5, <2>6 DEF Fresh, LogSteps
    <2> QED
      BY <2>3, <2>4, <2>7 DEF Local
  <1>9. op[p].kind \notin {"build", "verify"}
    BY <1>1, <1>3 DEF Fresh, LogSteps
  <1> QED
    BY <1>2, <1>6, <1>7, <1>8, <1>9 DEF Kinds

LEMMA IndexLocal ==
  ASSUME TypeOK, NEW p \in Procs, Local(p), WriteReport(p) \/ CreateIndex(p) \/ WriteIndex(p)
  PROVE  Local(p)'
  <1>0. Fresh(p) /\ op[p].kind \in Kinds /\ op \in [Procs -> Op]
    BY OpFields DEF Local, TypeOK
  <1>1. CASE WriteReport(p)
    <2>1. /\ op[p].kind = "verify" /\ manifest # NoFile /\ registry # NoFile
          /\ op[p].man.count = manifest.count
      BY <1>0, <1>1, ReportEffect DEF Fresh, LogSteps, Kinds
    <2>2. Fresh(p)'
      BY <1>1, <2>1, ReportEffect DEF Fresh, LogSteps
    <2> QED
      BY <1>1, <2>2, ReportEffect, Unwritten DEF Local
  <1>2. CASE CreateIndex(p)
    <2>1. /\ op[p].pc = "index" /\ Goto(p, "indexFill") /\ "indexFill" \in Steps
          /\ UNCHANGED <<manifest, registry, events>>
      BY <1>2, Labels DEF CreateIndex
    <2>2. /\ op[p].kind = "build" /\ manifest # NoFile /\ registry # NoFile
          /\ op[p].man.count = manifest.count
      BY <1>0, <2>1 DEF Fresh, LogSteps, Kinds
    <2>3. op'[p].pc = "indexFill" /\ op'[p].kind = "build" /\ op'[p].man = op[p].man
      BY <1>0, <2>1, <2>2, Gone
    <2>4. Fresh(p)'
      BY <2>1, <2>2, <2>3 DEF Fresh, LogSteps
    <2> QED
      BY <2>1, <2>4, Unwritten DEF Local
  <1>3. CASE WriteIndex(p)
    <2>1. /\ op[p].kind = "build" /\ manifest # NoFile /\ registry # NoFile
          /\ op[p].man.count = manifest.count
      BY <1>0, <1>3, WriteIndexEffect DEF Fresh, LogSteps, Kinds
    <2>2. Fresh(p)'
      BY <1>3, <2>1, WriteIndexEffect DEF Fresh, LogSteps
    <2> QED
      BY <1>3, <2>2, WriteIndexEffect, Unwritten DEF Local
  <1> QED
    BY <1>1, <1>2, <1>3

LEMMA LogLocal ==
  ASSUME TypeOK, NEW p \in Procs, Local(p),
         \/ CountEvents(p) \/ LoadLog(p) \/ TruncateLog(p) \/ WriteLog(p) \/ WriteLogPartly(p)
  PROVE  Local(p)'
  <1>0. /\ Fresh(p) /\ op[p].kind \in Kinds /\ op \in [Procs -> Op]
        /\ op[p].text \in Text /\ Good(Lines(events), registry) /\ Drift
    BY OpFields DEF Local, TypeOK
  <1>a. op[p].pc \in LogSteps =>
          /\ manifest # NoFile /\ registry # NoFile
          /\ op[p].kind \in {"attach", "detach", "verify"}
          /\ op[p].kind = "attach" => op[p].root \in Roots /\ registry[op[p].root] # "absent"
          /\ op[p].kind = "detach" => op[p].root \in Roots /\ registry[op[p].root] = "detached"
    BY <1>0 DEF Fresh, LogSteps, Kinds
  <1>1. CASE CountEvents(p)
    <2>1. op[p].pc \in LogSteps /\ UNCHANGED <<manifest, registry, events>>
      BY <1>1, CountEffect DEF LogSteps
    <2>2. Fresh(p)'
      BY <1>1, <1>a, <2>1, CountEffect DEF Fresh, LogSteps
    <2> QED
      BY <2>1, <2>2, Unwritten DEF Local
  <1>2. CASE LoadLog(p)
    <2>1. op[p].pc = "load" /\ op[p].pc \in LogSteps /\ UNCHANGED <<manifest, registry, events>>
      BY <1>2, LoadEffect DEF LogSteps
    <2>2. /\ op[p].id = Len(Lines(events))
          /\ \A i \in 1..Len(Lines(events)) : Lines(events)[i] # Broken
      BY <1>0, <2>1 DEF Fresh
    <2>3. NewEvent(p) \in Event /\ NewEvent(p).id = op[p].id
      BY <1>0, EventType DEF NewEvent
    <2>4. Claims(NewEvent(p), registry)
      BY <1>a, <2>1 DEF NewEvent, Claims
    <2>5. Lines(events) \in Text
      BY LinesType DEF TypeOK
    <2>6. \A new \in Extend(Lines(events), NewEvent(p)) : Good(new, registry)
      BY <1>0, <2>2, <2>3, <2>4, <2>5, ExtendGood
    <2>7. Good(op'[p].text, registry')
      BY <1>2, <2>1, <2>6, LoadEffect
    <2>8. Fresh(p)'
      BY <1>2, <1>a, <2>1, <2>7, LoadEffect DEF Fresh, LogSteps
    <2> QED
      BY <2>1, <2>8, Unwritten DEF Local
  <1>3. CASE TruncateLog(p)
    <2>1. /\ op[p].pc = "truncate" /\ op[p].pc \in LogSteps /\ events' = <<>>
          /\ UNCHANGED <<manifest, registry>> /\ Goto(p, "write") /\ "write" \in Steps
      BY <1>3, Labels DEF TruncateLog, LogSteps
    <2>2. /\ op'[p].pc = "write" /\ op'[p].kind = op[p].kind /\ op'[p].root = op[p].root
          /\ op'[p].text = op[p].text
      BY <1>0, <2>1, Gone
    <2>3. Good(op[p].text, registry)
      BY <1>0, <2>1 DEF Fresh
    <2>4. Fresh(p)'
      BY <1>a, <2>1, <2>2, <2>3 DEF Fresh, LogSteps
    <2>5. Good(Lines(events), registry)'
      BY <2>1 DEF Good, Lines
    <2> QED
      BY <1>0, <2>1, <2>4, <2>5 DEF Local, Drift
  <1>4. CASE WriteLog(p)
    <2>1. /\ op[p].pc = "write" /\ Return(p) /\ UNCHANGED <<manifest, registry>>
      BY <1>4 DEF WriteLog
    <2>2. events = <<>> /\ Good(op[p].text, registry)
      BY <1>0, <2>1 DEF Fresh
    <2>a. PICK tail \in Tails(EventLines) : events' = op[p].text \o tail
      BY <1>4 DEF WriteLog
    <2>b. EventLines = <<>> /\ EventLines \in Text
      BY <2>2, CaseAssumption DEF EventLines, Text
    <2>c. tail = <<>>
      BY <2>b, TailsType
    <2>3. events' = op[p].text /\ events' # NoFile
      BY <1>0, <2>a, <2>c, CaseAssumption DEF Text
    <2>4. Good(Lines(events), registry)'
      BY <2>1, <2>2, <2>3 DEF Lines
    <2> QED
      BY <1>0, <2>1, <2>4, ReturnFresh DEF Local, Drift
  <1>5. CASE WriteLogPartly(p)
    <2>0. /\ op[p].pc = "write" /\ Return(p) /\ UNCHANGED <<manifest, registry>>
          /\ \/ events' \in CutOff(op[p].text)
             \/ \E n \in 0..(Len(op[p].text) - 1), tail \in Tails(EventLines) :
                   events' = SubSeq(op[p].text, 1, n) \o tail
      BY <1>5 DEF WriteLogPartly
    <2>a. events = <<>>
      BY <1>0, <2>0 DEF Fresh
    <2>b. EventLines = <<>> /\ EventLines \in Text
      BY <2>a, CaseAssumption DEF EventLines, Text
    <2>c. \A tail \in Tails(EventLines) : tail = <<>>
      BY <2>b, TailsType
    <2>d. \A n \in 0..(Len(op[p].text) - 1) :
            /\ SubSeq(op[p].text, 1, n) \o <<>> = SubSeq(op[p].text, 1, n)
            /\ SubSeq(op[p].text, 1, n) \in CutOff(op[p].text)
      <3>1. ASSUME NEW n \in 0..(Len(op[p].text) - 1)
            PROVE  SubSeq(op[p].text, 1, n) \o <<>> = SubSeq(op[p].text, 1, n)
        BY <1>0 DEF Text
      <3>2. ASSUME NEW n \in 0..(Len(op[p].text) - 1)
            PROVE  SubSeq(op[p].text, 1, n) \in CutOff(op[p].text)
        BY <3>2, CutOffHolds
      <3> QED
        BY <3>1, <3>2
    <2>1. Return(p) /\ UNCHANGED <<manifest, registry>> /\ events' \in CutOff(op[p].text)
      BY <2>0, <2>c, <2>d
    <2>2. Good(op[p].text, registry)
      BY <1>0, <2>0 DEF Fresh
    <2>3. Good(events', registry) /\ events' # NoFile
      BY <1>0, <2>1, <2>2, CutOffGood, CutOffCases, CaseAssumption
    <2>4. Good(Lines(events), registry)'
      BY <2>1, <2>3 DEF Lines
    <2> QED
      BY <1>0, <2>1, <2>4, ReturnFresh DEF Local, Drift
  <1> QED
    BY <1>1, <1>2, <1>3, <1>4, <1>5

LEMMA EndLocal ==
  ASSUME TypeOK, NEW p \in Procs, Local(p), Refuse(p) \/ Stop(p)
  PROVE  Local(p)'
  <1>1. Return(p) /\ UNCHANGED <<manifest, registry, events>>
    BY DEF Refuse, Stop
  <1> QED
    BY <1>1, Unwritten, ReturnFresh DEF Local

-----------------------------------------------------------------------------
(* The invariant and what follows from it.                                 *)

LEMMA StepLocal ==
  ASSUME TypeOK, NEW p \in Procs, Local(p), Step(p), create_case(p) => registry = NoFile
  PROVE  Local(p)'
  BY BeginsLocal, DecidesLocal, ManifestLocal, RegistryLocal, IndexLocal, LogLocal, EndLocal
  DEF Step

\* A process that is in no operation begins one.
LEMMA StepBegins ==
  ASSUME TypeOK, NEW p \in Procs, Step(p)
  PROVE  ~Idle(p) \/ (~Idle(p)' /\ UNCHANGED <<manifest, registry, report, events, index>>)
  BY BeginEffect, CreateEffect
  DEF Step, Idle, attach_root, detach_root, build_case_global_indexes, verify_case, Loaded,
      WriteManifest, WriteRegistry, WriteReport, CreateIndex, WriteIndex, CountEvents,
      LoadLog, TruncateLog, WriteLog, WriteLogPartly, Refuse, Stop

LEMMA StepMoved ==
  ASSUME TypeOK, NEW p \in Procs, Step(p)
  PROVE  Moved(p)
  <1>1. {"registry", "count", "indexFill", "write"} \subseteq Steps
    BY Labels
  <1>2. \A step \in Steps : step # "idle" /\ (Goto(p, step) \/ Return(p)) => Moved(p)
    BY StepEffect
  <1>3. WriteManifest(p) => Goto(p, "registry") \/ Goto(p, "count") \/ Return(p)
    BY DEF WriteManifest
  <1>4. WriteRegistry(p) => Goto(p, "count") \/ Return(p)
    BY DEF WriteRegistry
  <1>5. CreateIndex(p) => Goto(p, "indexFill")
    BY DEF CreateIndex
  <1>6. TruncateLog(p) => Goto(p, "write")
    BY DEF TruncateLog
  <1>7. WriteLog(p) \/ WriteLogPartly(p) \/ Refuse(p) \/ Stop(p) => Return(p)
    BY DEF WriteLog, WriteLogPartly, Refuse, Stop
  <1>8. (\/ WriteManifest(p) \/ WriteRegistry(p) \/ CreateIndex(p) \/ TruncateLog(p)
         \/ WriteLog(p) \/ WriteLogPartly(p) \/ Refuse(p) \/ Stop(p)) => Moved(p)
    BY <1>1, <1>2, <1>3, <1>4, <1>5, <1>6, <1>7
  <1>9. create_case(p) \/ Begin(p) \/ attach_root(p) \/ detach_root(p) => Moved(p)
    BY CreateEffect, BeginEffect, AttachEffect, DetachEffect
  <1>10. (\/ build_case_global_indexes(p) \/ verify_case(p) \/ WriteReport(p)
          \/ WriteIndex(p) \/ CountEvents(p) \/ LoadLog(p)) => Moved(p)
    BY BuildEffect, VerifyEffect, ReportEffect, WriteIndexEffect, CountEffect, LoadEffect
  <1> QED
    BY <1>8, <1>9, <1>10 DEF Step

\* Only WriteRegistry writes the registry, which then is the copy written back.
LEMMA RegistryStep ==
  ASSUME TypeOK, NEW p \in Procs, Step(p)
  PROVE  \/ registry' = registry
         \/ /\ WriteRegistry(p) /\ op[p].pc = "registry" /\ op'[p].pc \in {"idle", "count"}
            /\ registry' = op[p].reg /\ registry' \in Registry /\ registry' # NoFile
            /\ manifest' = manifest
  <1>1. registry' = registry \/ WriteRegistry(p)
    BY DEF Step, create_case, Begin, attach_root, detach_root, build_case_global_indexes,
           verify_case, Loaded, WriteManifest, WriteReport, CreateIndex, WriteIndex,
           CountEvents, LoadLog, TruncateLog, WriteLog, WriteLogPartly, Refuse, Stop
  <1>2. CASE WriteRegistry(p)
    <2>1. /\ op[p].pc = "registry" /\ registry' = op[p].reg /\ manifest' = manifest
          /\ Goto(p, "count") \/ Return(p)
      BY <1>2 DEF WriteRegistry
    <2>2. op[p].reg \in Registry /\ op \in [Procs -> Op] /\ "count" \in Steps
      BY OpFields, Labels DEF TypeOK
    <2>3. op'[p].pc \in {"idle", "count"}
      BY <2>1, <2>2, Gone, Returned, RestType
    <2> QED
      BY <1>2, <2>1, <2>2, <2>3, CaseAssumption
  <1> QED
    BY <1>1, <1>2

\* An operation that does not hold a copy of the registry yet, or any more.
Elsewhere(rec) ==
    /\ rec.kind \in {"attach", "detach"} =>
         /\ rec.root \in Roots
         /\ rec.pc \notin {"manifest", "registry", "report", "index", "indexFill"}
    /\ rec.pc = "registry" => rec.kind = "create"

\* Where a process can come to write the registry back.
LEMMA CopyStep ==
  ASSUME TypeOK, NEW p \in Procs, Step(p), Copied(p)
  PROVE  \/ attach_root(p) \/ detach_root(p)
         \/ WriteManifest(p) /\ op[p].kind = "attach"
         \/ Elsewhere(op'[p])
  <1>0. op \in [Procs -> Op] /\ op[p].kind \in Kinds
    BY OpFields DEF TypeOK
  <1>1. ASSUME op'[p].pc \in {"count", "load", "truncate", "write"},
               op'[p].kind = op[p].kind /\ op'[p].root = op[p].root
        PROVE  Elsewhere(op'[p])
    BY <1>1 DEF Copied, Elsewhere
  <1>2. ASSUME Return(p) PROVE Elsewhere(op'[p])
    BY <1>0, <1>2, Returned, RestType DEF Elsewhere
  <1>3. ASSUME NEW step \in {"count", "write"}, Goto(p, step) PROVE Elsewhere(op'[p])
    BY <1>0, <1>1, <1>3, Gone DEF Steps
  <1>4. CASE create_case(p) \/ Begin(p)
    BY <1>4, CreateEffect, BeginEffect DEF Elsewhere
  <1>5. CASE build_case_global_indexes(p) \/ verify_case(p)
    BY <1>5, BuildEffect, VerifyEffect DEF Elsewhere
  <1>6. CASE WriteManifest(p)
    <2>1. CASE op[p].kind = "create"
      <3>1. Goto(p, "registry") /\ "registry" \in Steps
        BY <1>6, <2>1 DEF WriteManifest, Steps
      <3>2. op'[p].kind = "create"
        BY <1>0, <2>1, <3>1, Gone
      <3> QED
        BY <3>2 DEF Elsewhere
    <2>2. CASE op[p].kind \notin {"create", "attach"}
      <3>1. Goto(p, "count") \/ Return(p)
        BY <1>6, <2>2 DEF WriteManifest
      <3> QED
        BY <1>2, <1>3, <3>1
    <2> QED
      BY <1>6, <2>1, <2>2
  <1>7. CASE WriteRegistry(p) \/ TruncateLog(p)
    BY <1>2, <1>3, <1>7 DEF WriteRegistry, TruncateLog
  <1>8. CASE WriteReport(p)
    BY <1>8, ReportEffect DEF Elsewhere, Copied
  <1>9. CASE WriteIndex(p)
    BY <1>9, WriteIndexEffect DEF Elsewhere, Copied
  <1>10. CASE CreateIndex(p)
    <2>1. op[p].pc = "index" /\ Goto(p, "indexFill") /\ "indexFill" \in Steps
      BY <1>10, Labels DEF CreateIndex
    <2>2. op'[p].pc = "indexFill" /\ op'[p].kind = op[p].kind
      BY <1>0, <2>1, Gone
    <2> QED
      BY <2>1, <2>2 DEF Elsewhere, Copied
  <1>11. CASE CountEvents(p) \/ LoadLog(p)
    BY <1>1, <1>11, CountEffect, LoadEffect
  <1>12. CASE WriteLog(p) \/ WriteLogPartly(p) \/ Refuse(p) \/ Stop(p)
    BY <1>2, <1>12 DEF WriteLog, WriteLogPartly, Refuse, Stop
  <1> QED
    BY <1>4, <1>5, <1>6, <1>7, <1>8, <1>9, <1>10, <1>11, <1>12 DEF Step

-----------------------------------------------------------------------------
(* The history.                                                            *)

\* What has been touched is what the registry no longer shows as it was read.
LEMMA TouchedStep ==
  ASSUME TypeOK, NEW p \in Procs, Watched(p), NEW q \in Procs, HoldsCopy(q)'
  PROVE  /\ touched[q] \subseteq touched'[q]
         /\ \A r \in Roots \ touched'[q] :
               registry' = registry \/ (registry # NoFile /\ registry'[r] = registry[r])
  BY DEF Watched

\* Who is in the case together.
LEMMA MeetsStep ==
  ASSUME Meets, NEW p \in Procs, Watched(p), Moved(p)
  PROVE  /\ Meets'
         /\ \A q \in Procs \ {p} : q \in met => q \in met'
         /\ Idle(p) /\ ~Idle(p)' => \A q \in Procs \ {p} : ~Idle(q) => q \in met'
  <1> DEFINE others == {q \in Procs \ {p} : ~Idle(q)}
  <1>1. met' = IF Idle(p)' THEN met \ {p}
               ELSE IF Idle(p) /\ ~Idle(p)' /\ others # {} THEN met \cup others \cup {p} ELSE met
    BY DEF Watched
  <1>2. \A q \in Procs \ {p} : Idle(q)' = Idle(q)
    BY DEF Moved, Idle
  <1>3. \A q \in Procs \ {p} : q \in met => q \in met'
    BY <1>1
  <1>4. Idle(p) /\ ~Idle(p)' => \A q \in Procs \ {p} : ~Idle(q) => q \in met'
    BY <1>1
  <1>5. ASSUME NEW a \in Procs, NEW b \in Procs, a # b, ~Idle(a)', ~Idle(b)' PROVE a \in met'
    <2>1. CASE a # p /\ b # p
      BY <1>2, <1>3, <1>5, <2>1 DEF Meets
    <2>2. CASE a = p
      <3>1. b \in others
        BY <1>2, <1>5, <2>2
      <3>2. ~Idle(p) => p \in met
        BY <1>2, <1>5, <2>2 DEF Meets
      <3> QED
        BY <1>1, <1>5, <2>2, <3>1, <3>2
    <2>3. CASE b = p
      BY <1>2, <1>3, <1>4, <1>5, <2>3 DEF Meets
    <2> QED
      BY <2>1, <2>2, <2>3
  <1> QED
    BY <1>3, <1>4, <1>5 DEF Meets

\* As long as nothing clashes.
LEMMA CalmStep ==
  ASSUME TypeOK, clashes = 0 => met = {}, NEW p \in Procs, Watched(p), Step(p), clashes' = 0
  PROVE  /\ clashes = 0 /\ met' = {}
         /\ ~Idle(p) \/ \A q \in Procs : Idle(q)
         /\ create_case(p) => registry = NoFile
  <1> DEFINE others == {q \in Procs \ {p} : ~Idle(q)}
             anew == op'[p].kind = "create" /\ registry # NoFile
             begins == Idle(p) /\ ~Idle(p)'
  <1>1. clashes' = IF begins /\ (others # {} \/ anew) THEN clashes + 1 ELSE clashes
    BY DEF Watched
  <1>2. clashes = 0 /\ ~(begins /\ (others # {} \/ anew))
    BY <1>1 DEF TypeOK
  <1>3. Idle(p) => begins /\ others = {} /\ ~anew
    BY <1>2, StepBegins
  <1>4. met' = {}
    BY <1>2 DEF Watched
  <1>5. create_case(p) => registry = NoFile
    BY <1>3, CreateEffect DEF create_case, Start
  <1> QED
    BY <1>2, <1>3, <1>4, <1>5
\* The copy of a process that others move beside.
LEMMA CopiedBeside ==
  ASSUME TypeOK, NEW p \in Procs, Step(p), Watched(p), NEW q \in Procs \ {p}, Copied(q)
  PROVE  Copied(q)'
  <1>1. op'[q] = op[q]
    BY StepMoved DEF Moved
  <1>2. registry # NoFile => registry' # NoFile
    BY RegistryStep
  <1>3. HoldsCopy(q)' => HoldsCopy(q)
    BY <1>1 DEF HoldsCopy
  <1>4. HoldsCopy(q)' =>
          /\ touched[q] \subseteq touched'[q]
          /\ \A r \in Roots \ touched'[q] :
                registry' = registry \/ (registry # NoFile /\ registry'[r] = registry[r])
    BY TouchedStep
  <1>5. CASE HoldsCopy(q)'
    BY <1>1, <1>2, <1>3, <1>4, <1>5 DEF Copied
  <1>6. CASE ~HoldsCopy(q)'
    BY <1>1, <1>6 DEF Copied
  <1> QED
    BY <1>5, <1>6

\* The copy of the process that moves.
LEMMA CopiedOwn ==
  ASSUME TypeOK, NEW p \in Procs, Step(p), Watched(p), Copied(p)
  PROVE  Copied(p)'
  <1>1. CASE Elsewhere(op'[p])
    BY <1>1 DEF Elsewhere, Copied, HoldsCopy
  <1>2. CASE attach_root(p)
    <2>1. op[p].root \in Roots /\ registry # NoFile
      BY <1>2, AttachEffect, CaseAssumption DEF Copied
    <2>a. /\ registry \in Registry /\ registry[op[p].root] = "absent"
          /\ op'[p].reg = [registry EXCEPT ![op[p].root] = "active"]
          /\ op'[p].man.count = Cardinality(Registered(registry)) + 1
      BY <1>2, AttachEffect
    <2>2. Cardinality(Registered(op'[p].reg)) = op'[p].man.count
      BY <2>1, <2>a, AttachCount
    <2>3. \A r \in Roots : r # op[p].root => op'[p].reg[r] = registry[r]
      BY <1>2, AttachEffect DEF Registry
    <2> QED
      BY <1>2, <2>1, <2>2, <2>3, AttachEffect DEF Copied
  <1>3. CASE detach_root(p)
    <2>1. op[p].root \in Roots /\ registry # NoFile
      BY <1>3, DetachEffect, CaseAssumption DEF Copied
    <2>2. /\ op'[p].reg[op[p].root] = "detached"
          /\ \A r \in Roots : r # op[p].root => op'[p].reg[r] = registry[r]
      BY <1>3, <2>1, DetachEffect DEF Registry
    <2> QED
      BY <1>3, <2>1, <2>2, DetachEffect DEF Copied
  <1>4. CASE WriteManifest(p) /\ op[p].kind = "attach"
    <2>1. /\ op[p].pc = "manifest" /\ Goto(p, "registry") /\ registry' = registry
          /\ "registry" \in Steps /\ op \in [Procs -> Op]
      BY <1>4 DEF WriteManifest, Steps, TypeOK
    <2>2. /\ op'[p].pc = "registry" /\ op'[p].kind = "attach" /\ op'[p].root = op[p].root
          /\ op'[p].man = op[p].man /\ op'[p].reg = op[p].reg
      BY <1>4, <2>1, Gone
    <2>3. HoldsCopy(p) /\ HoldsCopy(p)'
      BY <1>4, <2>1, <2>2 DEF HoldsCopy
    <2>4. touched[p] \subseteq touched'[p]
      BY <2>3, TouchedStep
    <2> QED
      BY <1>4, <2>1, <2>2, <2>3, <2>4 DEF Copied
  <1> QED
    BY <1>1, <1>2, <1>3, <1>4, CopyStep

\* The manifest of an operation that has met nobody.
LEMMA AnnouncedStep ==
  ASSUME TypeOK, Meets, NEW p \in Procs, Step(p), Watched(p), Copied(p),
         NEW q \in Procs, Announced(q)
  PROVE  Announced(q)'
  <1> SUFFICES ASSUME q \notin met', op'[q].kind = "attach", op'[q].pc = "registry"
               PROVE  manifest' = op'[q].man
    BY DEF Announced
  <1>1. CASE q # p
    <2>1. op'[q] = op[q] /\ ~Idle(q)
      BY <1>1, StepMoved DEF Moved, Idle
    <2>2. q \notin met /\ ~(Idle(p) /\ ~Idle(p)')
      BY <1>1, <2>1, MeetsStep, StepMoved
    <2>3. ~Idle(p)
      BY <2>2, StepBegins
    <2> QED
      BY <1>1, <2>1, <2>2, <2>3 DEF Meets
  <1>2. CASE q = p
    <2>1. WriteManifest(p) /\ op[p].kind = "attach"
      BY <1>2, CopyStep, AttachEffect, DetachEffect DEF Elsewhere
    <2>2. /\ Goto(p, "registry") /\ "registry" \in Steps /\ op \in [Procs -> Op]
          /\ manifest' = op[p].man
      BY <2>1 DEF WriteManifest, Steps, TypeOK
    <2> QED
      BY <1>2, <2>2, Gone
  <1> QED
    BY <1>1, <1>2

-----------------------------------------------------------------------------
(* The invariant and what follows from it.                                 *)

LEMMA InitInv ==
  ASSUME Init
  PROVE  IInv
  <1>1. \A p \in Procs : op[p].pc = "idle" /\ op[p].kind = "create" /\ Idle(p)
    BY RestType DEF Init, Idle
  <1>2. Good(Lines(events), registry)
    BY DEF Init, Good, Lines
  <1>3. \A p \in Procs : Fresh(p)
    BY <1>1 DEF Fresh, LogSteps
  <1>4. \A p \in Procs : Copied(p) /\ Announced(p)
    BY <1>1 DEF Copied, Announced, HoldsCopy
  <1> QED
    BY <1>1, <1>2, <1>3, <1>4, InitTyped DEF IInv, Init, Alone, Meets, Drift

LEMMA StepInv ==
  ASSUME IInv, [Next]_vars
  PROVE  IInv'
  <1>1. TypeOK /\ Resting /\ TypeOK' /\ Resting'
    BY TypeStep DEF IInv
  <1>2. CASE UNCHANGED vars
    <2>a. /\ manifest' = manifest /\ registry' = registry /\ events' = events /\ op' = op
          /\ clashes' = clashes /\ met' = met /\ touched' = touched
      BY <1>2 DEF vars, history
    <2>b. ASSUME NEW p \in Procs, Copied(p) /\ Announced(p) PROVE (Copied(p) /\ Announced(p))'
      BY <2>a, <2>b DEF Copied, Announced, HoldsCopy
    <2>c. ASSUME NEW p \in Procs, Fresh(p) PROVE Fresh(p)'
      BY <2>a, <2>c DEF Fresh
    <2>1. \A p \in Procs : (Copied(p) /\ Announced(p))' /\ (clashes = 0 => Fresh(p)')
      BY <2>b, <2>c DEF IInv
    <2>2. Meets' /\ (clashes' = 0 => Alone' /\ met' = {} /\ Drift' /\ Good(Lines(events), registry)')
      BY <1>2 DEF IInv, vars, history, Meets, Alone, Idle, Drift
    <2> QED
      BY <1>1, <1>2, <2>1, <2>2 DEF IInv, vars, history
  <1>3. ASSUME NEW p \in Procs, Step(p), Watched(p) PROVE IInv'
    <2>1. Meets'
      BY <1>1, <1>3, MeetsStep, StepMoved DEF IInv
    <2>2. \A q \in Procs : Copied(q)'
      BY <1>1, <1>3, CopiedOwn, CopiedBeside DEF IInv
    <2>3. \A q \in Procs : Announced(q)'
      BY <1>1, <1>3, AnnouncedStep DEF IInv
    <2>4. ASSUME clashes' = 0
          PROVE  /\ Alone' /\ met' = {} /\ Drift' /\ Good(Lines(events), registry)'
                 /\ \A q \in Procs : Fresh(q)'
      <3>1. /\ clashes = 0 /\ met' = {}
            /\ ~Idle(p) \/ \A q \in Procs : Idle(q)
            /\ create_case(p) => registry = NoFile
        BY <1>1, <1>3, <2>4, CalmStep DEF IInv
      <3>2. Alone /\ Local(p)
        BY <3>1 DEF IInv, Local
      <3>3. Local(p)'
        BY <1>1, <1>3, <3>1, <3>2, StepLocal
      <3>4. Alone' /\ \A q \in Procs : Fresh(q)'
        BY <1>1, <1>3, <3>1, <3>2, <3>3, StepMoved, Frame DEF Local
      <3> QED
        BY <3>1, <3>3, <3>4 DEF Local
    <2> QED
      BY <1>1, <2>1, <2>2, <2>3, <2>4 DEF IInv
  <1> QED
    BY <1>2, <1>3 DEF Next

LEMMA Inductive == Spec => []IInv
  <1>1. Init => IInv
    BY InitInv
  <1>2. IInv /\ [Next]_vars => IInv'
    BY StepInv
  <1> QED
    BY <1>1, <1>2, PTL DEF Spec

\* However an operation is cut short, the count in the manifest is that of the
\* registry, or one root ahead of it, as long as no operations clash.
THEOREM CountDrifts == Spec => []CountDrift
  <1>1. IInv => CountDrift
    BY DEF IInv, Drift, CountDrift
  <1> QED
    BY <1>1, Inductive, PTL

\* The provenance log never claims an attached or a detached root that the
\* registry does not show, as long as no operations clash.
THEOREM EventsAreJustified == Spec => []EventsJustified
  <1>1. IInv => EventsJustified
    BY DEF IInv, Good, Claims, EventsJustified, EventLines, Lines
  <1> QED
    BY <1>1, Inductive, PTL

\* No two events of a case have the same id, whatever was cut short, as long as
\* no operations clash.
THEOREM EventIdsAreUnique == Spec => []EventIdsUnique
  <1>1. IInv => EventIdsUnique
    <2> SUFFICES ASSUME IInv, clashes = 0, NEW i \in 1..Len(EventLines), NEW j \in 1..Len(EventLines),
                        EventLines[i] # Broken, EventLines[j] # Broken,
                        EventLines[i].id = EventLines[j].id
                 PROVE  i = j
      BY DEF EventIdsUnique
    <2>1. EventLines = Lines(events) /\ Good(EventLines, registry)
      BY DEF IInv, EventLines, Lines
    <2>2. EventLines[i].id + 1 = i /\ EventLines[j].id + 1 = j
      BY <2>1 DEF Good
    <2> QED
      BY <2>2
  <1> QED
    BY <1>1, Inductive, PTL

\* However operations overlap and fail, a write-back of the registry loses
\* nothing but what others changed since it was read.
THEOREM RootsOnlyAdvance == Spec => RootsAdvance
  <1> DEFINE Forward == \A r \in Roots : Loses(r) =>
         \E p \in Procs : /\ op[p].pc = "registry" /\ op'[p].pc # "registry"
                          /\ op[p].kind = "create" \/ r \in touched[p]
  <1>1. IInv /\ [Next]_vars => [Forward]_vars
    <2> SUFFICES ASSUME IInv, [Next]_vars, NEW r \in Roots, Loses(r)
                 PROVE  \E p \in Procs : /\ op[p].pc = "registry" /\ op'[p].pc # "registry"
                                         /\ op[p].kind = "create" \/ r \in touched[p]
      OBVIOUS
    <2>1. registry' # registry /\ registry # NoFile
      BY DEF Loses
    <2>2. PICK p \in Procs : Step(p)
      BY <2>1 DEF Next, vars
    <2>3. TypeOK /\ Copied(p) /\ registry \in Registry
      BY <2>1 DEF IInv, TypeOK
    <2>4. op[p].pc = "registry" /\ op'[p].pc # "registry" /\ registry' = op[p].reg
      BY <2>1, <2>2, <2>3, RegistryStep
    <2>5. ASSUME op[p].kind # "create", r \notin touched[p] PROVE FALSE
      <3>1. op[p].kind \in {"attach", "detach"} /\ HoldsCopy(p)
        BY <2>3, <2>4, <2>5 DEF Copied, HoldsCopy
      <3>2. r = op[p].root
        BY <2>3, <2>4, <2>5, <3>1 DEF Copied, Loses
      <3> QED
        BY <2>3, <2>4, <2>5, <3>1, <3>2 DEF Copied, Loses
    <2> QED
      BY <2>4, <2>5
  <1> QED
    BY <1>1, Inductive, PTL DEF Spec, RootsAdvance

\* Attaching a root that nobody else's operation overlaps makes the manifest and
\* the registry agree again.
THEOREM AttachRepairs == Spec => AttachHeals
  <1> DEFINE Heals == \A p \in Procs :
         p \notin met /\ op[p].kind = "attach" /\ registry' # registry =>
             validate_registry(manifest', registry')
  <1>1. IInv /\ [Next]_vars => [Heals]_vars
    <2> SUFFICES ASSUME IInv, [Next]_vars, NEW p \in Procs,
                        p \notin met, op[p].kind = "attach", registry' # registry
                 PROVE  validate_registry(manifest', registry')
      OBVIOUS
    <2>1. PICK q \in Procs : Step(q)
      BY DEF Next, vars
    <2>2. ~Idle(p)
      BY RestType DEF IInv, Resting, Idle
    <2>3. TypeOK /\ Copied(p) /\ Announced(p) /\ Meets
      BY DEF IInv
    <2>4. /\ op[q].pc = "registry" /\ registry' = op[q].reg /\ manifest' = manifest
      BY <2>1, <2>3, RegistryStep
    <2>5. q = p
      BY <2>2, <2>3, <2>4 DEF Meets, Idle
    <2>6. manifest = op[p].man /\ op[p].man.count = Cardinality(Registered(op[p].reg))
      BY <2>3, <2>4, <2>5 DEF Announced, Copied, HoldsCopy
    <2> QED
      BY <2>4, <2>5, <2>6 DEF validate_registry
  <1> QED
    BY <1>1, Inductive, PTL DEF Spec, AttachHeals
=============================================================================
