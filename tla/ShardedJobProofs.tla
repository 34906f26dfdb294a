-------------------------- MODULE ShardedJobProofs --------------------------
(***************************************************************************)
(* Proofs about ShardedJob, for any number of objects, shards and layouts. *)
(* What is inductive: every manifest, result and worker of a shard has the *)
(* inputs that one of the layouts its scope was planned with gives to the  *)
(* shard (Laid); commit has staged a whole result before it removes one    *)
(* (Staged); and what plan-shards has written so far, and in the end, is   *)
(* what one call computes (Fresh).                                         *)
(***************************************************************************)
EXTENDS ShardedJob, FiniteSetTheorems, TLAPS

\* The inputs are those a layout gives to the shard.
Lawful(s, f) == \E l \in laid[f.scope] : f.inputs = Inputs(f.scope, l, s)

\* A result that is staged whole.
Whole(s) == staged[s] # NoFile /\ staged[s].result \notin Unreadable

Laid ==
    /\ plan \notin Unreadable => \E l \in laid[plan.scope] : plan.count = l.count
    /\ planner # Idle => planner.layout \in laid[planner.scope]
    /\ \A s \in Shards :
          /\ HasManifest(s) => Lawful(s, dir[s].manifest)
          /\ HasResult(s) => Lawful(s, dir[s].result)
          /\ Whole(s) => Lawful(s, staged[s].result)
          /\ worker[s] # Idle => Lawful(s, worker[s])

Staged ==
    \A s \in Shards : worker[s] # Idle =>
        /\ ~worker[s].staged => worker[s].rows # NoRows
        /\ worker[s].pc \in {"rows", "stagefill"} => staged[s] # NoFile
        /\ worker[s].pc \in {"remove", "rename"} => Whole(s)

\* The manifests before n are those of a call, or removed by a worker.
WrittenTo(in, layout, n) ==
    \A s \in Shards : s < n => dir[s].manifest \in {NoFile, Manifest(in, layout, s)}

Fresh ==
    /\ planner # Idle =>
          /\ planned = Idle /\ planner.next < planner.layout.count
          /\ planner.pc = "plan" => planner.next = 0
          /\ planner.pc # "plan" =>
                /\ plan = [scope |-> planner.scope, count |-> planner.layout.count]
                /\ WrittenTo(planner.scope, planner.layout, planner.next)
    /\ planned # Idle =>
          /\ plan = [scope |-> planned.scope, count |-> planned.layout.count]
          /\ WrittenTo(planned.scope, planned.layout, planned.layout.count)

Inv == TypeOK /\ Laid /\ Staged /\ Fresh /\ ResultSurvives

-----------------------------------------------------------------------------
(* Layouts.                                                                *)

\* A layout gives each object to one of its shards.
LEMMA AssignedInCount ==
    ASSUME NEW l \in Layouts, NEW in \in SUBSET Objects, NEW o \in in
    PROVE  AssignShard(in, l, o) \in 0 .. l.count - 1
<1>1. l.count \in 1 .. MaxShards /\ MaxShards \in Nat
  BY ShardAssumption
<1>2. HashByte[o] \in Nat
  BY ShardAssumption
<1>3. Position(in, o) \in Nat
  <2>1. IsFiniteSet({p \in in : p < o})
    BY FS_Subset, ShardAssumption
  <2> QED
    BY <2>1, FS_CardinalityType DEF Position
<1>4. \A n \in Nat : n % l.count \in 0 .. l.count - 1
  BY <1>1
<1> QED
  BY <1>2, <1>3, <1>4 DEF AssignShard

\* The shards of a layout have every object of a scope, no two the same, and
\* nothing else.
LEMMA InputsPartition ==
    ASSUME NEW l \in Layouts, NEW in \in SUBSET Objects
    PROVE  /\ \A o \in in : \E s \in 0 .. l.count - 1 : o \in Inputs(in, l, s)
           /\ \A s, t : s # t => Inputs(in, l, s) \cap Inputs(in, l, t) = {}
           /\ \A s : Inputs(in, l, s) \subseteq in
<1>1. \A o \in in : \E s \in 0 .. l.count - 1 : o \in Inputs(in, l, s)
  BY AssignedInCount DEF Inputs
<1> QED
  BY <1>1 DEF Inputs

\* Two objects of a scope have different places in it.
LEMMA PositionsDiffer ==
    ASSUME NEW in \in SUBSET Objects, NEW o \in in, NEW p \in in, Position(in, o) = Position(in, p)
    PROVE  o = p
<1>1. /\ IsFiniteSet(in) /\ in \subseteq Int
  BY FS_Subset, ShardAssumption
<1>2. ASSUME NEW a \in in, NEW b \in in, a < b
      PROVE  Position(in, a) # Position(in, b)
  <2> DEFINE A == {q \in in : q < a}
             B == {q \in in : q < b}
  <2>0. a \in Int /\ b \in Int /\ \A q \in in : q \in Int
    BY <1>1
  <2>1. A \subseteq B /\ a \in B /\ a \notin A
    <3>1. \A q \in in : q < a => q < b
      BY <2>0, <1>2
    <3>2. a < b /\ ~(a < a)
      BY <2>0, <1>2
    <3> QED
      BY <3>1, <3>2
  <2>2. IsFiniteSet(B)
    BY <1>1, FS_Subset
  <2>3. Cardinality(A) # Cardinality(B)
    BY <2>1, <2>2, FS_Subset
  <2> QED
    BY <2>3 DEF Position
<1>3. ~(o < p)
  BY <1>2
<1>4. ~(p < o)
  BY <1>2
<1>5. o \in Int /\ p \in Int
  BY <1>1
<1> QED
  BY <1>3, <1>4, <1>5

LEMMA ScopesOfObjects == Scopes \subseteq SUBSET Objects
<1> SUFFICES ASSUME NEW i \in Indexes PROVE i \cap Wanted \in SUBSET Objects
  BY DEF Scopes
<1> QED
  BY ShardAssumption

-----------------------------------------------------------------------------
(* Sums of cardinalities.                                                  *)

Choice(s) == CHOOSE x \in s : TRUE

\* Induction over the subsets of a finite set: a collection that has the
\* empty one, and another whenever it has what is left of that without its
\* choice, has them all.
LEMMA SubsetInd ==
    ASSUME NEW S, IsFiniteSet(S), NEW C, {} \in C,
           \A s \in SUBSET S : s # {} /\ s \ {Choice(s)} \in C => s \in C
    PROVE  \A s \in SUBSET S : s \in C
<1> SUFFICES ASSUME (SUBSET S) \ C # {} PROVE FALSE
  OBVIOUS
<1>1. IsWellFoundedOn(StrictSubsetOrdering(S), SUBSET S)
  BY FS_StrictSubsetOrderingWellFounded, FS_FiniteSubsetsOfFinite
<1>2. PICK s \in (SUBSET S) \ C : \A t \in (SUBSET S) \ C : ~(<<t, s>> \in StrictSubsetOrdering(S))
  BY <1>1, WFMin
<1>3. s # {}
  BY <1>2
<1> DEFINE x == Choice(s)
<1>4. x \in s
  BY <1>3 DEF Choice
<1>5. s \ {x} \notin C
  BY <1>2, <1>3
<1>6. <<s \ {x}, s>> \in StrictSubsetOrdering(S)
  <2>1. s \ {x} \in SUBSET S /\ s \in SUBSET S /\ s \ {x} \subseteq s /\ s \ {x} # s
    BY <1>2, <1>4
  <2> HIDE DEF x
  <2> QED
    BY <2>1 DEF StrictSubsetOrdering
<1> QED
  BY <1>2, <1>5, <1>6

\* The sets of g have no element in common, and none but those of U.
Disjoint(g, S, U) ==
    /\ \A x \in S : g[x] \subseteq U
    /\ \A x, y \in S : x # y => g[x] \cap g[y] = {}

Joined(g, s) == UNION {g[x] : x \in s}

\* One set less is so many elements less.
Adds(g, s, x) == Cardinality(Joined(g, s)) = Cardinality(g[x]) + Cardinality(Joined(g, s \ {x}))

LEMMA JoinedLess ==
    ASSUME NEW S, NEW U, IsFiniteSet(U), NEW g, Disjoint(g, S, U), NEW s \in SUBSET S, NEW x \in s
    PROVE  Adds(g, s, x)
<1> DEFINE A == g[x]
           B == Joined(g, s \ {x})
<1>1. IsFiniteSet(A) /\ IsFiniteSet(B)
  <2>1. A \subseteq U /\ B \subseteq U
    BY DEF Disjoint, Joined
  <2> QED
    BY <2>1, FS_Subset
<1>2. A \cap B = {}
  BY DEF Disjoint, Joined
<1>3. Joined(g, s) = A \cup B
  BY DEF Joined
<1>4. Cardinality({}) = 0 /\ Cardinality(A) \in Nat /\ Cardinality(B) \in Nat
  BY <1>1, FS_EmptySet, FS_CardinalityType
<1> HIDE DEF A, B
<1>5. Cardinality(A \cup B) = Cardinality(A) + Cardinality(B) - Cardinality(A \cap B)
  BY <1>1, FS_Union
<1>6. Cardinality(A \cap B) = 0
  BY <1>2, <1>4
<1>7. Cardinality(A \cup B) = Cardinality(A) + Cardinality(B)
  BY <1>4, <1>5, <1>6
<1> QED
  BY <1>3, <1>7 DEF A, B, Adds

\* it is what MapThenSumSet computes a sum with.
Summing(it, g, S) ==
    it = [s \in SUBSET S |-> IF s = {} THEN 0 ELSE Cardinality(g[Choice(s)]) + it[s \ {Choice(s)}]]

\* There is such a function: it counts what the sets have together.
LEMMA SummingExists ==
    ASSUME NEW S, NEW U, IsFiniteSet(U), NEW g, Disjoint(g, S, U)
    PROVE  \E it : Summing(it, g, S)
<1> DEFINE it == [s \in SUBSET S |-> Cardinality(Joined(g, s))]
<1>1. ASSUME NEW s \in SUBSET S
      PROVE  it[s] = IF s = {} THEN 0 ELSE Cardinality(g[Choice(s)]) + it[s \ {Choice(s)}]
  <2>1. CASE s = {}
    <3>1. Joined(g, s) = {}
      BY <2>1 DEF Joined
    <3> QED
      BY <2>1, <3>1, FS_EmptySet
  <2>2. CASE s # {}
    <3>1. Choice(s) \in s
      BY <2>2 DEF Choice
    <3>2. Cardinality(Joined(g, s)) = Cardinality(g[Choice(s)]) + Cardinality(Joined(g, s \ {Choice(s)}))
      <4>1. Adds(g, s, Choice(s))
        BY <3>1, JoinedLess
      <4> QED
        BY <4>1 DEF Adds
    <3>3. s \ {Choice(s)} \in SUBSET S
      OBVIOUS
    <3>4. it[s] = Cardinality(Joined(g, s))
      OBVIOUS
    <3>5. it[s \ {Choice(s)}] = Cardinality(Joined(g, s \ {Choice(s)}))
      BY <3>3
    <3> HIDE DEF it
    <3> QED
      BY <2>2, <3>2, <3>4, <3>5
  <2> QED
    BY <2>1, <2>2
<1>2. it = [s \in SUBSET S |-> it[s]]
  OBVIOUS
<1> HIDE DEF it
<1>3. Summing(it, g, S)
  BY <1>1, <1>2 DEF Summing
<1> QED
  BY <1>3

\* And any such function does.
LEMMA SummingCounts ==
    ASSUME NEW S, IsFiniteSet(S), NEW U, IsFiniteSet(U), NEW g, Disjoint(g, S, U),
           NEW it, Summing(it, g, S)
    PROVE  it[S] = Cardinality(Joined(g, S))
<1> DEFINE Counts(s) == it[s] = Cardinality(Joined(g, s))
           C == {s \in SUBSET S : Counts(s)}
<1>0. \A s \in SUBSET S : it[s] = IF s = {} THEN 0 ELSE Cardinality(g[Choice(s)]) + it[s \ {Choice(s)}]
  BY DEF Summing
<1>1. {} \in C
  <2>1. it[{}] = 0
    BY <1>0
  <2>2. Joined(g, {}) = {}
    BY DEF Joined
  <2> QED
    BY <2>1, <2>2, FS_EmptySet
<1>2. ASSUME NEW s \in SUBSET S, s # {}, s \ {Choice(s)} \in C
      PROVE  s \in C
  <2>1. Choice(s) \in s
    BY <1>2 DEF Choice
  <2>2. Cardinality(Joined(g, s)) = Cardinality(g[Choice(s)]) + Cardinality(Joined(g, s \ {Choice(s)}))
    <3>1. Adds(g, s, Choice(s))
      BY <2>1, JoinedLess
    <3> QED
      BY <3>1 DEF Adds
  <2>3. it[s \ {Choice(s)}] = Cardinality(Joined(g, s \ {Choice(s)}))
    BY <1>2
  <2>4. it[s] = Cardinality(g[Choice(s)]) + it[s \ {Choice(s)}]
    BY <1>0, <1>2
  <2> QED
    BY <2>2, <2>3, <2>4
<1> HIDE DEF C
<1>3. \A s \in SUBSET S : s \in C
  BY <1>1, <1>2, SubsetInd
<1> QED
  BY <1>3 DEF C

-----------------------------------------------------------------------------
(* Types.                                                                  *)

LEMMA ResolveInScopes == TypeOK => Resolve \in Scopes
<1> SUFFICES ASSUME TypeOK PROVE Resolve \in Scopes
  OBVIOUS
<1>1. Resolve = index \cap Wanted
  BY DEF Resolve
<1> QED
  BY <1>1 DEF TypeOK, Scopes

LEMMA ManifestType ==
    ASSUME NEW in \in Scopes, NEW l, NEW s
    PROVE  Manifest(in, l, s) \in Assignments
<1>1. Inputs(in, l, s) \subseteq Objects
  BY ScopesOfObjects DEF Inputs
<1> QED
  BY <1>1 DEF Manifest, Assignments

LEMMA ResultType ==
    ASSUME NEW w \in Work
    PROVE  ResultOf(w) \in Result
BY DEF ResultOf, Work, Result

\* The directory of a shard with one of its files written.
LEMMA FilesUpdate ==
    ASSUME NEW f \in Files
    PROVE  /\ \A m \in Assignments \cup Unreadable : [f EXCEPT !.manifest = m] \in Files
           /\ \A r \in Result \cup Unreadable : [f EXCEPT !.result = r] \in Files
           /\ \A rows \in Rows \cup Unreadable : [f EXCEPT !.rows = rows] \in Files
BY DEF Files

LEMMA TypeInit == Init => TypeOK
<1> SUFFICES ASSUME Init PROVE TypeOK
  OBVIOUS
<1>1. [manifest |-> NoFile, result |-> NoFile, rows |-> NoFile] \in Files
  BY DEF Files, Unreadable
<1>2. dir \in [Shards -> Files]
  BY <1>1 DEF Init
<1>3. laid \in [Scopes -> SUBSET Layouts]
  BY DEF Init
<1>4. /\ staged \in [Shards -> Staging \cup {NoFile}]
      /\ worker \in [Shards -> Work \cup {Idle}]
  BY DEF Init
<1> QED
  BY <1>2, <1>3, <1>4, ShardAssumption DEF Init, TypeOK, Unreadable

LEMMA TypeStep == TypeOK /\ Staged /\ Fresh /\ [Next]_vars => TypeOK'
<1> SUFFICES ASSUME TypeOK, Staged, Fresh, [Next]_vars PROVE TypeOK'
  OBVIOUS
<1> USE ShardAssumption
<1>1. CASE Reindex
  BY <1>1 DEF Reindex, TypeOK
<1>2. ASSUME NEW layout \in Layouts, PlanShards(layout) PROVE TypeOK'
  <2>1. Resolve \in Scopes
    BY ResolveInScopes
  <2>2. 0 \in Shards
    BY DEF Shards
  <2>3. planner' \in [scope : Scopes, layout : Layouts, next : Shards, pc : {"plan", "create", "fill"}]
    BY <1>2, <2>1, <2>2 DEF PlanShards
  <2>4. laid' \in [Scopes -> SUBSET Layouts]
    BY <1>2, <2>1 DEF PlanShards, TypeOK
  <2> QED
    BY <1>2, <2>3, <2>4 DEF PlanShards, TypeOK, Unreadable
<1> DEFINE Planning == [scope : Scopes, layout : Layouts, next : Shards, pc : {"plan", "create", "fill"}]
<1>p. planner # Idle => planner \in Planning
  BY DEF TypeOK
<1>n. planner # Idle => planner.next + 1 = planner.layout.count \/ planner.next + 1 \in Shards
  BY <1>p DEF Fresh, Shards
<1>3. CASE WritePlan
  <2>1. planner' \in Planning
    BY <1>3, <1>p DEF WritePlan
  <2>2. plan' \in [scope : Scopes, count : 1 .. MaxShards]
    BY <1>3, <1>p DEF WritePlan
  <2> QED
    BY <1>3, <2>1, <2>2 DEF WritePlan, TypeOK
<1>4. CASE CreateManifest
  <2>1. planner' \in Planning
    BY <1>4, <1>p DEF CreateManifest
  <2>2. [dir[planner.next] EXCEPT !.manifest = Torn] \in Files
    BY <1>4, <1>p, FilesUpdate DEF CreateManifest, TypeOK, Unreadable
  <2>3. dir' \in [Shards -> Files]
    BY <1>4, <2>2 DEF CreateManifest, TypeOK
  <2> QED
    BY <1>4, <2>1, <2>3 DEF CreateManifest, TypeOK
<1>5. CASE WriteManifest
  <2>1. planner' \in Planning \cup {Idle}
    BY <1>5, <1>p, <1>n DEF WriteManifest
  <2>2. planned' \in [scope : Scopes, layout : Layouts] \cup {Idle}
    BY <1>5, <1>p DEF WriteManifest, TypeOK
  <2>3. Manifest(planner.scope, planner.layout, planner.next) \in Assignments
    BY <1>5, <1>p, ManifestType DEF WriteManifest
  <2>4. dir' \in [Shards -> Files]
    BY <1>5, <1>p, <2>3, FilesUpdate DEF WriteManifest, TypeOK
  <2> QED
    BY <1>5, <2>1, <2>2, <2>4 DEF WriteManifest, TypeOK
<1>6. CASE StopPlanner
  BY <1>6 DEF StopPlanner, TypeOK
<1>7. ASSUME NEW s \in Shards, Open(s) PROVE TypeOK'
  <2>1. dir[s].manifest \in Assignments
    BY <1>7 DEF Open, TypeOK, Files
  <2>2. PICK stage \in BOOLEAN, rows \in Rows \cup {NoRows}, status \in {"completed", "failed"} :
            worker' = [worker EXCEPT ![s] =
               [scope |-> dir[s].manifest.scope, inputs |-> dir[s].manifest.inputs,
                rows |-> rows, staged |-> stage, status |-> status, pc |-> "opened"]]
    BY <1>7 DEF Open
  <2>3. worker' \in [Shards -> Work \cup {Idle}]
    BY <2>1, <2>2 DEF TypeOK, Assignments, Work
  <2> QED
    BY <1>7, <2>3 DEF Open, TypeOK
<1>w. \A s \in Shards : worker[s] # Idle => worker[s] \in Work
  BY DEF TypeOK
<1>g. ASSUME NEW s \in Shards, NEW pc \in {"opened", "rows", "stagefill", "remove", "rename", "create", "fill"},
             worker[s] # Idle, GoTo(s, pc)
      PROVE  worker' \in [Shards -> Work \cup {Idle}]
  <2>1. [worker[s] EXCEPT !.pc = pc] \in Work
    BY <1>g, <1>w DEF Work
  <2> QED
    BY <1>g, <2>1 DEF GoTo, TypeOK
<1>8. ASSUME NEW s \in Shards, WriteRows(s) PROVE TypeOK'
  <2>1. worker[s] \in Work /\ worker' \in [Shards -> Work \cup {Idle}]
    BY <1>8, <1>w, <1>g DEF WriteRows, At
  <2>2. worker[s].rows \in Rows
    BY <1>8, <2>1 DEF WriteRows, At, Staged, Work
  <2>3. dir' \in [Shards -> Files]
    BY <1>8, <2>2, FilesUpdate DEF WriteRows, TypeOK
  <2> QED
    BY <1>8, <2>1, <2>3 DEF WriteRows, TypeOK
<1>9. ASSUME NEW s \in Shards, StageRows(s) PROVE TypeOK'
  <2>1. worker[s] \in Work /\ worker' \in [Shards -> Work \cup {Idle}]
    BY <1>9, <1>w, <1>g DEF StageRows, At
  <2> DEFINE left == IF staged[s] = NoFile THEN [result |-> NoFile, rows |-> NoFile] ELSE staged[s]
  <2>2. left \in Staging
    <3>1. [result |-> NoFile, rows |-> NoFile] \in Staging
      BY DEF Staging, Unreadable
    <3>2. staged[s] # NoFile => staged[s] \in Staging
      BY DEF TypeOK
    <3> QED
      BY <3>1, <3>2
  <2>3. (IF worker[s].rows = NoRows THEN left ELSE [left EXCEPT !.rows = Torn]) \in Staging
    BY <2>2 DEF Staging, Unreadable
  <2>4. staged' \in [Shards -> Staging \cup {NoFile}]
    BY <1>9, <2>3 DEF StageRows, TypeOK
  <2> QED
    BY <1>9, <2>1, <2>4 DEF StageRows, TypeOK
<1>10. ASSUME NEW s \in Shards, StageResult(s) PROVE TypeOK'
  <2>1. worker[s] \in Work /\ worker' \in [Shards -> Work \cup {Idle}]
    BY <1>10, <1>w, <1>g DEF StageResult, At
  <2>2. staged[s] \in Staging
    BY <1>10 DEF StageResult, At, Staged, TypeOK
  <2>3. [result |-> Torn, rows |-> IF worker[s].rows = NoRows THEN staged[s].rows ELSE worker[s].rows]
            \in Staging
    BY <2>1, <2>2 DEF Staging, Work, Unreadable
  <2>4. staged' \in [Shards -> Staging \cup {NoFile}]
    BY <1>10, <2>3 DEF StageResult, TypeOK
  <2> QED
    BY <1>10, <2>1, <2>4 DEF StageResult, TypeOK
<1>17. ASSUME NEW s \in Shards, FillStaged(s) PROVE TypeOK'
  <2>1. worker[s] \in Work /\ worker' \in [Shards -> Work \cup {Idle}]
    BY <1>17, <1>w, <1>g DEF FillStaged, At
  <2>2. staged[s] \in Staging
    BY <1>17 DEF FillStaged, At, Staged, TypeOK
  <2>3. [staged[s] EXCEPT !.result = ResultOf(worker[s])] \in Staging
    BY <2>1, <2>2, ResultType DEF Staging
  <2>4. staged' \in [Shards -> Staging \cup {NoFile}]
    BY <1>17, <2>3 DEF FillStaged, TypeOK
  <2> QED
    BY <1>17, <2>1, <2>4 DEF FillStaged, TypeOK
<1>11. ASSUME NEW s \in Shards, RemoveFinal(s) PROVE TypeOK'
  <2>1. worker' \in [Shards -> Work \cup {Idle}]
    BY <1>11, <1>g DEF RemoveFinal, At, TypeOK
  <2>2. dir[s] \in Files
    BY DEF TypeOK
  <2>3. PICK left \in {[dir[s] EXCEPT !.manifest = NoFile], [dir[s] EXCEPT !.result = NoFile],
                        [dir[s] EXCEPT !.rows = NoFile], dir[s]} :
            dir' = [dir EXCEPT ![s] = left]
    BY <1>11 DEF RemoveFinal
  <2>4. left \in Files
    BY <2>2 DEF Files, Unreadable
  <2>5. dir' \in [Shards -> Files]
    BY <2>3, <2>4 DEF TypeOK
  <2> QED
    BY <1>11, <2>1, <2>5 DEF RemoveFinal, TypeOK
<1>12. ASSUME NEW s \in Shards, Rename(s) PROVE TypeOK'
  <2>1. worker' \in [Shards -> Work \cup {Idle}]
    BY <1>12, <1>g DEF Rename, At
  <2>2. staged[s] \in Staging
    BY <1>12 DEF Rename, At, Staged, Whole, TypeOK
  <2>3. dir' \in [Shards -> Files]
    BY <1>12, <2>2 DEF Rename, TypeOK, Files, Unreadable, Staging
  <2> QED
    BY <1>12, <2>1, <2>3 DEF Rename, TypeOK
<1>13. ASSUME NEW s \in Shards, RenameFails(s) PROVE TypeOK'
  BY <1>13 DEF RenameFails, TypeOK
<1>14. ASSUME NEW s \in Shards, CreateResult(s) PROVE TypeOK'
  <2>1. worker' \in [Shards -> Work \cup {Idle}]
    BY <1>14, <1>g DEF CreateResult, At
  <2>2. dir' \in [Shards -> Files]
    BY <1>14 DEF CreateResult, TypeOK, Files, Unreadable
  <2> QED
    BY <1>14, <2>1, <2>2 DEF CreateResult, TypeOK
<1>15. ASSUME NEW s \in Shards, WriteResult(s) PROVE TypeOK'
  <2>1. ResultOf(worker[s]) \in Result
    BY <1>15, <1>w, ResultType DEF WriteResult, At
  <2>2. dir' \in [Shards -> Files]
    BY <1>15, <2>1, FilesUpdate DEF WriteResult, TypeOK
  <2> QED
    BY <1>15, <2>2 DEF WriteResult, TypeOK
<1>16. ASSUME NEW s \in Shards, StopWorker(s) PROVE TypeOK'
  BY <1>16 DEF StopWorker, TypeOK
<1>18. CASE UNCHANGED vars
  BY <1>18 DEF vars, TypeOK
<1> QED
  BY <1>1, <1>2, <1>3, <1>4, <1>5, <1>6, <1>7, <1>8, <1>9, <1>10, <1>11, <1>12, <1>13, <1>14, <1>15,
     <1>16, <1>17, <1>18 DEF Next

-----------------------------------------------------------------------------
(* The inputs a file has.                                                  *)

LEMMA LaidInit == Init => Laid
BY DEF Init, Laid, Whole, HasManifest, HasResult, Unreadable

\* What was lawful stays so, since layouts are only added.
LEMMA LawfulStays ==
    ASSUME TypeOK, [Next]_vars, NEW s, NEW f, f.scope \in Scopes, Lawful(s, f)
    PROVE  \E l \in laid'[f.scope] : f.inputs = Inputs(f.scope, l, s)
<1>1. laid[f.scope] \subseteq laid'[f.scope]
  <2>1. ASSUME NEW layout \in Layouts, PlanShards(layout) PROVE laid[f.scope] \subseteq laid'[f.scope]
    BY <2>1, ResolveInScopes DEF PlanShards, TypeOK
  <2>2. laid' = laid \/ \E layout \in Layouts : PlanShards(layout)
    BY DEF Next, vars, Reindex, WritePlan, CreateManifest, WriteManifest, StopPlanner, Open, WriteRows,
           StageRows, StageResult, FillStaged, RemoveFinal, Rename, RenameFails, CreateResult, WriteResult, StopWorker
  <2> QED
    BY <2>1, <2>2
<1> QED
  BY <1>1 DEF Lawful

\* Where what is found in the files and the processes after a step was before.
LEMMA Origins ==
    ASSUME TypeOK, Staged, [Next]_vars, NEW s \in Shards
    PROVE  /\ \/ dir'[s].manifest \in {dir[s].manifest, NoFile, Torn}
              \/ /\ planner # Idle
                 /\ dir'[s].manifest = Manifest(planner.scope, planner.layout, s)
           /\ \/ dir'[s].result \in {dir[s].result, NoFile, Torn}
              \/ worker[s] # Idle /\ dir'[s].result = ResultOf(worker[s])
              \/ Whole(s) /\ dir'[s].result = staged[s].result
           /\ \/ staged'[s] = NoFile
              \/ staged'[s].result \in Unreadable
              \/ staged[s] # NoFile /\ staged'[s].result = staged[s].result
              \/ worker[s] # Idle /\ staged'[s].result = ResultOf(worker[s])
           /\ \/ worker'[s] = Idle
              \/ /\ worker[s] # Idle
                 /\ worker'[s].scope = worker[s].scope /\ worker'[s].inputs = worker[s].inputs
              \/ /\ HasManifest(s)
                 /\ worker'[s].scope = dir[s].manifest.scope
                 /\ worker'[s].inputs = dir[s].manifest.inputs
<1> DEFINE Orig == /\ \/ dir'[s].manifest \in {dir[s].manifest, NoFile, Torn}
                      \/ /\ planner # Idle
                         /\ dir'[s].manifest = Manifest(planner.scope, planner.layout, s)
                   /\ \/ dir'[s].result \in {dir[s].result, NoFile, Torn}
                      \/ worker[s] # Idle /\ dir'[s].result = ResultOf(worker[s])
                      \/ Whole(s) /\ dir'[s].result = staged[s].result
           OrigStaged == \/ staged'[s] = NoFile
                         \/ staged'[s].result \in Unreadable
                         \/ staged[s] # NoFile /\ staged'[s].result = staged[s].result
                         \/ worker[s] # Idle /\ staged'[s].result = ResultOf(worker[s])
           OrigWorker == \/ worker'[s] = Idle
                         \/ /\ worker[s] # Idle
                            /\ worker'[s].scope = worker[s].scope /\ worker'[s].inputs = worker[s].inputs
                         \/ /\ HasManifest(s)
                            /\ worker'[s].scope = dir[s].manifest.scope
                            /\ worker'[s].inputs = dir[s].manifest.inputs
           Orig3 == Orig /\ OrigStaged /\ OrigWorker
<1>d. /\ dir \in [Shards -> Files] /\ worker \in [Shards -> Work \cup {Idle}]
      /\ staged \in [Shards -> Staging \cup {NoFile}]
      /\ \A t \in Shards : worker[t] # Idle => worker[t] \in Work
      /\ \A t \in Shards : staged[t] # NoFile => staged[t] \in Staging
  BY DEF TypeOK
<1>s. dir' = dir => Orig
  OBVIOUS
<1>t. staged' = staged => OrigStaged
  OBVIOUS
<1>u. worker' = worker => OrigWorker
  OBVIOUS
<1>g. ASSUME NEW t \in Shards, NEW pc, At(t, pc), NEW q, GoTo(t, q) PROVE OrigWorker
  BY <1>g, <1>d DEF At, GoTo, Work
<1>i. ASSUME NEW t \in Shards, worker' = [worker EXCEPT ![t] = Idle] PROVE OrigWorker
  BY <1>i, <1>d
<1>1. CASE dir' = dir /\ staged' = staged /\ worker' = worker
  BY <1>1, <1>s, <1>t, <1>u
<1>2. CASE Reindex \/ WritePlan \/ StopPlanner \/ (\E layout \in Layouts : PlanShards(layout)) \/ UNCHANGED vars
  BY <1>2, <1>1 DEF Reindex, WritePlan, StopPlanner, PlanShards, vars
<1>3. CASE CreateManifest
  BY <1>3, <1>d, <1>t, <1>u DEF CreateManifest, Files
<1>4. CASE WriteManifest
  BY <1>4, <1>d, <1>t, <1>u DEF WriteManifest, Files
<1>5. ASSUME NEW t \in Shards, Open(t) PROVE Orig3
  <2>1. OrigWorker
    BY <1>5, <1>d DEF Open, HasManifest
  <2> QED
    BY <1>5, <2>1, <1>s, <1>t DEF Open
<1>6. ASSUME NEW t \in Shards, WriteRows(t) PROVE Orig3
  BY <1>6, <1>d, <1>g, <1>t DEF WriteRows, Files
<1>7. ASSUME NEW t \in Shards, StageRows(t) PROVE Orig3
  <2> DEFINE left == IF staged[t] = NoFile THEN [result |-> NoFile, rows |-> NoFile] ELSE staged[t]
             new  == IF worker[t].rows = NoRows THEN left ELSE [left EXCEPT !.rows = Torn]
  <2>1. new.result = left.result
    BY <1>d DEF Staging
  <2>2. staged' = [staged EXCEPT ![t] = new]
    BY <1>7 DEF StageRows
  <2>3. OrigStaged
    <3>1. left.result = IF staged[t] = NoFile THEN NoFile ELSE staged[t].result
      OBVIOUS
    <3> HIDE DEF new, left
    <3> QED
      BY <2>1, <2>2, <3>1, <1>d DEF Unreadable
  <2> QED
    BY <1>7, <2>3, <1>g, <1>s DEF StageRows
<1>8. ASSUME NEW t \in Shards, StageResult(t) PROVE Orig3
  <2>1. staged[t] \in Staging /\ worker[t] # Idle
    BY <1>8, <1>d DEF StageResult, At, Staged
  <2>2. OrigStaged
    BY <1>8, <2>1, <1>d DEF StageResult, Unreadable
  <2> QED
    BY <1>8, <2>2, <1>g, <1>s DEF StageResult
<1>15. ASSUME NEW t \in Shards, FillStaged(t) PROVE Orig3
  <2>1. staged[t] \in Staging /\ worker[t] # Idle
    BY <1>15, <1>d DEF FillStaged, At, Staged
  <2>2. OrigStaged
    BY <1>15, <2>1, <1>d DEF FillStaged, Staging
  <2> QED
    BY <1>15, <2>2, <1>g, <1>s DEF FillStaged
<1>9. ASSUME NEW t \in Shards, RemoveFinal(t) PROVE Orig3
  <2>1. PICK left \in {[dir[t] EXCEPT !.manifest = NoFile], [dir[t] EXCEPT !.result = NoFile],
                        [dir[t] EXCEPT !.rows = NoFile], dir[t]} :
            dir' = [dir EXCEPT ![t] = left]
    BY <1>9 DEF RemoveFinal
  <2>2. /\ left.manifest \in {dir[t].manifest, NoFile}
        /\ left.result \in {dir[t].result, NoFile}
    BY <1>d DEF Files
  <2>3. Orig
    BY <2>1, <2>2, <1>d
  <2>4. OrigWorker
    BY <1>9, <1>g, <1>u DEF RemoveFinal
  <2> QED
    BY <1>9, <2>3, <2>4, <1>t DEF RemoveFinal
<1>10. ASSUME NEW t \in Shards, Rename(t) PROVE Orig3
  <2>1. Whole(t)
    BY <1>10 DEF Rename, At, Staged
  <2>2. Orig
    BY <1>10, <2>1, <1>d DEF Rename
  <2>3. OrigStaged
    BY <1>10, <1>d DEF Rename
  <2> QED
    BY <1>10, <2>2, <2>3, <1>g DEF Rename
<1>11. ASSUME NEW t \in Shards, RenameFails(t) PROVE Orig3
  BY <1>11, <1>i, <1>s, <1>t DEF RenameFails
<1>12. ASSUME NEW t \in Shards, CreateResult(t) PROVE Orig3
  BY <1>12, <1>d, <1>g, <1>t DEF CreateResult, Files
<1>13. ASSUME NEW t \in Shards, WriteResult(t) PROVE Orig3
  <2>1. Orig
    BY <1>13, <1>d DEF WriteResult, Files, At
  <2> QED
    BY <1>13, <2>1, <1>i, <1>t DEF WriteResult
<1>14. ASSUME NEW t \in Shards, StopWorker(t) PROVE Orig3
  BY <1>14, <1>i, <1>s, <1>t DEF StopWorker
<1> QED
  BY <1>2, <1>3, <1>4, <1>5, <1>6, <1>7, <1>8, <1>9, <1>10, <1>11, <1>12, <1>13, <1>14, <1>15 DEF Next

LEMMA LaidStep == TypeOK /\ Staged /\ Laid /\ [Next]_vars => Laid'
<1> SUFFICES ASSUME TypeOK, Staged, Laid, [Next]_vars PROVE Laid'
  OBVIOUS
<1> DEFINE Stays(s, f) == \E l \in laid'[f.scope] : f.inputs = Inputs(f.scope, l, s)
<1>1. ASSUME NEW s \in Shards
      PROVE  /\ HasManifest(s) => dir[s].manifest \in Assignments /\ Stays(s, dir[s].manifest)
             /\ HasResult(s) => Stays(s, dir[s].result)
             /\ Whole(s) => Stays(s, staged[s].result)
             /\ worker[s] # Idle => Stays(s, worker[s])
  <2>1. HasManifest(s) => dir[s].manifest \in Assignments
    BY DEF TypeOK, Files, HasManifest
  <2>2. HasResult(s) => dir[s].result \in Result
    BY DEF TypeOK, Files, HasResult
  <2>3. Whole(s) => staged[s].result \in Result
    BY DEF TypeOK, Staging, Whole
  <2>4. worker[s] # Idle => worker[s] \in Work
    BY DEF TypeOK
  <2>5. HasManifest(s) => Stays(s, dir[s].manifest)
    BY <2>1, LawfulStays DEF Laid, Assignments
  <2>6. HasResult(s) => Stays(s, dir[s].result)
    BY <2>2, LawfulStays DEF Laid, Result
  <2>7. Whole(s) => Stays(s, staged[s].result)
    BY <2>3, LawfulStays DEF Laid, Result
  <2>8. worker[s] # Idle => Stays(s, worker[s])
    BY <2>4, LawfulStays DEF Laid, Work
  <2> QED
    BY <2>1, <2>5, <2>6, <2>7, <2>8
<1>2. \A in \in Scopes : laid[in] \subseteq laid'[in]
  <2>1. ASSUME NEW layout \in Layouts, PlanShards(layout) PROVE \A in \in Scopes : laid[in] \subseteq laid'[in]
    BY <2>1, ResolveInScopes DEF PlanShards, TypeOK
  <2>2. laid' = laid \/ \E layout \in Layouts : PlanShards(layout)
    BY DEF Next, vars, Reindex, WritePlan, CreateManifest, WriteManifest, StopPlanner, Open, WriteRows,
           StageRows, StageResult, FillStaged, RemoveFinal, Rename, RenameFails, CreateResult, WriteResult, StopWorker
  <2> QED
    BY <2>1, <2>2
<1>3. planner # Idle => planner.scope \in Scopes /\ planner.layout \in laid'[planner.scope]
  BY <1>2 DEF Laid, TypeOK
<1>4. ASSUME NEW s \in Shards, planner # Idle
      PROVE  Stays(s, Manifest(planner.scope, planner.layout, s))
  BY <1>3, <1>4 DEF Manifest
<1>5. ASSUME NEW s \in Shards, worker[s] # Idle PROVE Stays(s, ResultOf(worker[s]))
  BY <1>1, <1>5 DEF ResultOf
<1>6. ASSUME NEW s \in Shards
      PROVE  /\ HasManifest(s)' => Stays(s, dir'[s].manifest)
             /\ HasResult(s)' => Stays(s, dir'[s].result)
             /\ Whole(s)' => Stays(s, staged'[s].result)
             /\ worker'[s] # Idle => Stays(s, worker'[s])
  <2>1. HasManifest(s)' => Stays(s, dir'[s].manifest)
    BY <1>1, <1>4, Origins DEF HasManifest, Unreadable
  <2>2. HasResult(s)' => Stays(s, dir'[s].result)
    BY <1>1, <1>5, Origins DEF HasResult, Unreadable
  <2>3. Whole(s)' => Stays(s, staged'[s].result)
    BY <1>1, <1>5, Origins DEF Whole
  <2>4. worker'[s] # Idle => Stays(s, worker'[s])
    BY <1>1, Origins
  <2> QED
    BY <2>1, <2>2, <2>3, <2>4
<1>7. planner' # Idle => planner'.layout \in laid'[planner'.scope]
  <2>1. ASSUME NEW layout \in Layouts, PlanShards(layout) PROVE planner'.layout \in laid'[planner'.scope]
    BY <2>1, ResolveInScopes DEF PlanShards, TypeOK
  <2>2. CASE WritePlan \/ CreateManifest \/ WriteManifest
    BY <2>2, <1>3 DEF WritePlan, CreateManifest, WriteManifest, TypeOK
  <2>3. \/ planner' = planner \/ planner' = Idle
        \/ WritePlan \/ CreateManifest \/ WriteManifest \/ \E layout \in Layouts : PlanShards(layout)
    BY DEF Next, vars, Reindex, StopPlanner, Open, WriteRows,
           StageRows, StageResult, FillStaged, RemoveFinal, Rename, RenameFails, CreateResult, WriteResult, StopWorker
  <2> QED
    BY <2>1, <2>2, <2>3, <1>3
<1>8. plan' \notin Unreadable => \E l \in laid'[plan'.scope] : plan'.count = l.count
  <2>1. plan \notin Unreadable => plan.scope \in Scopes /\ \E l \in laid'[plan.scope] : plan.count = l.count
    BY <1>2 DEF Laid, TypeOK
  <2>2. CASE WritePlan
    BY <2>2, <1>3 DEF WritePlan
  <2>3. plan' = plan \/ plan' = Torn \/ WritePlan
    BY DEF Next, vars, Reindex, PlanShards, CreateManifest, WriteManifest, StopPlanner, Open, WriteRows,
           StageRows, StageResult, FillStaged, RemoveFinal, Rename, RenameFails, CreateResult, WriteResult, StopWorker
  <2> QED
    BY <2>1, <2>2, <2>3 DEF Unreadable
<1> QED
  BY <1>6, <1>7, <1>8 DEF Laid, Lawful, Unreadable

-----------------------------------------------------------------------------
(* What commit has staged.                                                 *)

LEMMA StagedInit == Init => Staged /\ ResultSurvives
BY DEF Init, Staged, ResultSurvives

\* A shard is reported when its result is there.
LEMMA TypeStepReported == TypeOK /\ [Next]_vars => reported' \subseteq Shards
BY DEF TypeOK, Next, vars, Reindex, PlanShards, WritePlan, CreateManifest, WriteManifest, StopPlanner,
       Open, WriteRows, StageRows, StageResult, FillStaged, RemoveFinal, Rename, RenameFails, CreateResult,
       WriteResult, StopWorker

\* Of the shard that takes a step, and of the others.
LEMMA StagedStep == TypeOK /\ Staged /\ ResultSurvives /\ [Next]_vars => Staged' /\ ResultSurvives'
<1> SUFFICES ASSUME TypeOK, Staged, ResultSurvives, [Next]_vars PROVE Staged' /\ ResultSurvives'
  OBVIOUS
<1> DEFINE StagedOk(s) == worker[s] # Idle =>
               /\ ~worker[s].staged => worker[s].rows # NoRows
               /\ worker[s].pc \in {"rows", "stagefill"} => staged[s] # NoFile
               /\ worker[s].pc \in {"remove", "rename"} => Whole(s)
           Survives(s) == s \in reported \ cut =>
               HasResult(s) \/ Whole(s) \/ At(s, "fill") \/ At(s, "stagefill")
           Good == \A s \in Shards : StagedOk(s) /\ Survives(s)
<1>0. \A s \in Shards : StagedOk(s) /\ Survives(s)
  BY DEF Staged, ResultSurvives, Whole
<1>d. /\ dir \in [Shards -> Files] /\ worker \in [Shards -> Work \cup {Idle}]
      /\ staged \in [Shards -> Staging \cup {NoFile}]
      /\ \A t \in Shards : worker[t] # Idle => worker[t] \in Work
      /\ \A t \in Shards : staged[t] # NoFile => staged[t] \in Staging
      /\ \A t \in Shards : dir[t] \in Files
  BY DEF TypeOK
<1>r. \A s \in Shards : worker[s] # Idle => ResultOf(worker[s]) \notin Unreadable
  BY <1>d, ResultType, NoFileAssumption
<1>z. Good' => Staged' /\ ResultSurvives'
  <2>1. reported' \subseteq Shards
    BY TypeStepReported
  <2> QED
    BY <2>1 DEF Staged, ResultSurvives, Whole
\* The shard s steps, to what is good; the others keep what they have.
<1>k. ASSUME NEW s \in Shards, StagedOk(s)' /\ Survives(s)',
             \A t \in Shards \ {s} : /\ worker'[t] = worker[t] /\ staged'[t] = staged[t]
                                     /\ dir'[t].result = dir[t].result,
             reported' \subseteq reported \cup {s}, cut \ {s} \subseteq cut'
      PROVE  Good'
  <2> SUFFICES ASSUME NEW t \in Shards \ {s} PROVE StagedOk(t)' /\ Survives(t)'
    BY <1>k
  <2>1. worker'[t] = worker[t] /\ staged'[t] = staged[t] /\ dir'[t].result = dir[t].result
    BY <1>k
  <2>2. t \in reported' \ cut' => t \in reported \ cut
    BY <1>k
  <2> QED
    BY <2>1, <2>2, <1>0 DEF Whole, HasResult, At
<1>1. CASE UNCHANGED <<staged, worker, reported, cut>> /\ \A s \in Shards : dir'[s].result = dir[s].result
  <2> SUFFICES ASSUME NEW t \in Shards PROVE StagedOk(t)' /\ Survives(t)'
    BY <1>z
  <2> QED
    BY <1>1, <1>0 DEF Whole, HasResult, At
<1>2. CASE Reindex \/ WritePlan \/ StopPlanner \/ (\E layout \in Layouts : PlanShards(layout)) \/ UNCHANGED vars
  BY <1>2, <1>1 DEF Reindex, WritePlan, StopPlanner, PlanShards, vars
<1>3. CASE CreateManifest \/ WriteManifest
  BY <1>3, <1>1, <1>d DEF CreateManifest, WriteManifest, Files
<1>4. ASSUME NEW s \in Shards, Open(s) PROVE Good'
  <2>1. PICK stage \in BOOLEAN, rows \in Rows \cup {NoRows}, status \in {"completed", "failed"} :
            /\ ~stage => rows \in Rows
            /\ worker' = [worker EXCEPT ![s] =
               [scope |-> dir[s].manifest.scope, inputs |-> dir[s].manifest.inputs,
                rows |-> rows, staged |-> stage, status |-> status, pc |-> "opened"]]
    BY <1>4 DEF Open
  <2>2. /\ worker'[s].pc = "opened" /\ worker'[s].staged = stage /\ worker'[s].rows = rows
        /\ ~stage => rows # NoRows
    BY <2>1, <1>d, ShardAssumption
  <2>3. staged' = staged /\ dir' = dir /\ reported' = reported /\ cut' = cut /\ worker[s] = Idle
    BY <1>4 DEF Open
  <2>4. StagedOk(s)' /\ Survives(s)'
    BY <2>2, <2>3, <1>0 DEF HasResult, Whole, At
  <2> QED
    BY <2>1, <2>3, <2>4, <1>k
<1>g. ASSUME NEW s \in Shards, NEW pc \in {"opened", "rows", "stagefill", "remove", "rename", "create", "fill"},
             worker[s] # Idle, GoTo(s, pc)
      PROVE  /\ worker'[s].pc = pc /\ worker'[s].staged = worker[s].staged
             /\ worker'[s].rows = worker[s].rows
             /\ worker'[s] # Idle
             /\ \A t \in Shards \ {s} : worker'[t] = worker[t]
  <2>1. worker[s] \in Work /\ worker' = [worker EXCEPT ![s].pc = pc]
    BY <1>g, <1>d DEF GoTo
  <2>2. worker'[s] = [worker[s] EXCEPT !.pc = pc]
    BY <2>1, <1>d
  <2>3. worker'[s] \in Work
    BY <2>1, <2>2 DEF Work
  <2>4. worker'[s] # Idle
    BY <2>3, NoFileAssumption
  <2> QED
    BY <2>1, <2>2, <2>4, <1>d DEF Work
<1>5. ASSUME NEW s \in Shards, WriteRows(s) PROVE Good'
  <2>1. At(s, "opened") /\ GoTo(s, "create") /\ UNCHANGED <<staged, reported, cut>>
    BY <1>5 DEF WriteRows
  <2>2. \A t \in Shards : dir'[t].result = dir[t].result
    BY <1>5, <1>d DEF WriteRows, Files
  <2>3. StagedOk(s)' /\ Survives(s)'
    BY <2>1, <2>2, <1>g, <1>0 DEF HasResult, Whole, At
  <2> QED
    BY <2>1, <2>2, <2>3, <1>g, <1>k DEF At
<1>6. ASSUME NEW s \in Shards, StageRows(s) PROVE Good'
  <2> DEFINE left == IF staged[s] = NoFile THEN [result |-> NoFile, rows |-> NoFile] ELSE staged[s]
             new  == IF worker[s].rows = NoRows THEN left ELSE [left EXCEPT !.rows = Torn]
  <2>1. left \in Staging
    <3>1. [result |-> NoFile, rows |-> NoFile] \in Staging
      BY DEF Staging, Unreadable
    <3> QED
      BY <3>1, <1>d
  <2>2. new \in Staging /\ new.result = left.result
    BY <2>1 DEF Staging, Unreadable
  <2>3. new # NoFile
    BY <2>2, NoFileAssumption
  <2>4. staged' = [staged EXCEPT ![s] = new]
    BY <1>6 DEF StageRows
  <2>5. staged[s] # NoFile => new.result = staged[s].result
    BY <2>2
  <2>6. At(s, "opened") /\ GoTo(s, "rows") /\ UNCHANGED <<dir, reported, cut>>
    BY <1>6 DEF StageRows
  <2> HIDE DEF new
  <2>7. staged'[s] = new /\ \A t \in Shards \ {s} : staged'[t] = staged[t]
    BY <2>4, <1>d
  <2>8. StagedOk(s)' /\ Survives(s)'
    BY <2>3, <2>5, <2>6, <2>7, <1>g, <1>0 DEF HasResult, Whole, At
  <2> QED
    BY <2>6, <2>7, <2>8, <1>g, <1>k DEF At
<1>7. ASSUME NEW s \in Shards, StageResult(s) PROVE Good'
  <2> DEFINE new == [result |-> Torn,
                     rows |-> IF worker[s].rows = NoRows THEN staged[s].rows ELSE worker[s].rows]
  <2>1. At(s, "rows") /\ GoTo(s, "stagefill") /\ UNCHANGED <<dir, reported, cut>>
    BY <1>7 DEF StageResult
  <2>2. worker[s] # Idle /\ staged[s] \in Staging /\ worker[s] \in Work
    BY <2>1, <1>0, <1>d DEF At
  <2>3. new \in Staging
    BY <2>2 DEF Staging, Work, Unreadable
  <2>4. new # NoFile
    BY <2>3, NoFileAssumption
  <2>5. staged' = [staged EXCEPT ![s] = new]
    BY <1>7 DEF StageResult
  <2> HIDE DEF new
  <2>6. staged'[s] = new /\ \A t \in Shards \ {s} : staged'[t] = staged[t]
    BY <2>5, <1>d
  <2>7. StagedOk(s)' /\ Survives(s)'
    BY <2>1, <2>2, <2>4, <2>6, <1>g, <1>0 DEF At
  <2> QED
    BY <2>1, <2>2, <2>6, <2>7, <1>g, <1>k
<1>8. ASSUME NEW s \in Shards, FillStaged(s) PROVE Good'
  <2> DEFINE new == [staged[s] EXCEPT !.result = ResultOf(worker[s])]
  <2>1. At(s, "stagefill") /\ GoTo(s, "remove") /\ UNCHANGED <<dir, reported>> /\ cut' = cut \ {s}
    BY <1>8 DEF FillStaged
  <2>2. worker[s] # Idle /\ staged[s] \in Staging
    BY <2>1, <1>0, <1>d DEF At
  <2>3. new \in Staging /\ new.result = ResultOf(worker[s])
    BY <2>2, <1>d, ResultType DEF Staging
  <2>4. new # NoFile /\ new.result \notin Unreadable
    BY <2>2, <2>3, <1>r, NoFileAssumption
  <2>5. staged' = [staged EXCEPT ![s] = new]
    BY <1>8 DEF FillStaged
  <2> HIDE DEF new
  <2>6. staged'[s] = new /\ \A t \in Shards \ {s} : staged'[t] = staged[t]
    BY <2>5, <1>d
  <2>7. StagedOk(s)' /\ Survives(s)'
    BY <2>1, <2>2, <2>4, <2>6, <1>g, <1>0 DEF Whole
  <2> QED
    BY <2>1, <2>2, <2>6, <2>7, <1>g, <1>k
<1>9. ASSUME NEW s \in Shards, RemoveFinal(s) PROVE Good'
  <2>1. Whole(s) /\ worker[s] # Idle /\ UNCHANGED <<staged, reported, cut>>
    BY <1>9, <1>0 DEF RemoveFinal, At
  <2>2. worker' = worker \/ GoTo(s, "rename")
    BY <1>9 DEF RemoveFinal
  <2>3. \A t \in Shards \ {s} : dir'[t] = dir[t] /\ worker'[t] = worker[t]
    BY <1>9, <2>1, <2>2, <1>d, <1>g DEF RemoveFinal
  <2>4. StagedOk(s)' /\ Survives(s)'
    BY <2>1, <2>2, <1>g, <1>0 DEF Whole
  <2> QED
    BY <2>1, <2>3, <2>4, <1>k
<1>10. ASSUME NEW s \in Shards, Rename(s) PROVE Good'
  <2>1. At(s, "rename") /\ Whole(s) /\ GoTo(s, "create") /\ reported' = reported \cup {s} /\ cut' = cut
    BY <1>10, <1>0 DEF Rename, At
  <2>2. \A t \in Shards \ {s} : dir'[t] = dir[t] /\ staged'[t] = staged[t]
    BY <1>10, <1>d DEF Rename
  <2>3. dir'[s].result = staged[s].result
    BY <1>10, <1>d DEF Rename
  <2>4. StagedOk(s)' /\ Survives(s)'
    BY <2>1, <2>3, <1>g, <1>0 DEF Whole, HasResult, At
  <2> QED
    BY <2>1, <2>2, <2>4, <1>g, <1>k DEF At
<1>11. ASSUME NEW s \in Shards, RenameFails(s) PROVE Good'
  <2>1. /\ worker[s].pc = "rename" /\ Whole(s) /\ worker'[s] = Idle
        /\ \A t \in Shards \ {s} : worker'[t] = worker[t]
        /\ UNCHANGED <<dir, staged, reported, cut>>
    BY <1>11, <1>0, <1>d DEF RenameFails, At
  <2>2. StagedOk(s)' /\ Survives(s)'
    BY <2>1 DEF Whole
  <2> QED
    BY <2>1, <2>2, <1>k
<1>12. ASSUME NEW s \in Shards, CreateResult(s) PROVE Good'
  <2>1. At(s, "create") /\ GoTo(s, "fill") /\ UNCHANGED <<staged, reported, cut>>
    BY <1>12 DEF CreateResult
  <2>2. \A t \in Shards \ {s} : dir'[t] = dir[t]
    BY <1>12, <1>d DEF CreateResult
  <2>3. StagedOk(s)' /\ Survives(s)'
    BY <2>1, <1>g, <1>0 DEF At
  <2> QED
    BY <2>1, <2>2, <2>3, <1>g, <1>k DEF At
<1>13. ASSUME NEW s \in Shards, WriteResult(s) PROVE Good'
  <2>1. \A t \in Shards \ {s} : dir'[t] = dir[t] /\ worker'[t] = worker[t]
    BY <1>13, <1>d DEF WriteResult
  <2>2. dir'[s].result = ResultOf(worker[s]) /\ worker'[s] = Idle /\ worker[s] # Idle
    BY <1>13, <1>d DEF WriteResult, At, Files
  <2>3. staged' = staged /\ reported' = reported \cup {s} /\ cut' = cut \ {s}
    BY <1>13 DEF WriteResult
  <2>4. StagedOk(s)' /\ Survives(s)'
    BY <2>2, <1>r DEF HasResult
  <2> QED
    BY <2>1, <2>3, <2>4, <1>k
<1>14. ASSUME NEW s \in Shards, StopWorker(s) PROVE Good'
  <2>1. /\ worker[s] # Idle /\ worker'[s] = Idle
        /\ \A t \in Shards \ {s} : worker'[t] = worker[t]
        /\ UNCHANGED <<dir, staged, reported>>
        /\ cut' = IF worker[s].pc \in {"stagefill", "fill"} THEN cut \cup {s} ELSE cut
    BY <1>14, <1>d DEF StopWorker
  <2>2. StagedOk(s)'
    BY <2>1
  <2>3. Survives(s)'
    <3>1. CASE worker[s].pc \in {"stagefill", "fill"}
      BY <2>1, <3>1
    <3>2. CASE worker[s].pc \notin {"stagefill", "fill"}
      BY <2>1, <3>2, <1>0 DEF HasResult, Whole, At
    <3> QED
      BY <3>1, <3>2
  <2> QED
    BY <2>1, <2>2, <2>3, <1>k
<1> QED
  BY <1>2, <1>3, <1>4, <1>5, <1>6, <1>7, <1>8, <1>9, <1>10, <1>11, <1>12, <1>13, <1>14, <1>z DEF Next

-----------------------------------------------------------------------------
(* What plan-shards has written.                                           *)

LEMMA FreshInit == Init => Fresh
BY DEF Init, Fresh

\* A worker does no more to a manifest than to remove it.
LEMMA FreshKept ==
    ASSUME Fresh, UNCHANGED <<plan, planner, planned>>,
           \A s \in Shards : dir'[s].manifest \in {dir[s].manifest, NoFile}
    PROVE  Fresh'
BY DEF Fresh, WrittenTo

LEMMA FreshStep == TypeOK /\ Fresh /\ [Next]_vars => Fresh'
<1> SUFFICES ASSUME TypeOK, Fresh, [Next]_vars PROVE Fresh'
  OBVIOUS
<1> DEFINE Planning == [scope : Scopes, layout : Layouts, next : Shards, pc : {"plan", "create", "fill"}]
<1>d. /\ dir \in [Shards -> Files]
      /\ planner # Idle => planner \in Planning /\ planner.layout.count \in 1 .. MaxShards
      /\ staged \in [Shards -> Staging \cup {NoFile}]
  BY ShardAssumption DEF TypeOK
<1>1. CASE Reindex \/ UNCHANGED vars
  BY <1>1, FreshKept DEF Reindex, vars
<1>2. ASSUME NEW layout \in Layouts, PlanShards(layout) PROVE Fresh'
  <2>1. planner' = [scope |-> Resolve, layout |-> layout, next |-> 0, pc |-> "plan"] /\ planned' = Idle
    BY <1>2 DEF PlanShards
  <2>2. layout.count \in 1 .. MaxShards /\ MaxShards \in Nat
    BY ShardAssumption
  <2> QED
    BY <2>1, <2>2 DEF Fresh
<1>3. CASE WritePlan
  <2>1. /\ planner \in Planning /\ planner.pc = "plan" /\ planner.next = 0 /\ planned = Idle
        /\ planner.next < planner.layout.count
    BY <1>3, <1>d DEF WritePlan, Fresh
  <2>2. /\ planner' = [planner EXCEPT !.pc = "create"]
        /\ plan' = [scope |-> planner.scope, count |-> planner.layout.count]
        /\ planned' = planned
    BY <1>3 DEF WritePlan
  <2>3. /\ planner'.scope = planner.scope /\ planner'.layout = planner.layout
        /\ planner'.next = 0 /\ planner'.pc = "create"
    BY <2>1, <2>2
  <2>4. WrittenTo(planner.scope, planner.layout, 0)'
    BY DEF WrittenTo, Shards
  <2> QED
    BY <2>1, <2>2, <2>3, <2>4 DEF Fresh, WrittenTo
<1>4. CASE CreateManifest
  <2>1. /\ planner \in Planning /\ planner.pc = "create" /\ planned = Idle
        /\ planner.next < planner.layout.count
        /\ plan = [scope |-> planner.scope, count |-> planner.layout.count]
        /\ WrittenTo(planner.scope, planner.layout, planner.next)
    BY <1>4, <1>d DEF CreateManifest, Fresh
  <2>2. /\ planner' = [planner EXCEPT !.pc = "fill"]
        /\ plan' = plan /\ planned' = planned
        /\ dir' = [dir EXCEPT ![planner.next].manifest = Torn]
    BY <1>4 DEF CreateManifest
  <2>3. /\ planner'.scope = planner.scope /\ planner'.layout = planner.layout
        /\ planner'.next = planner.next /\ planner'.pc = "fill"
    BY <2>1, <2>2
  <2>4. \A s \in Shards : s < planner.next => dir'[s] = dir[s]
    BY <2>1, <2>2, <1>d DEF Shards
  <2>5. \A s \in Shards : s < planner.next =>
            dir'[s].manifest \in {NoFile, Manifest(planner.scope, planner.layout, s)}
    BY <2>1, <2>4 DEF WrittenTo
  <2> QED
    BY <2>1, <2>2, <2>3, <2>5 DEF Fresh, WrittenTo
<1>5. CASE WriteManifest
  <2>1. /\ planner \in Planning /\ planner.pc = "fill" /\ planned = Idle
        /\ planner.next < planner.layout.count
        /\ plan = [scope |-> planner.scope, count |-> planner.layout.count]
        /\ WrittenTo(planner.scope, planner.layout, planner.next)
    BY <1>5, <1>d DEF WriteManifest, Fresh
  <2>2. /\ plan' = plan
        /\ dir' = [dir EXCEPT ![planner.next].manifest = Manifest(planner.scope, planner.layout, planner.next)]
    BY <1>5 DEF WriteManifest
  <2>3. \A s \in Shards : s < planner.next => dir'[s] = dir[s]
    BY <2>1, <2>2, <1>d DEF Shards
  <2>4. dir'[planner.next].manifest = Manifest(planner.scope, planner.layout, planner.next)
    BY <2>1, <2>2, <1>d DEF Files
  <2>5. \A s \in Shards : s < planner.next + 1 =>
            dir'[s].manifest \in {NoFile, Manifest(planner.scope, planner.layout, s)}
    <3> SUFFICES ASSUME NEW s \in Shards, s < planner.next + 1
                 PROVE  dir'[s].manifest \in {NoFile, Manifest(planner.scope, planner.layout, s)}
      OBVIOUS
    <3>1. s < planner.next \/ s = planner.next
      BY <2>1 DEF Shards
    <3> QED
      BY <3>1, <2>1, <2>3, <2>4 DEF WrittenTo
  <2>6. CASE planner.next + 1 = planner.layout.count
    <3>1. planner' = Idle /\ planned' = [scope |-> planner.scope, layout |-> planner.layout]
      BY <1>5, <2>6 DEF WriteManifest
    <3> QED
      BY <3>1, <2>1, <2>2, <2>5, <2>6 DEF Fresh, WrittenTo
  <2>7. CASE planner.next + 1 # planner.layout.count
    <3>1. planner' = [planner EXCEPT !.next = planner.next + 1, !.pc = "create"] /\ planned' = planned
      BY <1>5, <2>7 DEF WriteManifest
    <3>2. /\ planner'.scope = planner.scope /\ planner'.layout = planner.layout
          /\ planner'.next = planner.next + 1 /\ planner'.pc = "create"
      BY <3>1, <2>1
    <3>3. planner.next + 1 < planner.layout.count
      BY <2>1, <2>7, <1>d, ShardAssumption DEF Shards
    <3> QED
      BY <3>1, <3>2, <3>3, <2>1, <2>2, <2>5 DEF Fresh, WrittenTo
  <2> QED
    BY <2>6, <2>7
<1>6. CASE StopPlanner
  <2>1. planner' = Idle /\ planned' = Idle
    BY <1>6 DEF StopPlanner, Fresh
  <2> QED
    BY <2>1 DEF Fresh
<1>7. ASSUME NEW s \in Shards, Open(s) \/ StageRows(s) \/ StageResult(s) \/ FillStaged(s) \/ RenameFails(s) \/ StopWorker(s)
      PROVE  Fresh'
  BY <1>7, FreshKept DEF Open, StageRows, StageResult, FillStaged, RenameFails, StopWorker
<1>8. ASSUME NEW s \in Shards, WriteRows(s) \/ CreateResult(s) \/ WriteResult(s) PROVE Fresh'
  <2>1. \A t \in Shards : dir'[t].manifest = dir[t].manifest
    BY <1>8, <1>d DEF WriteRows, CreateResult, WriteResult, Files
  <2> QED
    BY <1>8, <2>1, FreshKept DEF WriteRows, CreateResult, WriteResult
<1>9. ASSUME NEW s \in Shards, RemoveFinal(s) PROVE Fresh'
  <2>1. PICK left \in {[dir[s] EXCEPT !.manifest = NoFile], [dir[s] EXCEPT !.result = NoFile],
                        [dir[s] EXCEPT !.rows = NoFile], dir[s]} :
            dir' = [dir EXCEPT ![s] = left]
    BY <1>9 DEF RemoveFinal
  <2>2. left.manifest \in {dir[s].manifest, NoFile}
    BY <1>d DEF Files
  <2>3. \A t \in Shards : dir'[t].manifest \in {dir[t].manifest, NoFile}
    BY <2>1, <2>2, <1>d
  <2> QED
    BY <1>9, <2>3, FreshKept DEF RemoveFinal
<1>10. ASSUME NEW s \in Shards, Rename(s) PROVE Fresh'
  <2>1. \A t \in Shards : dir'[t].manifest \in {dir[t].manifest, NoFile}
    BY <1>10, <1>d DEF Rename
  <2> QED
    BY <1>10, <2>1, FreshKept DEF Rename
<1> QED
  BY <1>1, <1>2, <1>3, <1>4, <1>5, <1>6, <1>7, <1>8, <1>9, <1>10 DEF Next

-----------------------------------------------------------------------------
(* The theorems.                                                           *)

THEOREM Invariance == Spec => []Inv
<1>1. Init => Inv
  BY TypeInit, LaidInit, StagedInit, FreshInit DEF Inv
<1>2. Inv /\ [Next]_vars => Inv'
  BY TypeStep, LaidStep, StagedStep, FreshStep DEF Inv
<1> QED
  BY <1>1, <1>2, PTL DEF Spec

\* Every file and every process of a sharded job has its type.
THEOREM TypeCorrect == Spec => []TypeOK
BY Invariance, PTL DEF Inv

\* A shard that had a result has a whole one, in its place or staged, or its
\* worker is at this moment writing the next, unless a worker was stopped in
\* the middle of writing one and no other came after it.
THEOREM ResultsSurvive == Spec => []ResultSurvives
BY Invariance, PTL DEF Inv

LEMMA OnceFromInv == TypeOK /\ Fresh => EachInputOnce
<1> SUFFICES ASSUME TypeOK, Fresh, planned # Idle
             PROVE  /\ plan.scope = planned.scope
                    /\ NoDuplicates
                    /\ (\A s \in InPlan : HasManifest(s)) =>
                           UNION {dir[s].manifest.inputs : s \in InPlan} = plan.scope
  BY DEF EachInputOnce
<1> DEFINE in == planned.scope
           l  == planned.layout
<1>1. in \in SUBSET Objects /\ l \in Layouts /\ l.count \in 1 .. MaxShards
  BY ScopesOfObjects, ShardAssumption DEF TypeOK
<1>2. plan.scope = in /\ plan.count = l.count /\ WrittenTo(in, l, l.count)
  BY DEF Fresh
<1>3. InPlan \subseteq Shards /\ \A s \in InPlan : s < l.count
  BY <1>1, <1>2, ShardAssumption DEF InPlan, Shards
<1>4. \A s \in InPlan : HasManifest(s) => dir[s].manifest = Manifest(in, l, s)
  BY <1>2, <1>3 DEF WrittenTo, HasManifest, Unreadable
<1>5. \A s \in InPlan : HasManifest(s) => dir[s].manifest.scope = in /\ dir[s].manifest.inputs = Inputs(in, l, s)
  <2>1. \A s : Manifest(in, l, s).scope = in /\ Manifest(in, l, s).inputs = Inputs(in, l, s)
    BY DEF Manifest
  <2> HIDE DEF in, l
  <2> QED
    BY <2>1, <1>4
<1>6. NoDuplicates
  <2> SUFFICES ASSUME NEW s \in InPlan, NEW t \in InPlan, s # t, HasManifest(s), HasManifest(t),
                      NEW i, i \in InputIds(s), i \in InputIds(t)
               PROVE  FALSE
    BY DEF NoDuplicates
  <2>1. PICK o \in Inputs(in, l, s) : i = Position(in, o)
    BY <1>5 DEF InputIds
  <2>2. PICK p \in Inputs(in, l, t) : i = Position(in, p)
    BY <1>5 DEF InputIds
  <2>3. o \in in /\ p \in in
    BY DEF Inputs
  <2>4. o = p
    BY <1>1, <2>1, <2>2, <2>3, PositionsDiffer
  <2> QED
    BY <1>1, <2>4, InputsPartition
<1>7. ASSUME \A s \in InPlan : HasManifest(s)
      PROVE  UNION {dir[s].manifest.inputs : s \in InPlan} = in
  <2>1. \A s \in InPlan : dir[s].manifest.inputs = Inputs(in, l, s)
    BY <1>5, <1>7
  <2>2. InPlan = 0 .. l.count - 1
    BY <1>2 DEF InPlan
  <2> QED
    BY <1>1, <2>1, <2>2, InputsPartition
<1> QED
  BY <1>2, <1>6, <1>7

\* After plan-shards came to its end, the manifests give no input to two
\* shards and leave none out.
THEOREM InputsOnce == Spec => []EachInputOnce
<1>1. Inv => EachInputOnce
  BY OnceFromInv DEF Inv
<1> QED
  BY <1>1, Invariance, PTL

\* The results of one scope that was planned with one layout, a result for each
\* shard of a plan for it.
LEMMA ResultsOfOneScope ==
    ASSUME TypeOK, Laid, plan \notin Unreadable, OneLayout(plan.scope),
           \A s \in InPlan : HasResult(s) /\ dir[s].result.scope = plan.scope
    PROVE  \E l \in Layouts :
               /\ InPlan \subseteq Shards /\ InPlan = 0 .. l.count - 1 /\ l.count \in 1 .. MaxShards
               /\ \A s \in InPlan : dir[s].result.inputs = Inputs(plan.scope, l, s)
<1> DEFINE in == plan.scope
<1>1. in \in Scopes /\ laid[in] \subseteq Layouts
  BY DEF TypeOK
<1>2. PICK l \in laid[in] : plan.count = l.count
  BY DEF Laid
<1>3. l \in Layouts /\ l.count \in 1 .. MaxShards
  BY <1>1, <1>2, ShardAssumption
<1>4. InPlan \subseteq Shards /\ InPlan = 0 .. l.count - 1
  BY <1>2, <1>3, ShardAssumption DEF InPlan, Shards
<1>5. \A s \in InPlan : dir[s].result.inputs = Inputs(in, l, s)
  BY <1>2, <1>4 DEF Laid, Lawful, OneLayout
<1> QED
  BY <1>3, <1>4, <1>5

LEMMA CompleteFromInv == TypeOK /\ Laid => AcceptedIsComplete
<1> SUFFICES ASSUME TypeOK, Laid, NEW resolved \in BOOLEAN, Accepted(resolved),
                    OneLayout(IF resolved THEN Resolve ELSE plan.scope)
             PROVE  LET in == IF resolved THEN Resolve ELSE plan.scope
                    IN  /\ \A o \in in : \E s \in InPlan : o \in dir[s].result.inputs
                        /\ \A s, t \in InPlan : s # t => dir[s].result.inputs \cap dir[t].result.inputs = {}
                        /\ \A s \in InPlan : dir[s].result.inputs \subseteq in
  BY DEF AcceptedIsComplete
<1> DEFINE in == plan.scope
<1>1. (IF resolved THEN Resolve ELSE plan.scope) = in
  BY DEF Accepted
<1>2. /\ plan \notin Unreadable /\ OneLayout(in)
      /\ \A s \in InPlan : HasResult(s) /\ dir[s].result.scope = in
  BY <1>1 DEF Accepted, ShardAccepted, SameScope
<1>3. in \in SUBSET Objects
  BY <1>2, ScopesOfObjects DEF TypeOK
<1>4. PICK l \in Layouts : /\ InPlan = 0 .. l.count - 1
                           /\ \A s \in InPlan : dir[s].result.inputs = Inputs(in, l, s)
  BY <1>2, ResultsOfOneScope
<1>5. /\ \A o \in in : \E s \in InPlan : o \in dir[s].result.inputs
      /\ \A s, t \in InPlan : s # t => dir[s].result.inputs \cap dir[t].result.inputs = {}
      /\ \A s \in InPlan : dir[s].result.inputs \subseteq in
  <2> HIDE DEF in
  <2> QED
    BY <1>3, <1>4, InputsPartition
<1> QED
  BY <1>1, <1>5

\* What the verification accepts is complete: each object of the scope as it
\* is now -- of the plan, where that cannot be told -- was given to exactly one
\* of the results, if the scope was planned with one layout.
THEOREM AcceptedComplete == Spec => []AcceptedIsComplete
<1>1. Inv => AcceptedIsComplete
  BY CompleteFromInv DEF Inv
<1> QED
  BY <1>1, Invariance, PTL

\* What the sum of the coverage is: the elements the results have together.
LEMMA CoverageIs ==
    ASSUME NEW inputs, NEW U, IsFiniteSet(U), IsFiniteSet(Counted),
           inputs = [s \in Counted |-> dir[s].result.inputs],
           Disjoint(inputs, Counted, U)
    PROVE  Assigned = Cardinality(Joined(inputs, Counted))
<1> DEFINE Sums(it) == it = [s \in SUBSET Counted |-> IF s = {} THEN 0
               ELSE Cardinality(dir[CHOOSE x \in s : TRUE].result.inputs) + it[s \ {CHOOSE x \in s : TRUE}]]
<1>1. Assigned = (CHOOSE it : Sums(it))[Counted]
  BY DEF Assigned, MapThenSumSet, MapThenFoldSet
<1>2. \A s \in SUBSET Counted : s # {} =>
         Choice(s) \in Counted /\ inputs[Choice(s)] = dir[Choice(s)].result.inputs
  BY DEF Choice
<1>3. ASSUME NEW it PROVE Summing(it, inputs, Counted) <=> Sums(it)
  BY <1>2 DEF Summing, Choice
<1> HIDE DEF Sums
<1>4. Sums(CHOOSE it : Sums(it))
  <2>1. \E it : Summing(it, inputs, Counted)
    BY SummingExists
  <2>2. \E it : Sums(it)
    BY <1>3, <2>1
  <2> QED
    BY <2>2
<1>5. (CHOOSE it : Sums(it))[Counted] = Cardinality(Joined(inputs, Counted))
  BY <1>3, <1>4, SummingCounts
<1> QED
  BY <1>1, <1>5

LEMMA CoverageFromInv == TypeOK /\ Laid => CoverageTells
<1> SUFFICES ASSUME TypeOK, Laid, Finalizable, Status = "completed", OneLayout(plan.scope),
                    Assigned # Cardinality(Resolve), plan.scope = Resolve
             PROVE  /\ \E s \in Counted : dir[s].result.scope # plan.scope
                    /\ ~Validated
  BY DEF CoverageTells
<1> DEFINE in == plan.scope
<1>1. plan \notin Unreadable /\ Counted = InPlan /\ \A s \in InPlan : HasResult(s)
  <2>1. Counted = InPlan
    BY DEF Status, Completed, Counted
  <2> QED
    BY <2>1 DEF Finalizable, Counted, HasResult, Unreadable
<1>2. ASSUME \A s \in InPlan : dir[s].result.scope = in
      PROVE  Assigned = Cardinality(in)
  <2> DEFINE inputs == [s \in Counted |-> dir[s].result.inputs]
  <2>1. in \in SUBSET Objects /\ IsFiniteSet(in)
    <3>1. in \in SUBSET Objects
      BY <1>1, ScopesOfObjects DEF TypeOK
    <3> QED
      BY <3>1, ShardAssumption, FS_Subset
  <2>2. PICK l \in Layouts :
            /\ InPlan = 0 .. l.count - 1 /\ l.count \in 1 .. MaxShards
            /\ \A s \in InPlan : dir[s].result.inputs = Inputs(in, l, s)
    BY <1>1, <1>2, ResultsOfOneScope
  <2>3. IsFiniteSet(InPlan)
    BY <2>2, ShardAssumption, FS_Interval
  <2>4. \A s \in InPlan : inputs[s] = Inputs(in, l, s)
    BY <1>1, <2>2
  <2>5. /\ \A s, t : s # t => Inputs(in, l, s) \cap Inputs(in, l, t) = {}
        /\ \A s : Inputs(in, l, s) \subseteq in
        /\ \A o \in in : \E s \in InPlan : o \in Inputs(in, l, s)
    <3> HIDE DEF in
    <3> QED
      BY <2>1, <2>2, InputsPartition
  <2>6. Disjoint(inputs, InPlan, in) /\ Joined(inputs, InPlan) = in
    <3> HIDE DEF inputs, in
    <3> QED
      BY <2>4, <2>5 DEF Disjoint, Joined
  <2>7. Assigned = Cardinality(Joined(inputs, Counted))
    <3>1. inputs = [s \in Counted |-> dir[s].result.inputs]
      OBVIOUS
    <3>2. IsFiniteSet(Counted) /\ Disjoint(inputs, Counted, in)
      BY <1>1, <2>3, <2>6
    <3> HIDE DEF inputs, in
    <3> QED
      BY <2>1, <3>1, <3>2, CoverageIs
  <2> HIDE DEF inputs, in
  <2> QED
    BY <1>1, <2>6, <2>7
<1>3. PICK s \in InPlan : dir[s].result.scope # in
  BY <1>2
<1>4. ~ShardAccepted(s)
  BY <1>3 DEF ShardAccepted, SameScope
<1> QED
  BY <1>1, <1>3, <1>4 DEF Validated

\* When finalize-job calls a job completed and its coverage does not add up to
\* the objects in scope, the scope has changed since the plan, or a result of
\* another scope is counted and the validation does not pass the job; if the
\* scope was planned with one layout.
THEOREM CoverageAdds == Spec => []CoverageTells
<1>1. Inv => CoverageTells
  BY CoverageFromInv DEF Inv
<1> QED
  BY <1>1, Invariance, PTL

=============================================================================
