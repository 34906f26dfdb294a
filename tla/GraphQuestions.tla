--------------------------- MODULE GraphQuestions ---------------------------
(***************************************************************************)
(* What is asked of the object graph (offf-core/src/lineage.rs): whether   *)
(* it has cycles and whether it is valid, how deep it is, and what the     *)
(* lineage of an object is.                                                *)
(***************************************************************************)
EXTENDS Lineage, Questions

CONSTANTS
    MaxEdges,           \* bound: edges of an object graph
    Objects             \* and its objects

\* A graph has finitely many objects.
ASSUME GraphAssumption == IsFiniteSet(Objects) /\ MaxEdges \in Nat

-----------------------------------------------------------------------------
(* Questions.                                                              *)

\* Graphs, with the order in which a hash map gives their nodes.
AskGraph ==
    \E k \in 0 .. MaxEdges : \E edges \in [1 .. k -> Objects \X Objects] :
        \E order \in SetToSeqs(Keys(edges)) :
            question' = [kind |-> "graph", edges |-> edges, order |-> order]

\* An object table that may miss a row, and one derivation.
AskLinks ==
    \E k \in 0 .. MaxEdges - 1 : \E edges \in [1 .. k -> Objects \X Objects], d \in Objects \X Objects :
        \E lost \in SUBSET Objects, order \in SetToSeqs(Keys(edges)) :
            /\ Cardinality(lost) <= 1
            /\ question' = [kind |-> "links", objects |-> Objects \ lost, edges |-> edges,
                            derivations |-> <<d>>, order |-> order]

AskGraphs == AskGraph \/ AskLinks

GraphSpec == OnlyAsked(AskGraphs, {"graph", "links"})

-----------------------------------------------------------------------------
(* Cycles.                                                                 *)

\* A set of objects that has the children of each of its objects.
HasChildren(edges, S) == \A e \in Range(edges) : e[1] \in S => e[2] \in S

\* The objects that some path of edges leads to.
Below(edges, o) ==
    {x \in Objects : \A S \in SUBSET Objects :
        HasChildren(edges, S) /\ (\A e \in Range(edges) : e[1] = o => e[2] \in S) => x \in S}

\* Two objects on a common cycle, or the same.
Together(edges, o, x) == o = x \/ (x \in Below(edges, o) /\ o \in Below(edges, x))

\* A cycle is reported exactly if there is one: each that is reported is one,
\* and to every object on a cycle one of its component is reported; whatever
\* order a hash map gives the nodes.
CyclesFound ==
    question.kind = "graph" =>
        LET edges  == question.edges
            cycles == detect_cycles(edges, question.order)
        IN  /\ \A n \in DOMAIN cycles : \A k \in DOMAIN cycles[n] :
                  <<cycles[n][k], IF k < Len(cycles[n]) THEN cycles[n][k + 1] ELSE cycles[n][1]>> \in Range(edges)
            /\ \A o \in Objects : o \in Below(edges, o) =>
                  \E n \in DOMAIN cycles : \E k \in DOMAIN cycles[n] : Together(edges, o, cycles[n][k])

\* A graph that is found valid can be laid out in generations: every object
\* is there, and every edge and every derivation leads to a later one.
ValidIsLayered ==
    question.kind = "links" =>
        LET q == question IN
        is_valid(q.objects, q.edges, q.derivations, q.order) =>
            \E generation \in [q.objects -> 0 .. Cardinality(Objects)] :
                \A link \in Range(q.edges) \cup Range(q.derivations) :
                    generation[link[1]] < generation[link[2]]

\* lineage.rs: whatever the graph, the depth-first search finds its cycles and
\* nothing else, and a graph that passes is one of derivations.
CyclesChecked == CyclesFound /\ ValidIsLayered

-----------------------------------------------------------------------------
(* What is told of a graph.                                                *)

\* max_depth is how far the objects that a root leads to lie from the nearest
\* root: of the paths to an object the shortest counts, as the breadth-first
\* search takes it (lineage.rs:195-229).  This is not what the field is said
\* to be, the length of the longest path (lineage.rs:154): with 1 -> 2, 2 -> 3
\* and 1 -> 3 it is 1, where the longest path has 2 edges.
DepthIsShortest ==
    question.kind = "graph" =>
        LET edges == question.edges
            E     == Range(edges)
            within[n \in Nat] == IF n = 0 THEN Roots(Objects, edges)
                                 ELSE within[n - 1] \cup {e[2] : e \in {f \in E : f[1] \in within[n - 1]}}
            d == max_depth(Objects, edges)
        IN  /\ within[d] = within[Cardinality(Objects)]
            /\ d > 0 => within[d] # within[d - 1]

\* The lineage of an object names each of its ancestors, also in a cycle and
\* across paths that meet, and has no edge but those on the way to it, each as
\* often as it is in the table (though not all of them: one from a node that
\* was seen before is left out).
AncestorsTold ==
    question.kind = "graph" => \A o \in Objects :
        LET edges     == question.edges
            found     == read_object_lineage(edges, o)
            ancestors == {x \in Objects : o \in Below(edges, x)}
        IN  /\ {edges[n][1] : n \in found} \cup {o} = ancestors \cup {o}
            /\ \A n \in found : edges[n][2] \in ancestors \cup {o}
            /\ \A n \in found, k \in DOMAIN edges : edges[n] = edges[k] => k \in found

\* lineage.rs and the access service: the depth told of a graph is that of the
\* shortest paths, and of the ancestors of an object its lineage misses none
\* and names no other.
LineageTold == DepthIsShortest /\ AncestorsTold

\* lineage.rs and the access service: whatever the graph, its cycles are found,
\* a valid one is one of derivations, its depth is how far its objects lie from
\* the nearest root, and a lineage has the ancestors of its object.
GraphsAnswered == CyclesChecked /\ LineageTold
=============================================================================
