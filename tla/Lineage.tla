------------------------------ MODULE Lineage ------------------------------
(***************************************************************************)
(* The object graph: offf-core/src/lineage.rs.  An edge, and a derivation, *)
(* is <<parent, child>>, and the rows of a table are a sequence.           *)
(***************************************************************************)
EXTENDS Integers, Sequences, SequencesExt, FiniteSetsExt

\* graph.keys()
Keys(edges) == {e[1] : e \in Range(edges)} \cup {e[2] : e \in Range(edges)}

\* The rows of the edges to the children of a node.
Children(edges, node) == {n \in DOMAIN edges : edges[n][1] = node}

-----------------------------------------------------------------------------
(* The depth-first search.  `path` leads from where it began to where it   *)
(* is, and `todo` has what is left to look at for each node of the path.   *)

\* Mutant: a node is not on the path any more once a child of it was done.
Leave_early(st) ==
    [st EXCEPT !.todo = Front(@), !.path = IF Len(@) > 1 THEN SubSeq(@, 1, Len(@) - 2) ELSE <<>>]

Leave(st) == [st EXCEPT !.todo = Front(@), !.path = Front(@)]

Enter(edges, st, node) ==
    [st EXCEPT !.visited = @ \cup {node}, !.path = Append(@, node),
               !.todo = Append(@, Children(edges, node))]

\* What follows the first place of a node on the path.
From(path, node) == SubSeq(path, CHOOSE n \in DOMAIN path : path[n] = node, Len(path))

\* Look at the next child of the last node: it is new, closes a cycle, or is
\* done.
Look(edges, st, row) ==
    LET child == edges[row][2]
        rest  == [st EXCEPT !.todo = Append(Front(@), Last(@) \ {row})]
    IN  IF child \notin st.visited THEN Enter(edges, rest, child)
        ELSE IF child \in Range(st.path) THEN [rest EXCEPT !.cycles = Append(@, From(st.path, child))]
        ELSE rest

\* The children are looked at in the order of the edges.
DfsStep(edges, st) ==
    IF Last(st.todo) = {} THEN Leave(st) ELSE Look(edges, st, Min(Last(st.todo)))

\* Each edge takes a step, and leaving a node another.
Dfs(edges, st) ==
    LET last == Len(edges) + Cardinality(Keys(edges)) + 1
        after[n \in 0 .. last] ==
            IF n = 0 THEN st
            ELSE IF after[n - 1].todo = <<>> THEN after[n - 1] ELSE DfsStep(edges, after[n - 1])
    IN  after[last]

\* The nodes are tried in the order of a hash map.
detect_cycles(edges, order) ==
    LET tried[n \in 0 .. Len(order)] ==
            IF n = 0 THEN [visited |-> {}, path |-> <<>>, todo |-> <<>>, cycles |-> <<>>]
            ELSE IF order[n] \in tried[n - 1].visited THEN tried[n - 1]
            ELSE Dfs(edges, Enter(edges, tried[n - 1], order[n]))
    IN  tried[Len(order)].cycles

Linked(edges, d) == d \in Range(edges)

is_valid(objects, edges, derivations, order) ==
    /\ \A e \in Range(edges) \cup Range(derivations) : e[1] \in objects /\ e[2] \in objects
    /\ \A d \in Range(derivations) : Linked(edges, d)
    /\ detect_cycles(edges, order) = <<>>

-----------------------------------------------------------------------------
(* compute_lineage_stats.                                                  *)

Roots(objects, edges) == {o \in objects : \A e \in Range(edges) : e[2] # o}

\* Rows in the order of the table.
InOrder(rows) ==
    CHOOSE f \in [1 .. Cardinality(rows) -> rows] : \A a, b \in DOMAIN f : a < b => f[a] < f[b]

\* Mutant: it is counted again, on the longer way.
Descend_again(edges, st) ==
    LET node == Head(st.queue)[1]
        d    == Head(st.queue)[2]
        seen == st.visited \cup {node}
        kids == InOrder({n \in Children(edges, node) : edges[n][2] \notin seen})
    IN  [queue   |-> Tail(st.queue) \o [n \in DOMAIN kids |-> <<edges[kids[n]][2], d + 1>>],
         visited |-> seen,
         depth   |-> IF d > st.depth THEN d ELSE st.depth]

\* A node that is taken from the queue again is dropped.
Descend(edges, st) ==
    LET node == Head(st.queue)[1]
        d    == Head(st.queue)[2]
        seen == st.visited \cup {node}
        kids == InOrder({n \in Children(edges, node) : edges[n][2] \notin seen})
    IN  IF node \in st.visited THEN [st EXCEPT !.queue = Tail(@)]
        ELSE [queue   |-> Tail(st.queue) \o [n \in DOMAIN kids |-> <<edges[kids[n]][2], d + 1>>],
              visited |-> seen,
              depth   |-> IF d > st.depth THEN d ELSE st.depth]

\* The breadth-first search from all roots at once.
max_depth(objects, edges) ==
    LET roots == SetToSeq(Roots(objects, edges))
        last  == Len(edges) + Len(roots)
        after[n \in 0 .. last] ==
            IF n = 0 THEN [queue |-> [k \in DOMAIN roots |-> <<roots[k], 0>>], visited |-> {}, depth |-> 0]
            ELSE IF after[n - 1].queue = <<>> THEN after[n - 1] ELSE Descend(edges, after[n - 1])
    IN  after[last].depth

-----------------------------------------------------------------------------
(* The lineage of an object, as the access service gives it: rows of edges.*)

\* The edges that lead to the next node of the queue, but for those from a
\* node that was seen already.
Ascend(edges, st) ==
    LET node == Head(st.queue)
        seen == st.visited \cup {node}
        up   == {n \in DOMAIN edges : edges[n][2] = node /\ edges[n][1] \notin seen}
    IN  IF node \in st.visited THEN [st EXCEPT !.queue = Tail(@)]
        ELSE [queue   |-> Tail(st.queue) \o [n \in DOMAIN InOrder(up) |-> edges[InOrder(up)[n]][1]],
              visited |-> seen,
              lineage |-> st.lineage \cup up]

read_object_lineage(edges, id) ==
    LET last == Len(edges) + 1
        after[n \in 0 .. last] ==
            IF n = 0 THEN [queue |-> <<id>>, visited |-> {}, lineage |-> {}]
            ELSE IF after[n - 1].queue = <<>> THEN after[n - 1] ELSE Ascend(edges, after[n - 1])
    IN  after[last].lineage
=============================================================================
