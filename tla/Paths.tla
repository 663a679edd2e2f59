-------------------------------- MODULE Paths ---------------------------------
(***************************************************************************)
(* The two shortest-path programs, from vertex 0:                          *)
(*   list    src/heap/heap-path.c: adjacency lists and the heap, in which  *)
(*           a vertex may be several times; an entry that a shorter way    *)
(*           has overtaken stays until it is extracted, and is skipped;    *)
(*   matrix  src/graph/matrix.c, and graph/visual-graph.c: the vertex      *)
(*           nearest to the start is looked for among those not visited.   *)
(* Edges of both graphs carry weights from 1 up (the generators), small    *)
(* enough that no sum reaches INFINITE.                                    *)
(***************************************************************************)
EXTENDS Integers, SequencesExt, FiniteSetsExt

CONSTANTS
  Graphs,    \* graphs of other callers: for each vertex 0, 1... its list of edges
  Size,      \* vertices of the graphs that the mains make: 50
  NextWeights, OtherWeights,  \* what rand gives: 1..10 for an edge to the next vertex, 1..20
  MoreEdges, MoreCalls,       \* and how many other edges there are: 1..4 and 0..2
  Infinite   \* INFINITE

VARIABLES
  pc,        \* "idle", "next", "relax", "true" or "false"
  program,   \* "list" or "matrix"
  graph,
  dist, prev,
  heap,      \* of the first program: entries for vertices
  visited,   \* of the second
  u, edge    \* the vertex at work, and the edge of it that comes next

vars == <<pc, program, graph, dist, prev, heap, visited, u, edge>>

V == DOMAIN graph
Edges(v) == graph[v]
None == -1

Init ==
  /\ pc = "idle" /\ program = "list"
  /\ graph = <<>> /\ dist = <<>> /\ prev = <<>>
  /\ heap = <<>> /\ visited = {} /\ u = None /\ edge = 1

Nearer(a, b) == a.distance < b.distance
LOCAL H == INSTANCE HeapOps WITH Before <- Nearer
Entry(v, d) == [vertex |-> v, distance |-> d]

-----------------------------------------------------------------------------
\* generate_test_graph: an edge to the next vertex and some anywhere, the same or another
\* place again, but none from the last.
Rows(v) ==
  IF v = Size - 1 THEN {<<>>}
  ELSE {<<[target |-> v + 1, weight |-> w]>> \o more :
          w \in NextWeights,
          more \in UNION {[1..n -> [target : 0..Size-1, weight : OtherWeights]] : n \in MoreEdges}}
TestGraphs == {g \in [0..Size-1 -> UNION {Rows(v) : v \in 0..Size-1}] : \A v \in 0..Size-1 : g[v] \in Rows(v)}

\* generate_test_matrix: the same with a matrix, where a later edge takes the place of an
\* earlier one, in both directions.
NO_EDGE == -1
init_matrix == [i, j \in 0..Size-1 |-> IF i = j THEN 0 ELSE NO_EDGE]
add_edge(m, c) == [m EXCEPT ![c.from, c.to] = c.weight, ![c.to, c.from] = c.weight]
CallsFor(v) ==
  LET next == IF v = Size - 1 THEN {<<>>} ELSE {<<[from |-> v, to |-> v + 1, weight |-> w]>> : w \in NextWeights}
      others == UNION {[1..n -> [from : {v}, to : (0..Size-1) \ {v}, weight : OtherWeights]] : n \in MoreCalls}
  IN  {one \o more : one \in next, more \in others}
Matrices ==
  LET after[k \in 0..Size] ==
        IF k = 0 THEN {init_matrix}
        ELSE {FoldLeft(add_edge, m, calls) : m \in after[k - 1], calls \in CallsFor(k - 1)}
  IN  after[Size]
EdgesOf(m, v) ==
  LET ends == SetToSortSeq({j \in 0..Size-1 : m[v, j] # NO_EDGE}, <)
  IN  [i \in DOMAIN ends |-> [target |-> ends[i], weight |-> m[v, ends[i]]]]
TestMatrices == {[v \in 0..Size-1 |-> EdgesOf(m, v)] : m \in Matrices}

\* The call, with the first heap_insert of the list program.  Its allocations, which may fail
\* or go unchecked, and heap_init are left out: memory is there.
Call ==
  /\ pc = "idle"
  /\ pc' = "next" /\ program' \in {"list", "matrix"}
  /\ graph' \in Graphs \cup (IF program' = "list" THEN TestGraphs ELSE TestMatrices)
  /\ dist' = [v \in DOMAIN graph' |-> IF v = 0 THEN 0 ELSE Infinite]
  /\ prev' = [v \in DOMAIN graph' |-> None]
  /\ heap' = IF program' = "list" THEN <<Entry(0, 0)>> ELSE <<>>
  /\ UNCHANGED <<visited, u, edge>>

\* heap_extract, and the test for an entry that is no longer right.
Stale == heap[1].distance > dist[heap[1].vertex]

ListNext ==
  /\ program = "list" /\ pc = "next" /\ heap # <<>>
  /\ heap' = H!Extracted(heap)
  /\ IF Stale THEN UNCHANGED <<pc, u, edge>>
     ELSE pc' = "relax" /\ u' = heap[1].vertex /\ edge' = 1
  /\ UNCHANGED <<program, graph, dist, prev, visited>>

Shorter(v, weight) == dist[u] + weight < dist[v]

\* One edge of u.  heap_insert may fail.
ListRelax ==
  /\ program = "list" /\ pc = "relax" /\ edge <= Len(Edges(u))
  /\ LET v == Edges(u)[edge].target
         weight == Edges(u)[edge].weight
     IN  IF Shorter(v, weight)
         THEN /\ dist' = [dist EXCEPT ![v] = dist[u] + weight]
              /\ prev' = [prev EXCEPT ![v] = u]
              /\ \/ heap' = H!Inserted(heap, Entry(v, dist'[v])) /\ UNCHANGED pc
                 \/ heap' = <<>> /\ pc' = "false"
         ELSE UNCHANGED <<pc, dist, prev, heap>>
  /\ edge' = edge + 1
  /\ UNCHANGED <<program, graph, visited, u>>

ListRelaxed ==
  /\ program = "list" /\ pc = "relax" /\ edge > Len(Edges(u))
  /\ pc' = "next"
  /\ UNCHANGED <<program, graph, dist, prev, heap, visited, u, edge>>

ListEnds ==
  /\ program = "list" /\ pc = "next" /\ heap = <<>>
  /\ pc' = "true"
  /\ UNCHANGED <<program, graph, dist, prev, heap, visited, u, edge>>

-----------------------------------------------------------------------------
\* Of the vertices not visited the nearest, the last of them if there are several.
LastOfAll == Max(V \ visited)
Nearest == Max({v \in V \ visited : \A w \in V \ visited : dist[v] <= dist[w]})

MatrixNext ==
  /\ program = "matrix" /\ pc = "next"
  /\ IF visited = V \/ dist[Nearest] = Infinite
     THEN pc' = "true" /\ UNCHANGED <<visited, u>>
     ELSE pc' = "relax" /\ u' = Nearest /\ visited' = visited \cup {Nearest}
  /\ UNCHANGED <<program, graph, dist, prev, heap, edge>>

\* The row of u: all of its edges, in one turn of the outer loop.
Weights(v, w) == {Edges(v)[i].weight : i \in {j \in DOMAIN Edges(v) : Edges(v)[j].target = w}}
Improved == {v \in V \ visited : \E weight \in Weights(u, v) : Shorter(v, weight)}

MatrixRelax ==
  /\ program = "matrix" /\ pc = "relax"
  /\ dist' = [v \in V |-> IF v \in Improved THEN dist[u] + Min(Weights(u, v)) ELSE dist[v]]
  /\ prev' = [v \in V |-> IF v \in Improved THEN u ELSE prev[v]]
  /\ pc' = "next"
  /\ UNCHANGED <<program, graph, heap, visited, u, edge>>

Next ==
  \/ Call \/ ListNext \/ ListRelax \/ ListRelaxed \/ ListEnds \/ MatrixNext \/ MatrixRelax

Spec == Init /\ [][Next]_vars

-----------------------------------------------------------------------------
(***************************************************************************)
(* Properties.                                                             *)
(***************************************************************************)
\* The distances, from their definition: the least weight of a way of at most that many
\* edges; one fewer than there are vertices suffice.
Distance ==
  LET within[m \in 0..Cardinality(V)] ==
        IF m = 0 THEN [v \in V |-> IF v = 0 THEN 0 ELSE Infinite]
        ELSE LET d == within[m-1]
             IN  [v \in V |->
                    Min({d[v]} \cup UNION {{d[w] + x : x \in Weights(w, v)} : w \in V})]
  IN  within[Cardinality(V)]

\* Every variable stays in its range.
TypeOK ==
  /\ pc \in {"idle", "next", "relax", "true", "false"}
  /\ dist \in [V -> 0..Infinite] /\ prev \in [V -> V \cup {None}]
  /\ heap \in Seq([vertex : V, distance : 0..Infinite])
  /\ visited \subseteq V /\ u \in V \cup {None}

\* A distance found is the weight of a way there: back through prev it loses at each
\* step the weight of an edge, and ends at the start, without a circle.
WaysRight ==
  \A v \in V : dist[v] < Infinite =>
    IF v = 0 THEN dist[v] = 0 /\ prev[v] = None
    ELSE /\ prev[v] # None /\ dist[prev[v]] < dist[v]
         /\ \E x \in Weights(prev[v], v) : dist[v] >= dist[prev[v]] + x

\* The entries of the heap: every vertex whose edges may still give a shorter way has an
\* entry with its distance, though others with more may be there.  A vertex at work has
\* its final distance, so that its edges are looked at once.
HeapRight ==
  /\ program = "list" /\ pc \in {"next", "relax"} =>
       \A v \in V :
         \/ dist[v] = Infinite
         \/ \E i \in DOMAIN heap : heap[i] = Entry(v, dist[v])
         \/ \A i \in DOMAIN Edges(v) :
              \/ dist[Edges(v)[i].target] <= dist[v] + Edges(v)[i].weight
              \/ pc = "relax" /\ v = u /\ i >= edge
  /\ pc = "relax" => dist[u] = Distance[u]

\* At the end the distances are the least and every vertex that can be reached has a way.
PathsInv ==
  /\ TypeOK
  /\ WaysRight
  /\ HeapRight
  /\ pc = "true" => dist = Distance
=============================================================================
