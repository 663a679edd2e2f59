----------------------------- MODULE VisualGraph ------------------------------
(***************************************************************************)
(* The programs that show a shortest path in a window, and another graph   *)
(* whenever R is pressed: "native", src/graph/visual-graph.c, and "web",   *)
(* src/graph/webasm/visual-graph2.c, of which the browser calls proc for   *)
(* every frame.  The numbers of rand are any; an allocation may fail.      *)
(*                                                                         *)
(* A pointer is null, live or dangling, after free.  An access through one *)
(* that is not live is recorded in fault, and ends the behaviour: what the *)
(* program does then is not defined.                                       *)
(***************************************************************************)
EXTENDS Integers, SequencesExt, FiniteSetsExt

CONSTANTS
  GraphPrograms,  \* of "native" and "web"
  Matrices,       \* what generate_test_matrix may make, weights by edges {i, j}
  Nodes           \* node_count

VARIABLES
  gprogram, gpc,
  res,       \* what SDL and TTF gave
  ptr,       \* the state of every pointer to memory
  matrix,    \* the weights of the edges the graph has
  path,      \* of the PathResult: the nodes from start to target, and
  distance,  \* total_dist
  on_path, path_edge,
  running,
  starved,   \* an allocation has failed
  fault

gvars == <<gprogram, gpc, res, ptr, matrix, path, distance, on_path, path_edge, running, starved,
           fault>>

Vertices == 0..(Nodes - 1)
target_node == Nodes - 1
Infinity == 1000000
Objects == {"matrix", "path", "on_path", "path_edge", "positions"}

GInit ==
  /\ gprogram \in GraphPrograms /\ gpc = "sdl"
  /\ res = {} /\ ptr = [o \in Objects |-> "null"]
  /\ matrix = <<>> /\ path = <<>> /\ distance = -1 /\ on_path = {} /\ path_edge = {}
  /\ running = TRUE /\ starved = FALSE /\ fault = FALSE

-----------------------------------------------------------------------------
\* dijkstra: a turn of its loop visits the nearest of the vertices left, the last of them
\* if there are several.
Turn(s, k) ==
  LET near == {i \in Vertices \ s.visited : \A j \in Vertices \ s.visited : s.dist[i] <= s.dist[j]}
      u == Max(near)
      better(v) == /\ v \notin s.visited \cup {u} /\ {u, v} \in DOMAIN matrix
                   /\ s.dist[u] + matrix[{u, v}] < s.dist[v]
  IN  IF s.dist[u] = Infinity THEN s
      ELSE [visited |-> s.visited \cup {u},
            dist |-> [v \in Vertices |-> IF better(v) THEN s.dist[u] + matrix[{u, v}] ELSE s.dist[v]],
            prev |-> [v \in Vertices |-> IF better(v) THEN u ELSE s.prev[v]]]

dijkstra ==
  FoldLeft(Turn, [visited |-> {}, dist |-> [v \in Vertices |-> IF v = 0 THEN 0 ELSE Infinity],
                  prev |-> [v \in Vertices |-> -1]], [k \in 1..Nodes |-> k])

\* The path, back from the target.
Back(prev) ==
  LET way[k \in 0..Nodes] ==     \* of the k-th predecessor of the target
        IF k = 0 THEN <<target_node>>
        ELSE IF way[k-1][1] = -1 THEN way[k-1] ELSE <<prev[way[k-1][1]]>> \o way[k-1]
  IN  Tail(way[Nodes])

\* The nodes and the edges of the path, marked for drawing.
Marks == ToSet(path)
MarkedEdges == {{path[i], path[i+1]} : i \in 1..(Len(path) - 1)}

-----------------------------------------------------------------------------
\* The start of main: what is acquired in turn, and what is given back when the next is
\* not to be had.  Without a large font the small one serves; the page never gives
\* anything back once it has its fonts.
Stages == <<"sdl", "ttf", "window", "renderer", "font", "font_lg", "generate">>
After(stage) == Stages[CHOOSE i \in DOMAIN Stages : i > 1 /\ Stages[i-1] = stage]
NothingBack(stage) == {}
GivenBack(stage) ==
  CASE stage = "sdl" -> {}
    [] stage = "ttf" -> {"sdl"}
    [] stage = "window" -> {"sdl", "ttf"}
    [] stage = "renderer" -> {"sdl", "ttf", "window"}
    [] stage = "font" -> {"sdl", "ttf", "window", "renderer"}

Acquire ==
  /\ gpc \in {"sdl", "ttf", "window", "renderer", "font", "font_lg"}
  /\ \/ res' = res \cup {gpc} /\ gpc' = After(gpc)
     \/ gpc = "font_lg" /\ gpc' = "generate" /\ UNCHANGED res
     \/ gpc # "font_lg" /\ gpc' = "failure" /\ res' = res \ GivenBack(gpc)
  /\ UNCHANGED <<gprogram, ptr, matrix, path, distance, on_path, path_edge, running, starved, fault>>

Freed(o) == IF ptr[o] = "live" THEN "dangling" ELSE ptr[o]
Everything == {"sdl", "ttf", "window", "renderer", "font", "font_lg"}
GiveUp == gpc' = "failure" /\ res' = IF gprogram = "native" THEN res \ Everything ELSE res

\* generate_test_matrix: init_matrix allocates, and leaves the pointer as it was if it
\* cannot; the weights are set by add_edge in both directions.  positions is still null when
\* the program starts; later only the page goes on without a matrix.
generate_test_matrix ==
  /\ gpc = "generate"
  /\ \/ /\ matrix' \in Matrices /\ ptr' = [ptr EXCEPT !["matrix"] = "live"]
        /\ gpc' = "solve" /\ UNCHANGED <<res, running, starved>>
     \/ /\ starved' = TRUE /\ UNCHANGED <<matrix, ptr>>
        /\ IF ptr["positions"] = "null" THEN GiveUp /\ UNCHANGED running
           ELSE /\ gpc' = IF gprogram = "native" THEN "frame" ELSE "solve"
                /\ running' = (running /\ gprogram = "web")
                /\ UNCHANGED res
  /\ UNCHANGED <<gprogram, path, distance, on_path, path_edge, fault>>

\* The call of dijkstra.  Without its arrays there is no path and no distance, without
\* memory for the path a distance but no path: only the native program looks whether it
\* has that memory before it writes to it.
Solve ==
  /\ gpc = "solve"
  /\ IF ptr["matrix"] # "live"
     THEN fault' = TRUE /\ gpc' = "crashed" /\ UNCHANGED <<ptr, path, distance, starved>>
     ELSE \/ /\ path' = Back(dijkstra.prev) /\ distance' = dijkstra.dist[target_node]
             /\ ptr' = [ptr EXCEPT !["path"] = "live"] /\ gpc' = "marks" /\ UNCHANGED <<starved, fault>>
          \/ /\ starved' = TRUE /\ distance' \in {-1, dijkstra.dist[target_node]} /\ path' = <<>>
             /\ ptr' = [ptr EXCEPT !["path"] = "null"]
             /\ fault' = (gprogram = "web" /\ distance' # -1)
             /\ gpc' = IF fault' THEN "crashed" ELSE "marks"
  /\ UNCHANGED <<gprogram, res, matrix, on_path, path_edge, running>>

\* The arrays of the marks, and at the start that of the positions; got is what calloc and
\* malloc had memory for.
Wanted == {"on_path", "path_edge"} \cup (IF ptr["positions"] = "null" THEN {"positions"} ELSE {})
Given(got) == [o \in Objects |-> IF o \in got THEN "live" ELSE IF o \in Wanted THEN "null" ELSE ptr[o]]
Marked ==
  /\ on_path' = Marks /\ path_edge' = MarkedEdges

\* visual-graph.c: a failure at the start ends the program, a later one its loop, but not
\* before the frame is drawn.
NativeMarks ==
  /\ gprogram = "native" /\ gpc = "marks"
  /\ \E got \in SUBSET Wanted :
       /\ starved' = (starved \/ got # Wanted)
       /\ IF got = Wanted THEN gpc' = "poll" /\ ptr' = Given(got) /\ Marked /\ UNCHANGED <<res, running>>
          ELSE IF "positions" \in Wanted
               THEN /\ GiveUp /\ ptr' = [o \in Objects |-> IF o \in got \cup {"path", "matrix"} THEN "dangling"
                                                           ELSE "null"]
                    /\ UNCHANGED <<on_path, path_edge, running>>
               ELSE /\ gpc' = "frame" /\ running' = FALSE /\ ptr' = Given(got)
                    /\ UNCHANGED <<res, on_path, path_edge>>
  /\ UNCHANGED <<gprogram, matrix, path, distance, fault>>

\* visual-graph2.c does not look what it was given: marks of a path need both arrays, and
\* compute_circle_layout writes the positions.
WebMarks ==
  /\ gprogram = "web" /\ gpc = "marks"
  /\ \E got \in SUBSET Wanted :
       /\ starved' = (starved \/ got # Wanted)
       /\ ptr' = Given(got)
       /\ fault' = \/ path # <<>> /\ ~({"on_path", "path_edge"} \subseteq got)
                   \/ "positions" \in Wanted \ got
       /\ gpc' = IF fault' THEN "crashed" ELSE "poll"
       /\ Marked
  /\ UNCHANGED <<gprogram, res, matrix, path, distance, running>>

\* An event: the window closed or ESC, R (or a tap), or any other.
Poll ==
  /\ gpc = "poll"
  /\ \/ running' = FALSE /\ gpc' = "poll" /\ UNCHANGED <<ptr, matrix, path, distance, on_path, path_edge>>
     \/ /\ gpc' = "generate" /\ UNCHANGED running
        /\ ptr' = [o \in Objects |-> IF o = "positions" THEN ptr[o] ELSE Freed(o)]
        /\ matrix' = <<>> /\ path' = <<>> /\ distance' = -1 /\ on_path' = {} /\ path_edge' = {}
     \/ gpc' = "frame" /\ UNCHANGED <<ptr, matrix, path, distance, on_path, path_edge, running>>
  /\ UNCHANGED <<gprogram, res, starved, fault>>

\* A frame reads the weights of all edges, whether they are marked, the path, the positions
\* and, of every node between the start and the target, whether it is on the path.
Readable == \A o \in Objects : ptr[o] = "live" \/ (o = "path" /\ ptr[o] = "null")
Frame ==
  /\ gprogram = "native" /\ gpc = "frame"
  /\ fault' = ~Readable
  /\ gpc' = IF fault' THEN "crashed" ELSE IF running THEN "poll" ELSE "end"
  /\ UNCHANGED <<gprogram, res, ptr, matrix, path, distance, on_path, path_edge, running, starved>>

\* The rest of proc.  The browser does not call it again once the loop is cancelled, and
\* emscripten_set_main_loop does not return.
proc ==
  /\ gprogram = "web" /\ gpc = "frame"
  /\ fault' = ~Readable
  /\ gpc' = IF fault' THEN "crashed" ELSE IF running THEN "poll" ELSE "cancelled"
  /\ UNCHANGED <<gprogram, res, ptr, matrix, path, distance, on_path, path_edge, running, starved>>

\* The end of main: a pointer freed a second time is a fault as well.
Finish ==
  /\ gpc = "end"
  /\ fault' = (\E o \in Objects : ptr[o] = "dangling")
  /\ gpc' = IF fault' THEN "crashed" ELSE "success"
  /\ ptr' = [o \in Objects |-> Freed(o)] /\ res' = res \ Everything
  /\ UNCHANGED <<gprogram, matrix, path, distance, on_path, path_edge, running, starved>>

GNext ==
  \/ Acquire \/ generate_test_matrix \/ Solve \/ NativeMarks \/ WebMarks \/ Poll \/ Frame \/ proc
  \/ Finish

GSpec == GInit /\ [][GNext]_gvars

-----------------------------------------------------------------------------
(***************************************************************************)
(* Properties.                                                             *)
(***************************************************************************)
GTypeOK ==
  /\ res \subseteq Everything /\ ptr \in [Objects -> {"null", "live", "dangling"}]
  /\ on_path \subseteq Vertices /\ \A e \in path_edge : e \subseteq Vertices
  /\ path \in Seq(Vertices)

\* All ways without a circle from the start to the target.
Ways == {w \in UNION {[1..n -> Vertices] : n \in 1..Nodes} :
           /\ w[1] = 0 /\ w[Len(w)] = target_node
           /\ \A i \in 1..(Len(w) - 1) : {w[i], w[i+1]} \in DOMAIN matrix}
Length(w) == FoldLeft(LAMBDA sum, i : sum + matrix[{w[i], w[i+1]}], 0, [i \in 1..(Len(w) - 1) |-> i])

\* What a frame shows belongs to the graph it shows, whatever was pressed before: the path
\* goes along its edges, has the distance written above it, is the shortest, and its nodes
\* and edges and no others are marked.
PictureRight ==
  (gpc = "frame" /\ Readable) =>
    /\ path # <<>> => /\ path \in Ways /\ Length(path) = distance
                      /\ \A w \in Ways : Length(w) >= distance
    /\ path = <<>> => starved
    /\ on_path = ToSet(path) /\ path_edge = {{path[i], path[i+1]} : i \in 1..(Len(path) - 1)}

\* Memory that was freed or never given is only used after an allocation has failed, and by
\* the native program only if that was after the start.
FaultsOnlyStarved ==
  fault => /\ starved
           /\ gprogram = "native" => ptr["positions"] # "null"

\* The native program keeps nothing when it ends, at whatever step it had to give up.
NativeCleans ==
  (gprogram = "native" /\ gpc \in {"failure", "success"}) =>
    res = {} /\ \A o \in Objects : ptr[o] # "live"

\* The picture is right, and wrong accesses need an allocation that failed.
GraphInv == GTypeOK /\ PictureRight /\ FaultsOnlyStarved /\ NativeCleans
=============================================================================
