------------------------------- MODULE MCSystem -------------------------------
(***************************************************************************)
(* System for TLC, and beside its programs those with lists, those that    *)
(* try the containers out and those that draw, which run alone: each       *)
(* behaviour is one of a program.                                          *)
(***************************************************************************)
EXTENDS System, TLC

CONSTANTS
  u1, u2, u3,
  Lists, ListNodes, Null, Values, ListTurns, Room,   \* LinkedLists
  Tests, AnyTimes, FirstBuckets, NoNode,             \* Drivers
  GLDrivers, AppDrivers, Apps,                       \* OpenGL
  GraphPrograms, Matrices, GraphSize                 \* VisualGraph

VARIABLES
  lprogram, lpc, ltodo, lroot, ltail, lnext, lprev, lvalue, lcount, lalive, lcall,
  test, dat, dheld, items, dturn, dstatus, misused,
  hash, buckets, fnode, fheap, fstep, fseen, wrong,
  glpc, driver, own, libGL, pointers, flags, GLVersion, max_loaded, group, exts_i, strings,
  app, apc, res, astatus,
  gprogram, gpc, gres, ptr, matrix, gpath, distance, on_path, path_edge, running, starved, fault

lists == <<lprogram, lpc, ltodo, lroot, ltail, lnext, lprev, lvalue, lcount, lalive, lcall>>
drivers == <<test, dat, dheld, items, dturn, dstatus, misused>>
firsthash == <<hash, buckets, fnode, fheap, fstep, fseen, wrong>>
loader == <<glpc, driver, own, libGL, pointers, flags, GLVersion, max_loaded, group, exts_i, strings>>
apps == <<app, apc, res, astatus>>
graph == <<gprogram, gpc, gres, ptr, matrix, gpath, distance, on_path, path_edge, running, starved, fault>>

concurrent == <<vars, sockets, processes, channels>>
containers == <<lists, drivers, firsthash>>
drawing == <<loader, apps, graph>>

Lst == INSTANCE LinkedLists WITH
  Nodes <- ListNodes, Turns <- ListTurns, program <- lprogram, pc <- lpc, todo <- ltodo, root <- lroot,
  tail <- ltail, next <- lnext, prev <- lprev, value <- lvalue, count <- lcount, alive <- lalive,
  call <- lcall

ASSUME Lst!ListsAssumption

Drv == INSTANCE Drivers WITH
  Buckets <- FirstBuckets,
  at <- dat, held <- dheld, turn <- dturn, status <- dstatus, seen <- fseen

GL == INSTANCE OpenGL WITH Drivers <- GLDrivers, status <- astatus

Vis == INSTANCE VisualGraph WITH Nodes <- GraphSize, res <- gres, path <- gpath

TextsOfLines ==
  UNION {[1..n -> {"x", "nl"}] : n \in 0..4} \cup {<<"x", "nul", "nl", "x">>, <<"nul", "nl">>}

MCPriority == u1 :> 0 @@ u2 :> 1 @@ u3 :> 1

\* The names of OpenGL, whatever the drivers are.
GL0 == INSTANCE OpenGL WITH Drivers <- {}, Apps <- {}, status <- astatus

\* Implementations of all the versions that change what is loaded, without one of the
\* commands that are needed, or without the groups of two versions.
Missing == {{}} \cup {{c} : c \in {"glSpecializeShader", "glGetIntegerv", "glGetStringi", "glGetString"}}
Versions == {GL0!NoVersion, GL0!Unreadable, <<1, 0>>, <<1, 4>>, <<2, 1>>, <<3, 1>>, <<3, 3>>, <<4, 5>>, <<4, 6>>}
MCDrivers ==
  [version : Versions,
   missing : Missing \cup {GL0!load_GL_VERSION_4_3 \cup GL0!load_GL_VERSION_4_6}, exts : 0..2]
MCAppDrivers == [version : {GL0!NoVersion, <<4, 6>>}, missing : Missing, exts : {0, 2}]

\* Chains of four vertices with any of the other edges, of two weights.
Edges == {{0, 1}, {1, 2}, {2, 3}}
MCMatrices == UNION {[Edges \cup e -> {1, 3}] : e \in SUBSET {{0, 2}, {0, 3}, {1, 3}}}

MCInit ==
  /\ AllInit
  /\ Lst!Init /\ (part # "lists" => lprogram = "stack" /\ lpc = "caller")
  /\ Drv!DInit /\ (part # "drivers" => test = "set")
  /\ Drv!FirstInit /\ (part # "firsthash" => \A k \in DOMAIN hash : hash[k] = 0)
  /\ GL!AllGLInit
  /\ IF part = "apps" THEN driver \in AppDrivers ELSE app = "app"
  /\ part \notin {"apps", "loader"} => driver = [version |-> <<4, 6>>, missing |-> {}, exts |-> 0]
  /\ Vis!GInit /\ (part # "graph" => gprogram = "native")

MCNext ==
  \/ AllNext /\ UNCHANGED <<containers, drawing>>
  \/ Only("lists", Lst!Next) /\ UNCHANGED <<concurrent, drivers, firsthash, drawing>>
  \/ Only("drivers", Drv!DNext) /\ UNCHANGED <<concurrent, lists, firsthash, drawing>>
  \/ Only("firsthash", Drv!FirstNext) /\ UNCHANGED <<concurrent, lists, drivers, drawing>>
  \/ Only("loader", GL!GLNext) /\ UNCHANGED <<concurrent, containers, apps, graph>>
  \/ Only("apps", GL!AppNext) /\ UNCHANGED <<concurrent, containers, graph>>
  \/ Only("graph", Vis!GNext) /\ UNCHANGED <<concurrent, containers, loader, apps>>

MCSpec == MCInit /\ [][MCNext]_<<allvars, containers, drawing>> /\ AllFairness

-----------------------------------------------------------------------------
\* Lists: whatever is called, the pointers of a stack or a list lead to all that is allocated
\* and to nothing else, from both ends.
ChainsSound == Lst!ChainSound

\* A call on a stack or list does to its values what the list promises, and nothing if it fails.
ListsRight == Lst!ListsRight

\* Programs without a partner: those that try the containers out, the first hash table and
\* those that draw give back once what they made, whichever call fails, one that goes on calls
\* OpenGL through no null pointer, and the path that is drawn is a shortest one of the graph.
AloneSound ==
  /\ Drv!DriversInv /\ Drv!FirstHashInv
  /\ GL!GLInv /\ GL!AppsInv /\ Vis!GraphInv
=============================================================================
