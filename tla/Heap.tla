--------------------------------- MODULE Heap ---------------------------------
(***************************************************************************)
(* The binary heap of src/heap/heap.c (src/compression has the same file). *)
(* A call starts with its checks and the store that breaks the order; each *)
(* turn of its loop is a step, so that the heap with one node out of place *)
(* is a state that invariants speak of.                                    *)
(*                                                                         *)
(* The objects are the pointers the callers allocate: each is in the heap  *)
(* at most once.  compare sees their Rank.  That realloc is never asked    *)
(* for SIZE_MAX bytes is assumed.                                          *)
(***************************************************************************)
EXTENDS Integers, FiniteSets

CONSTANTS
  Objects, Rank,
  Null,
  InitCap   \* HEAP_DEFAULT_SIZE

ASSUME HeapAssumption ==
  /\ IsFiniteSet(Objects) /\ Null \notin Objects
  /\ Rank \in [Objects -> Nat]
  /\ InitCap \in Nat \ {0}

VARIABLES
  pc,     \* "idle", "up" in heap_insert, "down" in heap_extract, "gone"
  tree,   \* the cells in use
  size, cap,
  pos,    \* ipos of heap_insert, i of heap_extract
  out     \* *data of the last heap_extract or heap_peek

vars == <<pc, tree, size, cap, pos, out>>

Init ==
  /\ pc = "idle"
  /\ tree = [i \in 0..(-1) |-> Null]
  /\ size = 0 /\ cap = InitCap
  /\ pos = 0
  /\ out = Null

Parent(i) == (i - 1) \div 2
Left(i) == 2 * i + 1
Right(i) == 2 * i + 2

InHeap(x) == \E i \in DOMAIN tree : tree[i] = x
HalfSwap(i, j) == [tree EXCEPT ![i] = tree[j]]
Swap(i, j) == [tree EXCEPT ![i] = tree[j], ![j] = tree[i]]

\* Growth when the array is full.
NoGrowth == cap
NewCap == IF cap = 0 THEN 1 ELSE 2 * cap

Insert(x) ==
  /\ pc = "idle" /\ ~InHeap(x)
  /\ cap' = IF size = cap THEN NewCap ELSE cap
  /\ tree' = [i \in 0..size |-> IF i = size THEN x ELSE tree[i]]
  /\ pos' = size
  /\ pc' = "up"
  /\ UNCHANGED <<size, out>>

\* realloc fails: the caller keeps the object.
InsertFails ==
  /\ pc = "idle" /\ size = cap
  /\ UNCHANGED vars

Above == Rank[tree[Parent(pos)]] >= Rank[tree[pos]]
InPlaceFirstTurn == pos > 0 /\ pos = size => Above
InPlace == pos > 0 => Above

Up ==
  /\ pc = "up" /\ ~InPlace
  /\ tree' = Swap(pos, Parent(pos))
  /\ pos' = Parent(pos)
  /\ UNCHANGED <<pc, size, cap, out>>

UpDone ==
  /\ pc = "up" /\ InPlace
  /\ size' = size + 1
  /\ pc' = "idle"
  /\ UNCHANGED <<tree, cap, pos, out>>

\* The last object goes to the top, unless it is the only one.
Extract ==
  /\ pc = "idle" /\ size > 0
  /\ out' = tree[0]
  /\ size' = size - 1
  /\ tree' = [i \in 0..(size-2) |-> IF i = 0 THEN tree[size-1] ELSE tree[i]]
  /\ pos' = 0
  /\ pc' = IF size = 1 THEN "idle" ELSE "down"
  /\ UNCHANGED cap

\* The larger of node i and its child c.
Larger(i, c) == IF c < size /\ Rank[tree[c]] > Rank[tree[i]] THEN c ELSE i
Largest == Larger(Larger(pos, Left(pos)), Right(pos))

Down ==
  /\ pc = "down" /\ Largest # pos
  /\ tree' = Swap(pos, Largest)
  /\ pos' = Largest
  /\ UNCHANGED <<pc, size, cap, out>>

DownDone ==
  /\ pc = "down" /\ Largest = pos
  /\ pc' = "idle"
  /\ UNCHANGED <<tree, size, cap, pos, out>>

Peek ==
  /\ pc = "idle" /\ size > 0
  /\ out' = tree[0]
  /\ UNCHANGED <<pc, tree, size, cap, pos>>

\* destroy is called on every object in the heap.
Destroy ==
  /\ pc = "idle"
  /\ pc' = "gone"
  /\ tree' = [i \in 0..(-1) |-> Null]
  /\ size' = 0 /\ cap' = 0 /\ pos' = 0
  /\ UNCHANGED out

New ==
  /\ pc = "gone"
  /\ pc' = "idle"
  /\ cap' = InitCap
  /\ UNCHANGED <<tree, size, pos, out>>

Next ==
  \/ InsertFails \/ Up \/ UpDone \/ Extract \/ Down \/ DownDone \/ Peek \/ Destroy \/ New
  \/ \E x \in Objects : Insert(x)

Spec == Init /\ [][Next]_vars

-----------------------------------------------------------------------------
(***************************************************************************)
(* Properties.                                                             *)
(***************************************************************************)
\* Every variable stays in its range: the cells in use are those counted, and the one
\* that heap_insert has filled; they fit in the array, and the loops stay among them.
TypeOK ==
  /\ pc \in {"idle", "up", "down", "gone"}
  /\ size \in Nat /\ cap \in Nat
  /\ tree \in [0..(IF pc = "up" THEN size ELSE size - 1) -> Objects]
  /\ pos \in Nat
  /\ pc = "up" => pos <= size /\ size < cap
  /\ pc = "down" => pos < size
  /\ size <= cap
  /\ pc = "gone" => size = 0
  /\ out \in Objects \cup {Null}

\* Node i is not larger than its parent.
Ordered(i) == Rank[tree[Parent(i)]] >= Rank[tree[i]]

\* Between calls no node is larger than its parent.
HeapOrder == pc = "idle" => \A i \in 1..(size-1) : Ordered(i)

\* What heap_extract and heap_peek take from the top has the greatest rank in the heap.
TopIsMax == pc = "idle" => \A i \in 0..(size-1) : Rank[tree[0]] >= Rank[tree[i]]

\* The order while a loop has one node out of place: all are ordered but that one, below
\* its parent (up) or above its children (down), and its children are below its parent.
Around == pos > 0 => \A i \in DOMAIN tree \ {0} : Parent(i) = pos => Rank[tree[Parent(pos)]] >= Rank[tree[i]]
AlmostOrdered ==
  /\ pc = "up" => Around /\ \A i \in 1..size : i # pos => Ordered(i)
  /\ pc = "down" => Around /\ \A i \in 1..(size-1) : Parent(i) # pos => Ordered(i)

\* No object is in the heap twice.
Distinct == \A i, j \in DOMAIN tree : tree[i] = tree[j] => i = j

\* The inductive invariant.
HeapInv == TypeOK /\ Distinct /\ HeapOrder /\ AlmostOrdered

-----------------------------------------------------------------------------
(***************************************************************************)
(* The heap is a priority queue: what heap_insert got is in it until       *)
(* heap_extract has given it out, once.                                    *)
(***************************************************************************)
Content == {tree[i] : i \in DOMAIN tree}

Queue == INSTANCE AbstractQueue WITH content <- Content

QueueSpec == Queue!Spec
=============================================================================
