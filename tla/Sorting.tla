------------------------------- MODULE Sorting --------------------------------
(***************************************************************************)
(* The sorts of the repository, and its search, on one array:              *)
(*   insertion  src/quicksort/quicksort.c, and insertion-sort.c;           *)
(*   quick      src/quicksort/quicksort.c, with a pivot rand() picks;      *)
(*   merge      src/mergesort/mergesort.c;                                 *)
(*   count      src/countsort/count.c;                                     *)
(*   heap, heap_ex  heap_sort_t and heap_sort_ex of src/heap/heap.c, which *)
(*              put the greatest first;                                    *)
(*   bubble, list  sort of src/sort.c, and sort_list of src/llist-sort.c,  *)
(*              whose data it moves from node to node;                     *)
(*   search     bin_search of src/binary_search/bsearch.c, on an array     *)
(*              that is sorted.                                            *)
(* An element is its key and the place it had at first, which compare does *)
(* not see.  The recursive sorts keep what is left to do on a stack, top   *)
(* first.  Indices are those of the code plus one.                         *)
(***************************************************************************)
EXTENDS Naturals, SequencesExt, FiniteSetsExt

CONSTANTS
  Sorts,    \* the sorts looked at
  Arrays,   \* the sequences of keys they are given
  Targets,  \* the keys looked for
  MaxCalls  \* bound on the calls of quick_sort that end no shorter than they began

VARIABLES
  sort,
  pc,       \* "idle", "run", "turn" (a loop), "true", "false" or "void"
  arr,
  given,    \* the array at first
  todo,     \* calls and loops of the recursion that are left
  lo, hi, pivot,   \* of the loop: i, k and p_val; swapped; l, r and target
  temp,     \* m_ptr, output or temp; m
  heap,     \* of heap_sort_ex
  nomem     \* an allocation has failed

vars == <<sort, pc, arr, given, todo, lo, hi, pivot, temp, heap, nomem>>
loop == <<lo, hi, pivot, temp>>

Key(e) == e[1]
Ascending(s) == \A i \in 1..(Len(s)-1) : Key(s[i]) <= Key(s[i+1])
Elements(keys) == [i \in DOMAIN keys |-> <<keys[i], i>>]
n == Len(arr)

Init ==
  /\ pc = "idle" /\ sort = "none"
  /\ arr = <<>> /\ given = <<>> /\ todo = <<>>
  /\ lo = 0 /\ hi = 0 /\ pivot = 0 /\ temp = <<>>
  /\ heap = <<>> /\ nomem = FALSE

Greater(a, b) == Key(a) > Key(b)
Smaller(a, b) == Key(a) < Key(b)
LOCAL MaxHeap == INSTANCE HeapOps WITH Before <- Greater
LOCAL MinHeap == INSTANCE HeapOps WITH Before <- Smaller

Task(op, i, k) == [op |-> op, i |-> i, k |-> k]

\* The first steps of each sort.  What the code refuses, an empty array, is "false".  All
\* keys are smaller than the k count_sort is given.
Call ==
  /\ pc = "idle"
  /\ sort' \in Sorts
  /\ \E keys \in Arrays : arr' = Elements(keys) /\ given' = arr'
  /\ sort' = "search" => Ascending(arr')
  /\ LET size == Len(arr')
         s == sort'
     IN  /\ pc' = CASE s \in {"quick", "count"} /\ size = 0 -> "false"
                    [] s \in {"heap", "heap_ex"} /\ size <= 1 -> "true"
                    [] s \in {"bubble", "list"} /\ size = 0 -> "void"
                    [] s = "bubble" /\ size = 1 -> "void"
                    [] s \in {"quick", "merge"} -> "run"
                    [] OTHER -> "turn"
         /\ todo' = IF pc' = "run" THEN <<Task(s, 1, size)>> ELSE <<>>
         /\ lo' = CASE s \in {"insertion", "bubble", "list"} -> 2
                    [] s = "count" -> size
                    [] s = "heap" -> size \div 2
                    [] OTHER -> 1
         /\ hi' = size
         /\ pivot' \in IF s = "search" THEN Targets ELSE {0}
  /\ UNCHANGED <<temp, nomem>>

\* A malloc at the start of insertion_sort, count_sort or heap_sort_ex, or a heap_insert
\* of the last, fails.
NoMemory ==
  /\ pc = "turn" /\ temp = <<>>
  /\ \/ sort = "insertion" /\ lo = 2 /\ pc' = "void"
     \/ sort = "count" /\ lo = hi /\ pc' = "false"
     \/ sort = "heap_ex" /\ lo <= hi /\ pc' = "false"
  /\ nomem' = TRUE
  /\ UNCHANGED <<sort, arr, given, todo, loop>>

-----------------------------------------------------------------------------
(***************************************************************************)
(* insertion_sort: one turn of the outer loop.                             *)
(***************************************************************************)
\* Where arr[i] goes: behind the last element before it that is not greater.
Place(i) == Max({0} \cup {j \in 1..(i-1) : Key(arr[j]) <= Key(arr[i])}) + 1

InsertionTurn ==
  /\ sort = "insertion" /\ pc = "turn"
  /\ IF lo > n THEN pc' = "void" /\ UNCHANGED <<arr, lo>>
     ELSE /\ arr' = [j \in 1..n |->
                       IF j = Place(lo) THEN arr[lo]
                       ELSE IF j \in (Place(lo)+1)..lo THEN arr[j-1] ELSE arr[j]]
          /\ lo' = lo + 1
          /\ UNCHANGED pc
  /\ UNCHANGED <<sort, given, todo, hi, pivot, temp, nomem>>

-----------------------------------------------------------------------------
(***************************************************************************)
(* quick_sort and partition.                                               *)
(***************************************************************************)
Return(result) == pc' = result /\ UNCHANGED <<arr, todo, loop>>

\* A call with i > k is refused; the loop of a call ends when i = k.
QuickCall ==
  /\ sort = "quick" /\ pc = "run"
  /\ IF todo = <<>> THEN Return("true") /\ UNCHANGED nomem
     ELSE LET t == Head(todo)
          IN  IF t.op = "quick" /\ t.i > t.k THEN Return("false") /\ UNCHANGED nomem
              ELSE IF t.i >= t.k
              THEN todo' = Tail(todo) /\ UNCHANGED <<pc, arr, loop, nomem>>
              ELSE \/ /\ pc' = "turn"
                      /\ \E z \in t.i..t.k :
                           pivot' = Key(arr[z]) /\ (z = t.k => Len(todo) < MaxCalls)
                      /\ lo' = t.i - 1 /\ hi' = t.k + 1
                      /\ UNCHANGED <<arr, todo, temp, nomem>>
                   \/ Return("false") /\ nomem' = TRUE
  /\ UNCHANGED <<sort, given>>

\* Where the two scans of a turn stop.  ScansStop says that they do.
DownStops == {j \in 1..(hi-1) : Key(arr[j]) <= pivot}
UpStops == {j \in (lo+1)..n : Key(arr[j]) >= pivot}

SwapOrSplit(k, i) ==
  LET t == Head(todo)
  IN  IF i >= k
      THEN /\ pc' = "run"
           /\ todo' = <<Task("quick", t.i, k), Task("rest", k + 1, t.k)>> \o Tail(todo)
           /\ UNCHANGED <<arr, lo, hi>>
      ELSE /\ arr' = [arr EXCEPT ![i] = arr[k], ![k] = arr[i]]
           /\ lo' = i /\ hi' = k
           /\ UNCHANGED <<pc, todo>>

QuickTurn ==
  /\ sort = "quick" /\ pc = "turn"
  /\ SwapOrSplit(Max(DownStops), Min(UpStops))
  /\ UNCHANGED <<sort, given, pivot, temp, nomem>>

-----------------------------------------------------------------------------
(***************************************************************************)
(* merge_sort_ex and merge: lo, hi are i_, z_ in the two halves.           *)
(***************************************************************************)
Half(i, k) == i + (k - i) \div 2

MergeCall ==
  /\ sort = "merge" /\ pc = "run"
  /\ IF todo = <<>> THEN Return("true") /\ UNCHANGED nomem
     ELSE LET t == Head(todo)
              z == Half(t.i, t.k)
          IN  IF t.i >= t.k
              THEN todo' = Tail(todo) /\ UNCHANGED <<pc, arr, loop, nomem>>
              ELSE IF t.op = "merge"
              THEN /\ todo' = <<Task("merge", t.i, z), Task("merge", z + 1, t.k),
                                Task("join", t.i, t.k)>> \o Tail(todo)
                   /\ UNCHANGED <<pc, arr, loop, nomem>>
              ELSE \/ /\ pc' = "turn"
                      /\ lo' = t.i /\ hi' = z + 1 /\ temp' = <<>>
                      /\ UNCHANGED <<arr, todo, pivot, nomem>>
                   \/ Return("false") /\ nomem' = TRUE
  /\ UNCHANGED <<sort, given>>

TakeLeftStrict == Key(arr[lo]) < Key(arr[hi])
TakeLeft == Key(arr[lo]) <= Key(arr[hi])

\* One element to m_ptr, or what is left of one half, and all of it back.
MergeTurn ==
  /\ sort = "merge" /\ pc = "turn"
  /\ LET t == Head(todo)
         z == Half(t.i, t.k)
     IN  IF lo <= z /\ hi <= t.k
         THEN /\ IF TakeLeft
                 THEN temp' = Append(temp, arr[lo]) /\ lo' = lo + 1 /\ hi' = hi
                 ELSE temp' = Append(temp, arr[hi]) /\ hi' = hi + 1 /\ lo' = lo
              /\ UNCHANGED <<pc, arr, todo>>
         ELSE /\ temp' = temp \o (IF lo <= z THEN SubSeq(arr, lo, z) ELSE SubSeq(arr, hi, t.k))
              /\ arr' = SubSeq(arr, 1, t.i - 1) \o temp' \o SubSeq(arr, t.k + 1, n)
              /\ pc' = "run" /\ todo' = Tail(todo)
              /\ UNCHANGED <<lo, hi>>
  /\ UNCHANGED <<sort, given, pivot, nomem>>

-----------------------------------------------------------------------------
(***************************************************************************)
(* count_sort: a turn of its last loop, from the back.                     *)
(***************************************************************************)
\* count[v] in that loop: the elements up to v, less those of v already placed.
CountOf(v) ==
  Cardinality({j \in 1..n : Key(arr[j]) <= v}) - Cardinality({j \in (lo+1)..n : Key(arr[j]) = v})

CountTurn ==
  /\ sort = "count" /\ pc = "turn"
  /\ IF lo = 0
     THEN /\ arr' = [j \in 1..n |-> (CHOOSE p \in ToSet(temp) : p[1] = j)[2]]
          /\ pc' = "true"
          /\ UNCHANGED <<lo, temp>>
     ELSE /\ temp' = Append(temp, <<CountOf(Key(arr[lo])), arr[lo]>>)
          /\ lo' = lo - 1
          /\ UNCHANGED <<pc, arr>>
  /\ UNCHANGED <<sort, given, todo, hi, pivot, nomem>>

-----------------------------------------------------------------------------
(***************************************************************************)
(* heap_sort_t: shift_down from lo down to 1, then from the top each time  *)
(* it has put the top behind the rest.                                     *)
(***************************************************************************)
Sifted(i, end) ==
  MinHeap!SiftDown(SubSeq(arr, 1, end), i) \o SubSeq(arr, end + 1, n)

HeapTurn ==
  /\ sort = "heap" /\ pc = "turn"
  /\ IF lo >= 1
     THEN arr' = Sifted(lo, hi) /\ lo' = lo - 1 /\ UNCHANGED <<pc, hi>>
     ELSE IF hi > 1
     THEN /\ arr' = MinHeap!SiftDown(SubSeq(MinHeap!Exchange(arr, 1, hi), 1, hi - 1), 1)
                      \o <<arr[1]>> \o SubSeq(arr, hi + 1, n)
          /\ hi' = hi - 1
          /\ UNCHANGED <<pc, lo>>
     ELSE pc' = "true" /\ UNCHANGED <<arr, lo, hi>>
  /\ UNCHANGED <<sort, given, todo, pivot, temp, nomem>>

(***************************************************************************)
(* heap_sort_ex: all elements into a heap, and all out of it.              *)
(***************************************************************************)
HeapExTurn ==
  /\ sort = "heap_ex" /\ pc = "turn"
  /\ IF lo <= hi
     THEN heap' = MaxHeap!Inserted(heap, arr[lo]) /\ lo' = lo + 1 /\ UNCHANGED <<pc, arr, temp>>
     ELSE IF heap # <<>>
     THEN /\ temp' = Append(temp, heap[1]) /\ heap' = MaxHeap!Extracted(heap)
          /\ UNCHANGED <<pc, arr, lo>>
     ELSE arr' = temp /\ pc' = "true" /\ UNCHANGED <<lo, temp, heap>>
  /\ UNCHANGED <<sort, given, todo, hi, pivot, nomem>>

(***************************************************************************)
(* The two bubble sorts: a turn of their inner loop, or the end of a pass. *)
(***************************************************************************)
\* sort.c stops when one element is left, sort_list only after a pass without a swap.
PassesOn == pivot = 1 /\ (sort = "bubble" => hi > 2)

BubbleTurn ==
  /\ sort \in {"bubble", "list"} /\ pc = "turn"
  /\ IF lo <= hi
     THEN /\ IF Key(arr[lo-1]) > Key(arr[lo])
             THEN arr' = [arr EXCEPT ![lo-1] = arr[lo], ![lo] = arr[lo-1]] /\ pivot' = 1
             ELSE UNCHANGED <<arr, pivot>>
          /\ lo' = lo + 1
          /\ UNCHANGED <<pc, hi>>
     ELSE /\ pc' = IF PassesOn THEN "turn" ELSE "void"
          /\ lo' = 2 /\ hi' = hi - 1 /\ pivot' = 0
          /\ UNCHANGED arr
  /\ UNCHANGED <<sort, given, todo, temp, nomem>>

(***************************************************************************)
(* bin_search: a turn of its loop.  cmp must return -1, 0 or 1; the loop   *)
(* has no exit for anything else.                                          *)
(***************************************************************************)
SearchTurn ==
  /\ sort = "search" /\ pc = "turn"
  /\ LET m == (lo + hi - 2) \div 2 + 1
     IN  IF lo > hi THEN pc' = "false" /\ UNCHANGED <<lo, hi, temp>>
         ELSE IF Key(arr[m]) < pivot THEN lo' = m + 1 /\ UNCHANGED <<pc, hi, temp>>
         ELSE IF Key(arr[m]) > pivot THEN hi' = m - 1 /\ UNCHANGED <<pc, lo, temp>>
         ELSE pc' = "true" /\ temp' = <<m>> /\ UNCHANGED <<lo, hi>>
  /\ UNCHANGED <<sort, arr, given, todo, pivot, nomem>>

Next ==
  \/ HeapExTurn
  \/ /\ \/ Call \/ NoMemory \/ InsertionTurn \/ QuickCall \/ QuickTurn \/ MergeCall \/ MergeTurn
        \/ CountTurn \/ HeapTurn \/ BubbleTurn \/ SearchTurn
     /\ UNCHANGED heap

Spec == Init /\ [][Next]_vars

-----------------------------------------------------------------------------
(***************************************************************************)
(* Properties.                                                             *)
(***************************************************************************)
Ended == pc \in {"true", "false", "void"}

\* Every variable stays in its range.
TypeOK ==
  /\ pc \in {"idle", "run", "turn"} \/ Ended
  /\ sort \in Sorts \cup {"none"} /\ nomem \in BOOLEAN
  /\ {lo, hi} \subseteq 0..(n+2)
  /\ \A i \in DOMAIN todo : todo[i].i \in 1..(n+1) /\ todo[i].k \in 0..n

\* No element is lost or doubled, whatever fails in the middle.
Permuted == Len(arr) = Len(given) /\ ToSet(arr) = ToSet(given)

InOrder ==
  CASE sort \in {"quick", "search"} -> Ascending(arr)
    [] sort \in {"heap", "heap_ex"} -> Ascending(Reverse(arr))
    [] OTHER -> \A i \in 1..(n-1) :   \* equal keys keep their order
                  \/ Key(arr[i]) < Key(arr[i+1])
                  \/ Key(arr[i]) = Key(arr[i+1]) /\ arr[i][2] < arr[i+1][2]

\* Success means a sorted array and that no allocation failed.  insertion_sort reports
\* nothing: without memory it leaves the array as it was.
Result ==
  /\ Ended /\ ~nomem /\ given # <<>> => (sort # "search" => pc # "false") /\ InOrder
  /\ nomem => pc # "true"
  /\ nomem /\ sort \in {"insertion", "count", "heap_ex"} => arr = given

\* Neither scan of partition leaves the part it works on: it has no test for the ends
\* and relies on the pivot, or on what was swapped before, to stop it.  The part it
\* returns is shorter than the one it was given, unless the pivot was the last element
\* and the only greatest, when quick_sort calls itself for the same part again.
ScansStop ==
  sort = "quick" /\ pc = "turn" =>
    LET t == Head(todo)
    IN  /\ \E j \in DownStops : j >= t.i
        /\ \E j \in UpStops : j <= t.k
        /\ LET k == Max(DownStops)
           IN  Min(UpStops) >= k =>
                 k < t.k \/ \A j \in t.i..(t.k-1) : Key(arr[j]) < pivot

\* The search finds an element if there is one with the key, and says where.
Found ==
  sort = "search" =>
    /\ arr = given
    /\ pc = "true" => Key(arr[temp[1]]) = pivot
    /\ pc = "false" => \A i \in 1..n : Key(arr[i]) # pivot

\* What holds of the sorts and of the search.
SortInv == TypeOK /\ Permuted /\ Result /\ ScansStop /\ Found
=============================================================================
