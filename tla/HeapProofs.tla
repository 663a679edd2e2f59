----------------------------- MODULE HeapProofs ------------------------------
(***************************************************************************)
(* Proofs about Heap for any finite set of objects, any ranks and any      *)
(* first capacity: the order is never lost, the top is a maximum, and the  *)
(* heap implements the priority queue of AbstractQueue.                    *)
(* Then about two programs built around a heap: those that put lines in    *)
(* order (LineHeap), and the Huffman compressor's handling of its files.   *)
(***************************************************************************)
EXTENDS Heap, Sequences, FiniteSetTheorems, WellFoundedInduction, TLAPS

-----------------------------------------------------------------------------
(***************************************************************************)
(* Nodes and their parents.                                                *)
(***************************************************************************)
LEMMA ParentIs ==
  ASSUME NEW i \in Nat \ {0}
  PROVE  /\ Parent(i) \in Nat /\ Parent(i) < i
         /\ i = Left(Parent(i)) \/ i = Right(Parent(i))
BY DEF Parent, Left, Right

\* A non-empty set of natural numbers has a least element.
LEMMA Least ==
  ASSUME NEW P, P \subseteq Nat, P # {}
  PROVE  \E p \in P : \A q \in P : p <= q
<1> DEFINE R == OpToRel(<, Nat)
<1>1. IsWellFoundedOn(R, Nat)
  BY NatLessThanWellFounded
<1>2. \A x, y \in Nat : <<x, y>> \in R <=> x < y
  BY DEF OpToRel
<1> HIDE DEF R
<1>3. PICK p \in P : \A q \in P : ~(<<q, p>> \in R)
  BY <1>1, WFMin
<1>4. ASSUME NEW q \in P PROVE p <= q
  <2>1. p \in Nat /\ q \in Nat /\ ~(q < p)
    BY <1>2, <1>3
  <2> QED
    BY <2>1
<1> QED
  BY <1>4

\* An ordered heap has a maximum on top: a node with a larger rank than the top and the
\* least index of those would have a parent with a larger rank, too.
LEMMA TopRule == HeapInv => TopIsMax
<1> SUFFICES ASSUME HeapInv, pc = "idle", NEW k \in 0..(size-1), ~(Rank[tree[0]] >= Rank[tree[k]])
             PROVE  FALSE
  BY DEF TopIsMax
<1> DEFINE Bad == {i \in 0..(size-1) : ~(Rank[tree[0]] >= Rank[tree[i]])}
<1>1. PICK p \in Bad : \A q \in Bad : p <= q
  <2>1. Bad \subseteq Nat /\ Bad # {}
    BY DEF HeapInv, TypeOK
  <2> QED
    BY <2>1, Least
<1>2. size \in Nat /\ tree \in [0..(size-1) -> Objects]
  BY DEF HeapInv, TypeOK
<1>3. \A i \in 0..(size-1) : Rank[tree[i]] \in Nat
  BY <1>2, HeapAssumption
<1>4. p # 0
  BY <1>2, <1>3
<1>5. p \in Nat \ {0} /\ p \in 0..(size-1)
  BY <1>2, <1>4
<1>6. Parent(p) \in 0..(size-1) /\ Parent(p) < p
  BY <1>2, <1>5, ParentIs
<1>7. Rank[tree[0]] >= Rank[tree[Parent(p)]]
  BY <1>1, <1>2, <1>6
<1>8. Rank[tree[Parent(p)]] >= Rank[tree[p]]
  BY <1>2, <1>5 DEF HeapInv, HeapOrder, Ordered
<1> QED
  BY <1>2, <1>3, <1>5, <1>6, <1>7, <1>8

-----------------------------------------------------------------------------
(***************************************************************************)
(* The inductive invariant, one lemma per action.                          *)
(***************************************************************************)
LEMMA InitInv == Init => HeapInv
<1> SUFFICES ASSUME Init PROVE HeapInv
  OBVIOUS
<1>1. TypeOK
  BY HeapAssumption DEF Init, TypeOK
<1>2. Distinct /\ HeapOrder /\ AlmostOrdered
  BY DEF Init, Distinct, HeapOrder, AlmostOrdered
<1> QED
  BY <1>1, <1>2 DEF HeapInv

LEMMA InsertInv == ASSUME HeapInv, NEW x \in Objects, Insert(x) PROVE HeapInv'
<1>1. /\ size \in Nat /\ cap \in Nat /\ size <= cap /\ tree \in [0..(size-1) -> Objects]
      /\ size' = size /\ pos' = size /\ pc' = "up" /\ out' = out /\ pc = "idle"
      /\ \A i \in 0..(size-1) : tree[i] # x
  BY DEF HeapInv, TypeOK, Insert, InHeap
<1>2. /\ tree' \in [0..size -> Objects] /\ tree'[size] = x
      /\ \A i \in 0..(size-1) : tree'[i] = tree[i]
  BY <1>1 DEF Insert
<1>3. cap' \in Nat /\ size < cap'
  BY <1>1 DEF Insert, NewCap
<1>4. TypeOK'
  BY <1>1, <1>2, <1>3 DEF HeapInv, TypeOK
<1>5. Distinct'
  BY <1>1, <1>2 DEF HeapInv, Distinct
<1>6. \A i \in 1..size : i # size => Ordered(i)'
  <2> SUFFICES ASSUME NEW i \in 1..size, i # size PROVE Ordered(i)'
    OBVIOUS
  <2>1. i \in 0..(size-1) /\ Parent(i) \in 0..(size-1)
    BY <1>1, ParentIs
  <2>2. Ordered(i)
    BY <1>1 DEF HeapInv, HeapOrder
  <2> QED
    BY <1>2, <2>1, <2>2 DEF Ordered
<1>7. \A i \in 1..size : Parent(i) # size
  BY <1>1, ParentIs
<1>8. Around'
  BY <1>1, <1>2, <1>7 DEF Around
<1> QED
  BY <1>1, <1>4, <1>5, <1>6, <1>8 DEF HeapInv, HeapOrder, AlmostOrdered

\* What swapping two nodes does to the tree.
LEMMA SwapRule ==
  ASSUME NEW n \in Nat, tree \in [0..n -> Objects], NEW i \in 0..n, NEW j \in 0..n,
         tree' = Swap(i, j)
  PROVE  /\ tree' \in [0..n -> Objects]
         /\ tree'[i] = tree[j] /\ tree'[j] = tree[i]
         /\ \A k \in 0..n : k # i /\ k # j => tree'[k] = tree[k]
         /\ Distinct => Distinct'
         /\ Content' = Content
<1>1. /\ tree' \in [0..n -> Objects]
      /\ tree'[i] = tree[j] /\ tree'[j] = tree[i]
      /\ \A k \in 0..n : k # i /\ k # j => tree'[k] = tree[k]
  BY DEF Swap
<1>2. Distinct => Distinct'
  BY <1>1 DEF Distinct
<1>3. Content' = Content
  <2>1. Content = {tree[k] : k \in 0..n} /\ Content' = {tree'[k] : k \in 0..n}
    BY <1>1 DEF Content
  <2>2. ASSUME NEW k \in 0..n PROVE tree[k] \in Content' /\ tree'[k] \in Content
    BY <1>1, <2>1
  <2> QED
    BY <2>1, <2>2
<1> QED
  BY <1>1, <1>2, <1>3

LEMMA UpInv == ASSUME HeapInv, Up PROVE HeapInv'
<1> DEFINE par == Parent(pos)
<1>1. /\ size \in Nat /\ cap \in Nat /\ size < cap /\ tree \in [0..size -> Objects]
      /\ pc = "up" /\ pc' = "up" /\ pos \in 1..size /\ pos' = par
      /\ size' = size /\ cap' = cap /\ out' = out
      /\ ~(Rank[tree[par]] >= Rank[tree[pos]])
  BY DEF HeapInv, TypeOK, Up, InPlace, Above
<1>2. par \in 0..size /\ par < pos
  BY <1>1, ParentIs
<1>3. /\ tree' \in [0..size -> Objects]
      /\ tree'[pos] = tree[par] /\ tree'[par] = tree[pos]
      /\ \A k \in 0..size : k # pos /\ k # par => tree'[k] = tree[k]
      /\ Distinct'
  BY <1>1, <1>2, SwapRule DEF Up, HeapInv
<1>4. /\ \A k \in 0..size : Rank[tree[k]] \in Nat
      /\ \A i \in 1..size : i # pos => Rank[tree[Parent(i)]] >= Rank[tree[i]]
      /\ \A i \in 1..size : Parent(i) = pos => Rank[tree[par]] >= Rank[tree[i]]
  BY <1>1, HeapAssumption DEF HeapInv, AlmostOrdered, Around, Ordered
<1>5. TypeOK'
  BY <1>1, <1>2, <1>3 DEF HeapInv, TypeOK
<1>6. ASSUME NEW i \in 1..size, i # par PROVE Rank[tree'[Parent(i)]] >= Rank[tree'[i]]
  <2>1. Parent(i) \in 0..size /\ Parent(i) # i
    BY <1>1, ParentIs
  <2>2. CASE i = pos
    BY <1>1, <1>2, <1>3, <1>4, <2>2
  <2>3. CASE i # pos /\ Parent(i) = pos
    BY <1>1, <1>3, <1>4, <1>6, <2>3
  <2>4. CASE i # pos /\ Parent(i) = par
    BY <1>1, <1>2, <1>3, <1>4, <1>6, <2>4
  <2>5. CASE i # pos /\ Parent(i) # pos /\ Parent(i) # par
    BY <1>3, <1>4, <1>6, <2>1, <2>5
  <2> QED
    BY <2>2, <2>3, <2>4, <2>5
<1>7. ASSUME par > 0, NEW i \in 1..size, Parent(i) = par
      PROVE  Rank[tree'[Parent(par)]] >= Rank[tree'[i]]
  <2>1. Parent(par) \in 0..size /\ Parent(par) < par /\ i # par
    BY <1>1, <1>2, <1>7, ParentIs
  <2>2. tree'[Parent(par)] = tree[Parent(par)]
    BY <1>2, <1>3, <2>1
  <2>3. Rank[tree[Parent(par)]] >= Rank[tree[par]]
    BY <1>1, <1>2, <1>4, <1>7
  <2>4. CASE i = pos
    BY <1>3, <2>2, <2>3, <2>4
  <2>5. CASE i # pos
    <3>1. Rank[tree[par]] >= Rank[tree[i]] /\ tree'[i] = tree[i]
      BY <1>3, <1>4, <1>7, <2>1, <2>5
    <3> QED
      BY <1>2, <1>4, <2>1, <2>2, <2>3, <3>1
  <2> QED
    BY <2>4, <2>5
<1>8. AlmostOrdered'
  BY <1>1, <1>3, <1>6, <1>7 DEF AlmostOrdered, Around, Ordered
<1> QED
  BY <1>1, <1>3, <1>5, <1>8 DEF HeapInv, HeapOrder

LEMMA UpDoneInv == ASSUME HeapInv, UpDone PROVE HeapInv'
<1>1. /\ size \in Nat /\ cap \in Nat /\ size < cap /\ tree \in [0..size -> Objects]
      /\ pc = "up" /\ pc' = "idle" /\ pos \in 0..size
      /\ size' = size + 1 /\ UNCHANGED <<tree, cap, pos, out>>
  BY DEF HeapInv, TypeOK, UpDone
<1>2. TypeOK'
  BY <1>1 DEF HeapInv, TypeOK
<1>3. Distinct'
  BY <1>1 DEF HeapInv, Distinct
<1>4. \A i \in 1..size : Ordered(i)
  <2>1. \A i \in 1..size : i # pos => Ordered(i)
    BY <1>1 DEF HeapInv, AlmostOrdered
  <2>2. pos \in 1..size => Ordered(pos)
    BY DEF UpDone, InPlace, Above, Ordered
  <2> QED
    BY <2>1, <2>2
<1>5. HeapOrder'
  BY <1>1, <1>4 DEF HeapOrder, Ordered
<1> QED
  BY <1>1, <1>2, <1>3, <1>5 DEF HeapInv, AlmostOrdered

LEMMA ExtractInv == ASSUME HeapInv, Extract PROVE HeapInv'
<1>1. /\ size \in Nat \ {0} /\ cap \in Nat /\ size <= cap /\ tree \in [0..(size-1) -> Objects]
      /\ pc = "idle" /\ pc' = IF size = 1 THEN "idle" ELSE "down"
      /\ size' = size - 1 /\ pos' = 0 /\ cap' = cap /\ out' = tree[0]
  BY DEF HeapInv, TypeOK, Extract
<1>2. /\ tree' \in [0..(size-2) -> Objects]
      /\ \A i \in 1..(size-2) : tree'[i] = tree[i]
      /\ size > 1 => tree'[0] = tree[size-1]
  BY <1>1 DEF Extract
<1>3. TypeOK'
  BY <1>1, <1>2 DEF HeapInv, TypeOK
<1>4. Distinct'
  BY <1>1, <1>2 DEF HeapInv, Distinct
<1>5. size = 1 => HeapOrder'
  BY <1>1 DEF HeapOrder
<1>6. ASSUME NEW i \in 1..(size-2), Parent(i) # 0 PROVE Ordered(i)'
  <2>1. Parent(i) \in 1..(size-2)
    BY <1>1, <1>6, ParentIs
  <2>2. Ordered(i)
    BY <1>1 DEF HeapInv, HeapOrder
  <2> QED
    BY <1>2, <2>1, <2>2 DEF Ordered
<1>7. AlmostOrdered'
  BY <1>1, <1>6 DEF AlmostOrdered, Around
<1> QED
  BY <1>1, <1>3, <1>4, <1>5, <1>7 DEF HeapInv, HeapOrder

\* The child a turn of heap_extract goes on with is no smaller than node and children.
LEMMA LargestIs ==
  ASSUME HeapInv, pc = "down"
  PROVE  /\ Largest \in {pos} \cup {i \in 1..(size-1) : Parent(i) = pos}
         /\ Largest # pos => Rank[tree[Largest]] > Rank[tree[pos]]
         /\ \A i \in 1..(size-1) : Parent(i) = pos => Rank[tree[Largest]] >= Rank[tree[i]]
<1>1. size \in Nat /\ pos \in 0..(size-1) /\ tree \in [0..(size-1) -> Objects]
  BY DEF HeapInv, TypeOK
<1>2. \A i \in 0..(size-1) : Rank[tree[i]] \in Nat
  BY <1>1, HeapAssumption
<1>3. \A i \in 1..(size-1) : Parent(i) = pos <=> i = Left(pos) \/ i = Right(pos)
  BY <1>1 DEF Parent, Left, Right
<1>4. Left(pos) \in Nat \ {0} /\ Right(pos) \in Nat \ {0}
  BY <1>1 DEF Left, Right
<1> DEFINE m == Larger(pos, Left(pos))
<1>5. /\ m \in 0..(size-1) /\ m \in {pos, Left(pos)}
      /\ Rank[tree[m]] >= Rank[tree[pos]]
      /\ m # pos => Rank[tree[m]] > Rank[tree[pos]]
      /\ Left(pos) < size => Rank[tree[m]] >= Rank[tree[Left(pos)]]
  BY <1>1, <1>2, <1>4 DEF Larger
<1> HIDE DEF m
<1>6. Largest = IF Right(pos) < size /\ Rank[tree[Right(pos)]] > Rank[tree[m]] THEN Right(pos) ELSE m
  BY DEF Larger, Largest, m
<1>7. /\ Largest \in 0..(size-1) /\ Largest \in {m, Right(pos)}
      /\ Rank[tree[Largest]] >= Rank[tree[m]]
      /\ Largest # m => Rank[tree[Largest]] > Rank[tree[m]]
      /\ Right(pos) < size => Rank[tree[Largest]] >= Rank[tree[Right(pos)]]
  BY <1>1, <1>2, <1>4, <1>5, <1>6
<1> HIDE DEF Largest
<1>8. Largest \in {pos} \cup {i \in 1..(size-1) : Parent(i) = pos}
  BY <1>1, <1>3, <1>4, <1>5, <1>7
<1>9. Largest # pos => Rank[tree[Largest]] > Rank[tree[pos]]
  BY <1>1, <1>2, <1>5, <1>7
<1>10. ASSUME NEW i \in 1..(size-1), Parent(i) = pos PROVE Rank[tree[Largest]] >= Rank[tree[i]]
  BY <1>1, <1>2, <1>3, <1>5, <1>7, <1>10
<1> QED
  BY <1>8, <1>9, <1>10

LEMMA DownInv == ASSUME HeapInv, Down PROVE HeapInv'
<1> DEFINE c == Largest
<1>1. /\ size \in Nat /\ cap \in Nat /\ size <= cap /\ tree \in [0..(size-1) -> Objects]
      /\ pc = "down" /\ pc' = "down" /\ pos \in 0..(size-1) /\ pos' = c /\ c # pos
      /\ size' = size /\ cap' = cap /\ out' = out /\ tree' = Swap(pos, c)
  BY DEF HeapInv, TypeOK, Down
<1>2. /\ c \in 1..(size-1) /\ Parent(c) = pos /\ Rank[tree[c]] > Rank[tree[pos]]
      /\ \A i \in 1..(size-1) : Parent(i) = pos => Rank[tree[c]] >= Rank[tree[i]]
  BY <1>1, LargestIs
<1> HIDE DEF c
<1>3. pos < c
  BY <1>1, <1>2, ParentIs
<1>4. /\ tree' \in [0..(size-1) -> Objects]
      /\ tree'[pos] = tree[c] /\ tree'[c] = tree[pos]
      /\ \A k \in 0..(size-1) : k # pos /\ k # c => tree'[k] = tree[k]
      /\ Distinct'
  <2>1. size - 1 \in Nat /\ c \in 0..(size-1) /\ pos \in 0..(size-1)
    BY <1>1, <1>2
  <2> QED
    BY <1>1, <2>1, SwapRule DEF HeapInv
<1>5. /\ \A k \in 0..(size-1) : Rank[tree[k]] \in Nat
      /\ \A i \in 1..(size-1) : Parent(i) # pos => Rank[tree[Parent(i)]] >= Rank[tree[i]]
      /\ pos > 0 => \A i \in 1..(size-1) : Parent(i) = pos => Rank[tree[Parent(pos)]] >= Rank[tree[i]]
  BY <1>1, HeapAssumption DEF HeapInv, AlmostOrdered, Around, Ordered
<1>6. TypeOK'
  BY <1>1, <1>2, <1>4 DEF HeapInv, TypeOK
<1>7. ASSUME NEW i \in 1..(size-1), Parent(i) # c PROVE Rank[tree'[Parent(i)]] >= Rank[tree'[i]]
  <2>1. Parent(i) \in 0..(size-1) /\ Parent(i) # i /\ Parent(i) < i
    BY <1>1, ParentIs
  <2>2. CASE i = c
    BY <1>1, <1>2, <1>4, <1>5, <2>2
  <2>3. CASE i # c /\ Parent(i) = pos
    BY <1>1, <1>2, <1>4, <2>1, <2>3
  <2>4. CASE i = pos
    BY <1>1, <1>2, <1>3, <1>4, <1>5, <1>7, <2>1, <2>4
  <2>5. CASE i # c /\ i # pos /\ Parent(i) # pos
    BY <1>4, <1>5, <1>7, <2>1, <2>5
  <2> QED
    BY <2>2, <2>3, <2>4, <2>5
<1>8. ASSUME NEW i \in 1..(size-1), Parent(i) = c PROVE Rank[tree'[Parent(c)]] >= Rank[tree'[i]]
  <2>1. i # c /\ i # pos /\ Parent(i) # pos
    BY <1>1, <1>2, <1>3, <1>8, ParentIs
  <2> QED
    BY <1>2, <1>4, <1>5, <1>8, <2>1
<1>9. AlmostOrdered'
  BY <1>1, <1>4, <1>7, <1>8 DEF AlmostOrdered, Around, Ordered
<1> QED
  BY <1>1, <1>4, <1>6, <1>9 DEF HeapInv, HeapOrder

LEMMA DownDoneInv == ASSUME HeapInv, DownDone PROVE HeapInv'
<1>1. /\ size \in Nat /\ pc = "down" /\ pc' = "idle" /\ UNCHANGED <<tree, size, cap, pos, out>>
      /\ Largest = pos
  BY DEF HeapInv, TypeOK, DownDone
<1>2. TypeOK' /\ Distinct'
  BY <1>1 DEF HeapInv, TypeOK, Distinct
<1>3. ASSUME NEW i \in 1..(size-1) PROVE Ordered(i)
  <2>1. CASE Parent(i) = pos
    BY <1>1, <2>1, LargestIs DEF Ordered
  <2>2. CASE Parent(i) # pos
    BY <1>1, <2>2 DEF HeapInv, AlmostOrdered
  <2> QED
    BY <2>1, <2>2
<1>4. HeapOrder'
  BY <1>1, <1>3 DEF HeapOrder, Ordered
<1> QED
  BY <1>1, <1>2, <1>4 DEF HeapInv, AlmostOrdered

LEMMA DestroyInv == ASSUME HeapInv, Destroy PROVE HeapInv'
<1>1. TypeOK'
  BY DEF HeapInv, TypeOK, Destroy
<1> QED
  BY <1>1 DEF HeapInv, Destroy, Distinct, HeapOrder, AlmostOrdered

LEMMA NewInv == ASSUME HeapInv, New PROVE HeapInv'
<1>1. TypeOK' /\ size = 0
  BY HeapAssumption DEF HeapInv, TypeOK, New
<1> QED
  BY <1>1 DEF HeapInv, New, Distinct, HeapOrder, AlmostOrdered

LEMMA StepInv == HeapInv /\ [Next]_vars => HeapInv'
<1> SUFFICES ASSUME HeapInv, [Next]_vars PROVE HeapInv'
  OBVIOUS
<1>1. CASE UNCHANGED vars
  BY <1>1 DEF vars, HeapInv, TypeOK, Distinct, HeapOrder, AlmostOrdered, Around, Ordered
<1>2. CASE Peek
  <2>1. UNCHANGED <<pc, tree, size, cap, pos>> /\ out' \in Objects \cup {Null}
    BY <1>2 DEF Peek, HeapInv, TypeOK
  <2> QED
    BY <2>1 DEF HeapInv, TypeOK, Distinct, HeapOrder, AlmostOrdered, Around, Ordered
<1>3. CASE InsertFails
  BY <1>1, <1>3 DEF InsertFails
<1> QED
  BY <1>1, <1>2, <1>3, InsertInv, UpInv, UpDoneInv, ExtractInv, DownInv, DownDoneInv, DestroyInv, NewInv
  DEF Next

\* Whatever is inserted and extracted, every node is in its place between calls and only
\* the one a loop is moving is not; the array has room for it, and no object is in two cells.
THEOREM Shape == Spec => []HeapInv
BY InitInv, StepInv, PTL DEF Spec

\* heap_extract and heap_peek find an object of the greatest rank on top.
THEOREM TopRight == Spec => []TopIsMax
BY InitInv, StepInv, TopRule, PTL DEF Spec

-----------------------------------------------------------------------------
(***************************************************************************)
(* The heap implements the priority queue.                                 *)
(***************************************************************************)
LEMMA Frame == tree' = tree => Content' = Content
BY DEF Content

LEMMA InsertRefines == ASSUME HeapInv, NEW x \in Objects, Insert(x) PROVE Queue!Insert(x)
<1>1. /\ size \in Nat /\ tree \in [0..(size-1) -> Objects]
      /\ \A i \in 0..(size-1) : tree[i] # x
  BY DEF HeapInv, TypeOK, Insert, InHeap
<1>2. /\ tree' \in [0..size -> Objects] /\ tree'[size] = x
      /\ \A i \in 0..(size-1) : tree'[i] = tree[i]
  BY <1>1 DEF Insert
<1>3. Content = {tree[i] : i \in 0..(size-1)} /\ Content' = {tree'[i] : i \in 0..size}
  BY <1>1, <1>2 DEF Content
<1>4. x \notin Content
  BY <1>1, <1>3
<1>5. 0..size = 0..(size-1) \cup {size}
  BY <1>1
<1>6. Content' = Content \cup {x}
  BY <1>2, <1>3, <1>5
<1> QED
  BY <1>4, <1>6 DEF Insert, Queue!Insert

\* The top is larger than any object in the heap.
LEMMA TopMaximal ==
  ASSUME HeapInv, pc = "idle", size > 0
  PROVE  tree[0] \in Content /\ Queue!Maximal(tree[0])
<1>1. size \in Nat /\ tree \in [0..(size-1) -> Objects]
  BY DEF HeapInv, TypeOK
<1>2. Content = {tree[i] : i \in 0..(size-1)}
  BY <1>1 DEF Content
<1>3. \A i \in 0..(size-1) : Rank[tree[i]] \in Nat
  BY <1>1, HeapAssumption
<1>4. \A i \in 0..(size-1) : Rank[tree[0]] >= Rank[tree[i]]
  BY TopRule DEF TopIsMax
<1>5. \A i \in 0..(size-1) : Rank[tree[i]] <= Rank[tree[0]]
  BY <1>1, <1>3, <1>4
<1> QED
  BY <1>1, <1>2, <1>5 DEF Queue!Maximal

LEMMA ExtractRefines == ASSUME HeapInv, Extract PROVE \E x \in Objects : Queue!Extract(x)
<1>1. /\ size \in Nat \ {0} /\ tree \in [0..(size-1) -> Objects] /\ pc = "idle" /\ out' = tree[0]
  BY DEF HeapInv, TypeOK, Extract
<1>2. /\ tree' \in [0..(size-2) -> Objects]
      /\ \A i \in 1..(size-2) : tree'[i] = tree[i]
      /\ size > 1 => tree'[0] = tree[size-1]
  BY <1>1 DEF Extract
<1>3. Content = {tree[i] : i \in 0..(size-1)} /\ Content' = {tree'[i] : i \in 0..(size-2)}
  BY <1>1, <1>2 DEF Content
<1>4. Content' = Content \ {tree[0]}
  <2>1. ASSUME NEW i \in 0..(size-2) PROVE tree'[i] \in Content \ {tree[0]}
    <3>1. \E j \in 1..(size-1) : tree'[i] = tree[j]
      <4>1. CASE i = 0
        BY <1>1, <1>2, <2>1, <4>1
      <4>2. CASE i # 0
        BY <1>1, <1>2, <2>1, <4>2
      <4> QED
        BY <4>1, <4>2
    <3>2. \A j \in 1..(size-1) : tree[j] # tree[0]
      BY <1>1 DEF HeapInv, Distinct
    <3> QED
      BY <1>1, <1>3, <3>1, <3>2
  <2>2. ASSUME NEW j \in 1..(size-1) PROVE tree[j] \in Content'
    <3>1. CASE j = size - 1
      BY <1>1, <1>2, <1>3, <2>2, <3>1
    <3>2. CASE j # size - 1
      BY <1>1, <1>2, <1>3, <2>2, <3>2
    <3> QED
      BY <3>1, <3>2
  <2>3. \A j \in 0..(size-1) : j = 0 \/ j \in 1..(size-1)
    BY <1>1
  <2> QED
    BY <1>3, <2>1, <2>2, <2>3
<1>5. tree[0] \in Objects
  BY <1>1
<1>6. Queue!Extract(tree[0])
  BY <1>1, <1>4, TopMaximal DEF Queue!Extract
<1> QED
  BY <1>5, <1>6

LEMMA PeekRefines == ASSUME HeapInv, Peek PROVE \E x \in Objects : Queue!Peek(x)
<1>1. tree[0] \in Objects /\ pc = "idle" /\ size > 0 /\ out' = tree[0] /\ tree' = tree
  BY DEF HeapInv, TypeOK, Peek
<1>2. Queue!Peek(tree[0])
  BY <1>1, TopMaximal, Frame DEF Queue!Peek
<1> QED
  BY <1>1, <1>2

LEMMA SwapsStutter == ASSUME HeapInv, Up \/ Down PROVE Content' = Content /\ out' = out
<1>1. CASE Up
  <2>1. /\ size \in Nat /\ tree \in [0..size -> Objects] /\ pos \in 1..size
        /\ tree' = Swap(pos, Parent(pos)) /\ out' = out
    BY <1>1 DEF HeapInv, TypeOK, Up, InPlace
  <2>2. Parent(pos) \in 0..size /\ pos \in 0..size
    BY <2>1, ParentIs
  <2> QED
    BY <2>1, <2>2, SwapRule
<1>2. CASE Down
  <2>1. /\ size - 1 \in Nat /\ tree \in [0..(size-1) -> Objects] /\ pos \in 0..(size-1)
        /\ tree' = Swap(pos, Largest) /\ out' = out /\ pc = "down" /\ Largest # pos
    BY <1>2 DEF HeapInv, TypeOK, Down
  <2>2. Largest \in 0..(size-1)
    BY <2>1, LargestIs
  <2> QED
    BY <2>1, <2>2, SwapRule
<1> QED
  BY <1>1, <1>2

LEMMA StepRefines == ASSUME HeapInv, [Next]_vars PROVE [Queue!Next]_<<Content, out>>
<1> USE DEF Queue!Next
<1>1. CASE UNCHANGED vars \/ InsertFails \/ UpDone \/ DownDone \/ New
  BY <1>1, Frame DEF vars, InsertFails, UpDone, DownDone, New
<1>2. CASE Destroy
  <2>1. DOMAIN tree' = {}
    BY <1>2 DEF Destroy
  <2>2. Content' = {}
    BY <2>1 DEF Content
  <2> QED
    BY <1>2, <2>2 DEF Destroy, Queue!Destroy
<1> QED
  BY <1>1, <1>2, InsertRefines, ExtractRefines, PeekRefines, SwapsStutter DEF Next

\* What was inserted and not extracted is in the heap, and what is given out is one of
\* the greatest rank in it.
THEOREM ImplementsQueue == Spec => QueueSpec
<1>1. Init => Queue!Init
  BY DEF Init, Content, Queue!Init
<1>2. HeapInv /\ [Next]_vars => [Queue!Next]_<<Content, out>>
  BY StepRefines
<1> QED
  BY <1>1, <1>2, Shape, PTL DEF Spec, QueueSpec, Queue!Spec

-----------------------------------------------------------------------------
(***************************************************************************)
(* The programs that put lines in order (LineHeap), and the calls on the   *)
(* heap they make in one piece (HeapOps), for any files and any failures.  *)
(***************************************************************************)
CONSTANTS Programs, Arguments
VARIABLES lpc, lprogram, args, lfile, lnext, lheap, owned, lout, opened

Lin == INSTANCE LineHeap WITH
  pc <- lpc, program <- lprogram, file <- lfile, next <- lnext, heap <- lheap, out <- lout

LEMMA Steps ==
  ASSUME NEW P, 0 \in P, \A n \in Nat : n \in P => n + 1 \in P
  PROVE  Nat \subseteq P
<1> DEFINE Rest == Nat \ P
<1> SUFFICES ASSUME Rest # {} PROVE FALSE
  OBVIOUS
<1>1. PICK n \in Rest : \A q \in Rest : n <= q
  BY Least
<1>2. n \in Nat /\ n # 0 /\ n - 1 \in Nat /\ (n - 1) + 1 = n /\ ~(n <= n - 1)
  BY <1>1
<1>3. n - 1 \in P
  BY <1>1, <1>2
<1> QED
  BY <1>1, <1>2, <1>3

\* A turn of one of the two loops, and the states after each of the turns.
Turned(up, s) == IF up THEN Lin!H!Rise(s) ELSE Lin!H!Sink(s)
TurnStep(up, f, h, k, n) == IF n = 0 THEN [h |-> h, at |-> k] ELSE Turned(up, f[n - 1])

LEMMA TurnsUpTo ==
  ASSUME NEW up, NEW h, NEW k, NEW m \in Nat
  PROVE  \E f : f = [n \in 0..m |-> TurnStep(up, f, h, k, n)]
<1> DEFINE P == {j \in Nat : \E f : f = [n \in 0..j |-> TurnStep(up, f, h, k, n)]}
<1>1. 0 \in P
  <2> DEFINE f == [n \in 0..0 |-> [h |-> h, at |-> k]]
  <2>1. f = [n \in 0..0 |-> TurnStep(up, f, h, k, n)]
    <3>1. \A n \in 0..0 : n = 0
      OBVIOUS
    <3> QED
      BY <3>1 DEF TurnStep
  <2> QED
    BY <2>1
<1>2. ASSUME NEW j \in Nat, j \in P PROVE j + 1 \in P
  <2>1. PICK f : f = [n \in 0..j |-> TurnStep(up, f, h, k, n)]
    BY <1>2
  <2> DEFINE g == [n \in 0..(j + 1) |-> IF n = j + 1 THEN Turned(up, f[j]) ELSE f[n]]
  <2>2. ASSUME NEW n \in 0..(j + 1) PROVE g[n] = TurnStep(up, g, h, k, n)
    <3>1. CASE n = 0
      <4>1. g[0] = f[0] /\ f[0] = TurnStep(up, f, h, k, 0)
        BY <1>2, <2>1
      <4> QED
        BY <3>1, <4>1 DEF TurnStep
    <3>2. CASE n # 0 /\ n # j + 1
      <4>1. n \in 0..j /\ n - 1 \in 0..j /\ n - 1 \in 0..(j + 1) /\ n - 1 # j + 1
        BY <3>2
      <4>2. g[n] = f[n] /\ g[n - 1] = f[n - 1]
        BY <3>2, <4>1
      <4>3. f[n] = TurnStep(up, f, h, k, n)
        BY <2>1, <4>1
      <4> HIDE DEF g
      <4> QED
        BY <3>2, <4>2, <4>3 DEF TurnStep
    <3>3. CASE n = j + 1
      <4>1. n # 0 /\ n - 1 = j /\ j \in 0..(j + 1) /\ j # j + 1
        BY <1>2, <3>3
      <4>2. g[n] = Turned(up, f[j]) /\ g[j] = f[j]
        BY <3>3, <4>1
      <4> HIDE DEF g
      <4> QED
        BY <4>1, <4>2 DEF TurnStep
    <3> QED
      BY <3>1, <3>2, <3>3
  <2>3. g = [n \in 0..(j + 1) |-> TurnStep(up, g, h, k, n)]
    <3>1. g = [n \in 0..(j + 1) |-> g[n]]
      OBVIOUS
    <3> HIDE DEF g
    <3> QED
      BY <2>2, <3>1
  <2>4. \E a : a = [n \in 0..(j + 1) |-> TurnStep(up, a, h, k, n)]
    <3> HIDE DEF g
    <3> QED
      BY <2>3
  <2>5. j + 1 \in Nat
    BY <1>2
  <2> QED
    BY <2>4, <2>5
<1>3. Nat \subseteq P
  <2> HIDE DEF P
  <2> QED
    BY <1>1, <1>2, Steps
<1> QED
  BY <1>3

\* The states of a node on its way up, and of one on its way down.
LEMMA SettledUp ==
  ASSUME NEW h, NEW k, Len(h) \in Nat
  PROVE  \E f : /\ f[0] = [h |-> h, at |-> k] /\ \A n \in 0..(Len(h) - 1) : f[n + 1] = Lin!H!Rise(f[n])
                /\ Lin!H!Settle(h, k, Lin!H!Rise) = f[Len(h)].h
<1> DEFINE f == CHOOSE f : f = [n \in 0..Len(h) |-> TurnStep(TRUE, f, h, k, n)]
<1>1. f = [n \in 0..Len(h) |-> TurnStep(TRUE, f, h, k, n)]
  BY TurnsUpTo
<1>2. Lin!H!Settle(h, k, Lin!H!Rise) = f[Len(h)].h
  BY DEF Lin!H!Settle, TurnStep, Turned
<1> HIDE DEF f
<1>3. f[0] = [h |-> h, at |-> k]
  BY <1>1 DEF TurnStep
<1>4. ASSUME NEW n \in 0..(Len(h) - 1) PROVE f[n + 1] = Lin!H!Rise(f[n])
  <2>1. n + 1 \in 0..Len(h) /\ n + 1 # 0 /\ (n + 1) - 1 = n
    OBVIOUS
  <2> QED
    BY <1>1, <2>1 DEF TurnStep, Turned
<1> QED
  BY <1>2, <1>3, <1>4

LEMMA SettledDown ==
  ASSUME NEW h, NEW k, Len(h) \in Nat
  PROVE  \E f : /\ f[0] = [h |-> h, at |-> k] /\ \A n \in 0..(Len(h) - 1) : f[n + 1] = Lin!H!Sink(f[n])
                /\ Lin!H!Settle(h, k, Lin!H!Sink) = f[Len(h)].h
<1> DEFINE f == CHOOSE f : f = [n \in 0..Len(h) |-> TurnStep(FALSE, f, h, k, n)]
<1>1. f = [n \in 0..Len(h) |-> TurnStep(FALSE, f, h, k, n)]
  BY TurnsUpTo
<1>2. Lin!H!Settle(h, k, Lin!H!Sink) = f[Len(h)].h
  BY DEF Lin!H!Settle, TurnStep, Turned
<1> HIDE DEF f
<1>3. f[0] = [h |-> h, at |-> k]
  BY <1>1 DEF TurnStep
<1>4. ASSUME NEW n \in 0..(Len(h) - 1) PROVE f[n + 1] = Lin!H!Sink(f[n])
  <2>1. n + 1 \in 0..Len(h) /\ n + 1 # 0 /\ (n + 1) - 1 = n
    OBVIOUS
  <2> QED
    BY <1>1, <2>1 DEF TurnStep, Turned
<1> QED
  BY <1>2, <1>3, <1>4

Worth(e) == Lin!Line(e).rank

\* No element is there twice.
Once(h) == \A p, q \in 1..Len(h) : p # q => h[p] # h[q]
All(h) == {h[p] : p \in 1..Len(h)}
\* A heap of n entries of a set S, in any order.
HeapOf(h, n, S) == h \in Seq(S) /\ Len(h) = n /\ Once(h) /\ All(h) = S
Under(h, p) == Worth(h[p \div 2]) >= Worth(h[p])
Topped(h) == \A p \in 2..Len(h) : Under(h, p)

LEMMA HalfPlace ==
  ASSUME NEW p \in Nat, p >= 2
  PROVE  p \div 2 \in Nat /\ p \div 2 >= 1 /\ p \div 2 < p /\ (p = 2 * (p \div 2) \/ p = 2 * (p \div 2) + 1)
OBVIOUS

\* g is h with two elements exchanged.
Swapped(g, h, n, S, a, b) ==
  /\ HeapOf(g, n, S) /\ g[a] = h[b] /\ g[b] = h[a]
  /\ \A p \in 1..n : p # a /\ p # b => g[p] = h[p]

LEMMA Exchanged ==
  ASSUME NEW S, NEW n \in Nat, NEW h, HeapOf(h, n, S), NEW a \in 1..n, NEW b \in 1..n
  PROVE  Swapped(Lin!H!Exchange(h, a, b), h, n, S, a, b)
<1> DEFINE g == Lin!H!Exchange(h, a, b)
<1>1. h \in Seq(S) /\ Len(h) = n /\ h \in [1..n -> S]
  BY DEF HeapOf
<1>2. g = [h EXCEPT ![a] = h[b], ![b] = h[a]]
  BY DEF Lin!H!Exchange
<1>3. g \in [1..n -> S]
  BY <1>1, <1>2
<1>4. g \in Seq(S) /\ Len(g) = n
  BY <1>3
<1>5. g[a] = h[b] /\ g[b] = h[a] /\ \A p \in 1..n : p # a /\ p # b => g[p] = h[p]
  BY <1>1, <1>2
<1> HIDE DEF g
<1>6. Once(g)
  BY <1>1, <1>4, <1>5 DEF HeapOf, Once
<1>7. All(g) = All(h)
  BY <1>1, <1>4, <1>5 DEF All
<1> QED
  BY <1>1, <1>4, <1>5, <1>6, <1>7 DEF HeapOf, Swapped, g

\* A node on its way up: only it may be greater than its parent.
Rising(s, n, S) ==
  /\ HeapOf(s.h, n, S) /\ s.at \in 1..n
  /\ \A p \in 2..n : p # s.at => Under(s.h, p)
  /\ \A p \in 2..n : p \div 2 = s.at /\ s.at > 1 => Worth(s.h[s.at \div 2]) >= Worth(s.h[p])
Risen(s) == ~(s.at > 1 /\ Lin!Before(s.h[s.at], s.h[s.at \div 2]))

LEMMA RiseRule ==
  ASSUME NEW S, \A e \in S : Worth(e) \in Nat, NEW n \in Nat, NEW s, Rising(s, n, S)
  PROVE  /\ Rising(Lin!H!Rise(s), n, S)
         /\ Risen(s) => Lin!H!Rise(s) = s
         /\ ~Risen(s) => Lin!H!Rise(s).at < s.at
<1> DEFINE h == s.h
           b == s.at
           a == b \div 2
<1>1. HeapOf(h, n, S) /\ b \in 1..n /\ h \in Seq(S) /\ Len(h) = n /\ \A p \in 1..n : h[p] \in S /\ Worth(h[p]) \in Nat
  BY DEF Rising, HeapOf
<1>2. CASE Risen(s)
  BY <1>2 DEF Risen, Lin!H!Rise
<1>3. CASE ~Risen(s)
  <2> DEFINE g == Lin!H!Exchange(h, b, a)
  <2>1. b > 1 /\ Worth(h[b]) > Worth(h[a])
    BY <1>3 DEF Risen, Lin!Before, Worth
  <2>2. b \in Nat /\ b >= 2 /\ b \in 2..n
    BY <1>1, <2>1
  <2>3. a \in Nat /\ a >= 1 /\ a < b /\ a \in 1..n /\ (b = 2 * a \/ b = 2 * a + 1)
    <3> HIDE DEF b
    <3>1. a \in Nat /\ a >= 1 /\ a < b /\ (b = 2 * a \/ b = 2 * a + 1)
      BY <2>2, HalfPlace
    <3>2. b <= n
      BY <2>2
    <3> QED
      BY <2>2, <3>1, <3>2
  <2>4. Lin!H!Rise(s) = [h |-> g, at |-> a]
    BY <1>3 DEF Risen, Lin!H!Rise
  <2>5. HeapOf(g, n, S) /\ g[b] = h[a] /\ g[a] = h[b] /\ \A p \in 1..n : p # b /\ p # a => g[p] = h[p]
    <3> HIDE DEF h, b, a
    <3>1. HeapOf(h, n, S) /\ b \in 1..n /\ a \in 1..n
      BY <1>1, <2>3
    <3>2. Swapped(g, h, n, S, b, a)
      BY <3>1, Exchanged
    <3> HIDE DEF g
    <3> QED
      BY <3>2 DEF Swapped
  <2>6. /\ \A p \in 2..n : p # b => Worth(h[p \div 2]) >= Worth(h[p])
        /\ \A p \in 2..n : p \div 2 = b => Worth(h[a]) >= Worth(h[p])
    BY <2>1 DEF Rising, Under
  <2>7. \A p \in 2..n : p \in Nat /\ p >= 2 /\ p \in 1..n /\ p \div 2 \in 1..n /\ p \div 2 < p
    BY HalfPlace
  <2> HIDE DEF g, h
  <2>8. ASSUME NEW p \in 2..n, p # a PROVE Worth(g[p \div 2]) >= Worth(g[p])
    <3> DEFINE q == p \div 2
    <3>0. p \in 1..n /\ q \in 1..n /\ q < p
      BY <2>7
    <3>1. CASE p = b
      <4>1. q = a
        BY <3>1
      <4> QED
        BY <1>1, <2>1, <2>3, <2>5, <3>1, <4>1
    <3>2. CASE p # b /\ q = b
      <4>1. g[p] = h[p] /\ g[q] = h[a] /\ Worth(h[a]) >= Worth(h[p])
        BY <2>5, <2>6, <2>8, <3>0, <3>2
      <4> QED
        BY <4>1
    <3>3. CASE p # b /\ q = a
      <4>1. g[p] = h[p] /\ g[q] = h[b] /\ Worth(h[a]) >= Worth(h[p])
        BY <2>5, <2>6, <2>8, <3>0, <3>3
      <4>2. Worth(h[a]) \in Nat /\ Worth(h[b]) \in Nat /\ Worth(h[p]) \in Nat
        BY <1>1, <2>3, <3>0
      <4> QED
        BY <2>1, <4>1, <4>2
    <3>4. CASE p # b /\ q # b /\ q # a
      <4>1. g[p] = h[p] /\ g[q] = h[q] /\ Worth(h[q]) >= Worth(h[p])
        BY <2>5, <2>6, <2>8, <3>0, <3>4
      <4> QED
        BY <4>1
    <3> QED
      BY <3>1, <3>2, <3>3, <3>4
  <2>9. ASSUME NEW p \in 2..n, p \div 2 = a, a > 1 PROVE Worth(g[a \div 2]) >= Worth(g[p])
    <3> DEFINE c == a \div 2
    <3>0. a \in 2..n /\ a # b
      BY <2>3, <2>9
    <3>1. c \in 1..n /\ c < a /\ Worth(h[c]) >= Worth(h[a])
      BY <2>6, <2>7, <3>0
    <3> HIDE DEF c
    <3>2. c # a /\ c # b /\ g[c] = h[c]
      BY <2>3, <2>5, <3>1
    <3>3. p # a
      BY <2>7, <2>9
    <3>4. CASE p = b
      BY <2>5, <3>1, <3>2, <3>4 DEF c
    <3>5. CASE p # b
      <4>1. g[p] = h[p] /\ Worth(h[a]) >= Worth(h[p])
        BY <2>5, <2>6, <2>7, <2>9, <3>3, <3>5
      <4>2. Worth(h[a]) \in Nat /\ Worth(h[c]) \in Nat /\ Worth(h[p]) \in Nat
        BY <1>1, <2>3, <2>7, <3>1
      <4> QED
        BY <3>1, <3>2, <4>1, <4>2 DEF c
    <3> QED
      BY <3>4, <3>5
  <2>10. Rising([h |-> g, at |-> a], n, S)
    BY <2>3, <2>5, <2>8, <2>9 DEF Rising, Under
  <2> QED
    BY <1>3, <2>3, <2>4, <2>10
<1> QED
  BY <1>2, <1>3

\* A node on its way down: only its children may be greater than it.
Sinking(s, n, S) ==
  /\ HeapOf(s.h, n, S) /\ s.at \in 1..n
  /\ \A p \in 2..n : p \div 2 # s.at => Under(s.h, p)
  /\ \A p \in 2..n : p \div 2 = s.at /\ s.at > 1 => Worth(s.h[s.at \div 2]) >= Worth(s.h[p])
Sunk(s, n) == \A p \in 2..n : p \div 2 = s.at => Under(s.h, p)

LEMMA Children ==
  ASSUME NEW b \in Nat, b >= 1, NEW p \in Nat
  PROVE  p \div 2 = b <=> p = 2 * b \/ p = 2 * b + 1
OBVIOUS

\* The greatest of a node and its children.
LEMMA SinkWhere ==
  ASSUME NEW S, \A e \in S : Worth(e) \in Nat, NEW n \in Nat, NEW s, Sinking(s, n, S)
  PROVE  \E m \in 1..n :
           /\ Lin!H!Sink(s) = [h |-> Lin!H!Exchange(s.h, s.at, m), at |-> m]
           /\ m = s.at \/ (m > 1 /\ m \div 2 = s.at /\ m > s.at)
           /\ \A p \in 2..n : p \div 2 = s.at => Worth(s.h[m]) >= Worth(s.h[p])
           /\ m = s.at <=> Sunk(s, n)
           /\ Worth(s.h[m]) >= Worth(s.h[s.at])
<1> DEFINE h == s.h
           b == s.at
           Upper(x, c) == IF c <= Len(h) /\ Lin!Before(h[c], h[x]) THEN c ELSE x
           k == Upper(b, 2 * b)
           m == Upper(k, 2 * b + 1)
<1>1. HeapOf(h, n, S) /\ b \in 1..n /\ h \in Seq(S) /\ Len(h) = n /\ \A p \in 1..n : h[p] \in S /\ Worth(h[p]) \in Nat
  BY DEF Sinking, HeapOf
<1>2. b \in Nat /\ b >= 1 /\ b <= n
  BY <1>1
<1>3. Lin!H!Sink(s) = [h |-> Lin!H!Exchange(h, b, m), at |-> m]
  BY DEF Lin!H!Sink
<1>4. \A x, y : Lin!Before(x, y) <=> Worth(x) > Worth(y)
  BY DEF Lin!Before, Worth
<1>5. k = IF 2 * b <= n /\ Worth(h[2 * b]) > Worth(h[b]) THEN 2 * b ELSE b
  BY <1>1, <1>4
<1>6. m = IF 2 * b + 1 <= n /\ Worth(h[2 * b + 1]) > Worth(h[k]) THEN 2 * b + 1 ELSE k
  BY <1>1, <1>4
<1> HIDE DEF k, m
<1>7. 2 * b \in Nat /\ 2 * b > b /\ 2 * b + 1 > b /\ 2 * b > 1 /\ 2 * b + 1 > 1 /\ 2 * b + 1 \in Nat
  BY <1>2
<1>8. (2 * b) \div 2 = b /\ (2 * b + 1) \div 2 = b
  BY <1>2
<1>9. k \in 1..n /\ (k = b \/ k = 2 * b) /\ Worth(h[k]) >= Worth(h[b]) /\ (2 * b <= n => Worth(h[k]) >= Worth(h[2 * b]))
      /\ (k # b => Worth(h[k]) > Worth(h[b]))
  <2>1. 2 * b <= n => 2 * b \in 1..n
    BY <1>7
  <2> HIDE DEF h, b
  <2> QED
    BY <1>1, <1>2, <1>5, <1>7, <2>1
<1>10. /\ m \in 1..n /\ (m = b \/ m = 2 * b \/ m = 2 * b + 1) /\ Worth(h[m]) >= Worth(h[b])
       /\ 2 * b <= n => Worth(h[m]) >= Worth(h[2 * b])
       /\ 2 * b + 1 <= n => Worth(h[m]) >= Worth(h[2 * b + 1])
       /\ m # b => Worth(h[m]) > Worth(h[b])
  <2>1. (2 * b <= n => 2 * b \in 1..n) /\ (2 * b + 1 <= n => 2 * b + 1 \in 1..n)
    BY <1>7
  <2> HIDE DEF h, b
  <2>2. CASE 2 * b + 1 <= n /\ Worth(h[2 * b + 1]) > Worth(h[k])
    <3>1. m = 2 * b + 1 /\ 2 * b + 1 \in 1..n
      BY <1>6, <2>1, <2>2
    <3>2. Worth(h[m]) > Worth(h[k]) /\ Worth(h[m]) \in Nat /\ Worth(h[k]) \in Nat /\ Worth(h[b]) \in Nat
      BY <1>1, <1>9, <2>2, <3>1
    <3>3. 2 * b <= n => Worth(h[2 * b]) \in Nat
      BY <1>1, <2>1
    <3> QED
      BY <1>9, <3>1, <3>2, <3>3
  <2>3. CASE ~(2 * b + 1 <= n /\ Worth(h[2 * b + 1]) > Worth(h[k]))
    <3>1. m = k
      BY <1>6, <2>3
    <3>2. 2 * b + 1 <= n => Worth(h[2 * b + 1]) \in Nat /\ Worth(h[k]) \in Nat
      BY <1>1, <1>9, <2>1
    <3> QED
      BY <1>9, <2>3, <3>1, <3>2
  <2> QED
    BY <2>2, <2>3
<1>11. \A p \in 2..n : p \div 2 = b => (p = 2 * b \/ p = 2 * b + 1) /\ p <= n
  BY <1>2, Children
<1>12. ASSUME NEW p \in 2..n, p \div 2 = b PROVE Worth(h[m]) >= Worth(h[p])
  <2> HIDE DEF h, b
  <2> QED
    BY <1>10, <1>11, <1>12
<1>13. m = b => Sunk(s, n)
  BY <1>12 DEF Sunk, Under
<1>14. m # b => ~Sunk(s, n)
  <2> SUFFICES ASSUME m # b PROVE m \in 2..n /\ m \div 2 = b /\ ~(Worth(h[b]) >= Worth(h[m]))
    BY DEF Sunk, Under
  <2>1. m \in 2..n /\ m \div 2 = b
    BY <1>7, <1>8, <1>10
  <2>2. Worth(h[m]) \in Nat /\ Worth(h[b]) \in Nat /\ Worth(h[m]) > Worth(h[b])
    BY <1>1, <1>10
  <2> QED
    BY <2>1, <2>2
<1>15. m = b \/ (m > 1 /\ m \div 2 = b /\ m > b)
  BY <1>7, <1>8, <1>10
<1> QED
  BY <1>3, <1>10, <1>12, <1>13, <1>14, <1>15

LEMMA SinkRule ==
  ASSUME NEW S, \A e \in S : Worth(e) \in Nat, NEW n \in Nat, NEW s, Sinking(s, n, S)
  PROVE  /\ Sinking(Lin!H!Sink(s), n, S)
         /\ Sunk(s, n) => Sunk(Lin!H!Sink(s), n)
         /\ ~Sunk(s, n) => Lin!H!Sink(s).at > s.at
<1> DEFINE h == s.h
           b == s.at
<1>1. HeapOf(h, n, S) /\ b \in 1..n /\ h \in Seq(S) /\ Len(h) = n /\ \A p \in 1..n : h[p] \in S /\ Worth(h[p]) \in Nat
  BY DEF Sinking, HeapOf
<1>2. PICK m \in 1..n :
           /\ Lin!H!Sink(s) = [h |-> Lin!H!Exchange(h, b, m), at |-> m]
           /\ m = b \/ (m > 1 /\ m \div 2 = b /\ m > b)
           /\ \A p \in 2..n : p \div 2 = b => Worth(h[m]) >= Worth(h[p])
           /\ m = b <=> Sunk(s, n)
           /\ Worth(h[m]) >= Worth(h[b])
  BY SinkWhere
<1> DEFINE g == Lin!H!Exchange(h, b, m)
<1>3. HeapOf(g, n, S) /\ g[b] = h[m] /\ g[m] = h[b] /\ \A p \in 1..n : p # b /\ p # m => g[p] = h[p]
  <2> HIDE DEF h, b
  <2>1. HeapOf(h, n, S) /\ b \in 1..n /\ m \in 1..n
    BY <1>1
  <2>2. Swapped(g, h, n, S, b, m)
    BY <2>1, Exchanged
  <2> HIDE DEF g
  <2> QED
    BY <2>2 DEF Swapped
<1>4. \A p \in 2..n : p \in Nat /\ p >= 2 /\ p \in 1..n /\ p \div 2 \in 1..n /\ p \div 2 < p
  BY HalfPlace
<1>5. /\ \A p \in 2..n : p \div 2 # b => Worth(h[p \div 2]) >= Worth(h[p])
      /\ \A p \in 2..n : p \div 2 = b /\ b > 1 => Worth(h[b \div 2]) >= Worth(h[p])
  BY DEF Sinking, Under
<1>6. Sunk(s, n) => \A p \in 2..n : p \div 2 = b => Worth(h[p \div 2]) >= Worth(h[p])
  BY DEF Sunk, Under
<1>7. Lin!H!Sink(s).h = g /\ Lin!H!Sink(s).at = m
  BY <1>2
<1> HIDE DEF g, h, b
<1>8. CASE m = b
  <2>1. \A p \in 1..n : g[p] = h[p]
    BY <1>3, <1>8
  <2>2. /\ \A p \in 2..n : p \div 2 # m => Worth(g[p \div 2]) >= Worth(g[p])
        /\ \A p \in 2..n : p \div 2 = m /\ m > 1 => Worth(g[m \div 2]) >= Worth(g[p])
    <3>1. m > 1 => m \div 2 \in 1..n
      BY <1>4
    <3> QED
      BY <1>4, <1>5, <1>8, <2>1, <3>1
  <2>3. \A p \in 2..n : p \div 2 = m => Worth(g[p \div 2]) >= Worth(g[p])
    BY <1>2, <1>4, <1>6, <1>8, <2>1
  <2>4. Sinking(Lin!H!Sink(s), n, S)
    BY <1>3, <1>7, <2>2 DEF Sinking, Under
  <2>5. Sunk(Lin!H!Sink(s), n)
    BY <1>7, <2>3 DEF Sunk, Under
  <2> QED
    BY <1>2, <1>8, <2>4, <2>5
<1>9. CASE m # b
  <2>1. m > 1 /\ m \div 2 = b /\ m > b /\ m \in 2..n
    BY <1>2, <1>9
  <2>2. ASSUME NEW p \in 2..n, p \div 2 # m PROVE Worth(g[p \div 2]) >= Worth(g[p])
    <3> DEFINE q == p \div 2
    <3>0. p \in 1..n /\ q \in 1..n /\ q < p /\ q # m
      BY <1>4, <2>2
    <3>1. CASE p = m
      <4>1. q = b /\ g[p] = h[b] /\ g[q] = h[m]
        BY <1>3, <2>1, <3>1
      <4> QED
        BY <1>2, <4>1
    <3>2. CASE p # m /\ q = b
      <4>1. p # b
        BY <3>0, <3>2
      <4>2. g[p] = h[p] /\ g[q] = h[m]
        BY <1>3, <3>0, <3>2, <4>1
      <4> QED
        BY <1>2, <3>2, <4>2
    <3>3. CASE p = b
      <4>1. q # b /\ g[q] = h[q] /\ g[p] = h[m]
        BY <1>3, <3>0, <3>3
      <4>2. b > 1 /\ b \div 2 = q
        BY <3>0, <3>3
      <4>3. Worth(h[q]) >= Worth(h[m])
        BY <1>5, <2>1, <4>2
      <4> QED
        BY <4>1, <4>3
    <3>4. CASE p # m /\ p # b /\ q # b
      <4>1. g[q] = h[q] /\ g[p] = h[p]
        BY <1>3, <3>0, <3>4
      <4> QED
        BY <1>5, <3>4, <4>1
    <3> QED
      BY <3>1, <3>2, <3>3, <3>4
  <2>3. ASSUME NEW p \in 2..n, p \div 2 = m PROVE Worth(g[m \div 2]) >= Worth(g[p])
    <3>1. p \in 1..n /\ m < p /\ p # m /\ p # b
      BY <1>4, <2>1, <2>3
    <3>2. g[m \div 2] = h[m] /\ g[p] = h[p]
      BY <1>3, <2>1, <3>1
    <3>3. Worth(h[m]) >= Worth(h[p])
      BY <1>5, <2>1, <2>3, <1>9
    <3> QED
      BY <3>2, <3>3
  <2>4. Sinking(Lin!H!Sink(s), n, S)
    BY <1>3, <1>7, <2>2, <2>3 DEF Sinking, Under
  <2> QED
    BY <1>2, <1>7, <1>9, <2>1, <2>4 DEF b
<1> QED
  BY <1>8, <1>9

\* heap_insert puts one more element in its place.
LEMMA InsertedRule ==
  ASSUME NEW S, NEW x, x \notin S, \A e \in S \cup {x} : Worth(e) \in Nat,
         NEW n \in Nat, NEW h, HeapOf(h, n, S), Topped(h)
  PROVE  HeapOf(Lin!H!Inserted(h, x), n + 1, S \cup {x}) /\ Topped(Lin!H!Inserted(h, x))
<1> DEFINE g == Append(h, x)
           T == S \cup {x}
<1>1. h \in Seq(S) /\ Len(h) = n /\ Once(h) /\ All(h) = S
  BY DEF HeapOf
<1>2. h \in Seq(T)
  BY <1>1
<1>3. g \in Seq(T) /\ Len(g) = n + 1 /\ g[n + 1] = x
  BY <1>1, <1>2
<1>4. \A p \in 1..n : g[p] = h[p] /\ h[p] \in S
  BY <1>1, <1>2
<1> HIDE DEF g
<1>5. HeapOf(g, n + 1, T)
  <2>1. Once(g)
    BY <1>1, <1>3, <1>4 DEF Once
  <2>2. All(g) = T
    <3>1. All(g) = {g[p] : p \in 1..n} \cup {x}
      BY <1>3 DEF All
    <3>2. {g[p] : p \in 1..n} = All(h)
      BY <1>1, <1>4 DEF All
    <3> QED
      BY <1>1, <3>1, <3>2
  <2> QED
    BY <1>3, <2>1, <2>2 DEF HeapOf
<1>6. Rising([h |-> g, at |-> n + 1], n + 1, T)
  <2>1. ASSUME NEW p \in 2..(n + 1), p # n + 1 PROVE Under(g, p)
    <3>1. p \in 2..n /\ p \in 1..n /\ p \div 2 \in 1..n
      BY <2>1, HalfPlace
    <3> QED
      BY <1>1, <1>4, <3>1 DEF Under, Topped
  <2>2. ASSUME NEW p \in 2..(n + 1) PROVE p \div 2 # n + 1
    BY HalfPlace
  <2> QED
    BY <1>5, <2>1, <2>2 DEF Rising
<1>7. Len(g) \in Nat
  BY <1>3
<1>8. PICK f : /\ f[0] = [h |-> g, at |-> n + 1] /\ \A k \in 0..(Len(g) - 1) : f[k + 1] = Lin!H!Rise(f[k])
               /\ Lin!H!Settle(g, n + 1, Lin!H!Rise) = f[Len(g)].h
  BY <1>7, SettledUp
<1> DEFINE P == {k \in Nat : k <= n + 1 => Rising(f[k], n + 1, T) /\ (Risen(f[k]) \/ f[k].at <= n + 1 - k)}
<1>9. 0 \in P
  BY <1>6, <1>8
<1>10. ASSUME NEW k \in Nat, k \in P PROVE k + 1 \in P
  <2> SUFFICES ASSUME k + 1 <= n + 1
               PROVE  Rising(f[k + 1], n + 1, T) /\ (Risen(f[k + 1]) \/ f[k + 1].at <= n + 1 - (k + 1))
    OBVIOUS
  <2>1. k <= n + 1 /\ k \in 0..(Len(g) - 1) /\ n + 1 \in Nat
    BY <1>3
  <2>2. Rising(f[k], n + 1, T) /\ (Risen(f[k]) \/ f[k].at <= n + 1 - k) /\ f[k + 1] = Lin!H!Rise(f[k])
    BY <1>8, <1>10, <2>1
  <2>3. /\ Rising(f[k + 1], n + 1, T) /\ (Risen(f[k]) => f[k + 1] = f[k])
        /\ ~Risen(f[k]) => f[k + 1].at < f[k].at
    BY <2>1, <2>2, RiseRule
  <2>4. f[k].at \in 1..(n + 1) /\ f[k + 1].at \in 1..(n + 1)
    BY <2>2, <2>3 DEF Rising
  <2>5. CASE Risen(f[k])
    BY <2>3, <2>5
  <2>6. CASE ~Risen(f[k])
    BY <2>1, <2>2, <2>3, <2>4, <2>6
  <2> QED
    BY <2>5, <2>6
<1>11. n + 1 \in P
  <2> HIDE DEF P
  <2> QED
    BY <1>9, <1>10, Steps
<1>12. Rising(f[n + 1], n + 1, T) /\ Risen(f[n + 1])
  <2>1. Rising(f[n + 1], n + 1, T) /\ (Risen(f[n + 1]) \/ f[n + 1].at <= n + 1 - (n + 1))
    BY <1>11
  <2>2. f[n + 1].at \in 1..(n + 1)
    BY <2>1 DEF Rising
  <2> QED
    BY <2>1, <2>2
<1>13. HeapOf(f[n + 1].h, n + 1, T) /\ Topped(f[n + 1].h)
  <2> DEFINE r == f[n + 1].h
             b == f[n + 1].at
  <2>1. HeapOf(r, n + 1, T) /\ Len(r) = n + 1 /\ (\A p \in 1..(n + 1) : r[p] \in T) /\ b \in 1..(n + 1)
    BY <1>12 DEF Rising, HeapOf
  <2>2. ASSUME NEW p \in 2..(n + 1) PROVE Worth(r[p \div 2]) >= Worth(r[p])
    <3>1. CASE p # b
      BY <1>12, <3>1 DEF Rising, Under
    <3>2. CASE p = b
      <4>1. b > 1 /\ ~(Worth(r[b]) > Worth(r[b \div 2]))
        BY <1>12, <3>2 DEF Risen, Lin!Before, Worth
      <4>2. b \div 2 \in 1..(n + 1)
        BY <3>2, HalfPlace
      <4>3. Worth(r[b]) \in Nat /\ Worth(r[b \div 2]) \in Nat
        BY <2>1, <4>2
      <4> QED
        BY <3>2, <4>1, <4>3
    <3> QED
      BY <3>1, <3>2
  <2> QED
    BY <2>1, <2>2 DEF Topped, Under
<1>14. Lin!H!Inserted(h, x) = f[n + 1].h
  <2>1. Lin!H!Inserted(h, x) = Lin!H!Settle(g, n + 1, Lin!H!Rise)
    BY <1>1 DEF Lin!H!Inserted, g
  <2> QED
    BY <1>3, <1>8, <2>1
<1> QED
  BY <1>13, <1>14

\* heap_extract takes the top out; what is left is a heap again.
LEMMA ExtractedRule ==
  ASSUME NEW S, \A e \in S : Worth(e) \in Nat,
         NEW n \in Nat, n >= 1, NEW h, HeapOf(h, n, S), Topped(h)
  PROVE  HeapOf(Lin!H!Extracted(h), n - 1, S \ {h[1]}) /\ Topped(Lin!H!Extracted(h))
<1> DEFINE T == S \ {h[1]}
<1>1. h \in Seq(S) /\ Len(h) = n /\ Once(h) /\ All(h) = S /\ (\A p \in 1..n : h[p] \in S) /\ 1 \in 1..n /\ n \in 1..n
  BY DEF HeapOf
<1>2. CASE n = 1
  <2>1. Lin!H!Extracted(h) = <<>>
    BY <1>1, <1>2 DEF Lin!H!Extracted
  <2>2. S = {h[1]}
    BY <1>1, <1>2 DEF All
  <2>3. Once(<<>>) /\ Topped(<<>>) /\ All(<<>>) = {}
    BY DEF Once, Topped, All
  <2>4. T = {} /\ n - 1 = 0
    BY <1>2, <2>2
  <2>5. <<>> \in Seq(T) /\ Len(<<>>) = 0
    OBVIOUS
  <2> QED
    BY <2>1, <2>3, <2>4, <2>5 DEF HeapOf
<1>3. CASE n # 1
  <2> DEFINE r == SubSeq(h, 2, n - 1)
             g == <<h[n]>> \o r
             m == n - 1
  <2>1. m \in Nat /\ m >= 1 /\ m = n - 1 /\ n >= 2 /\ 1 \in 1..m
    BY <1>3
  <2>2. r \in Seq(S) /\ Len(r) = n - 2 /\ \A p \in 1..(n - 2) : r[p] = h[p + 1]
    BY <1>1, <1>3
  <2>3. g \in Seq(S) /\ Len(g) = m /\ g[1] = h[n] /\ \A p \in 1..(n - 2) : g[p + 1] = r[p]
    <3>1. <<h[n]>> \in Seq(S) /\ Len(<<h[n]>>) = 1 /\ <<h[n]>>[1] = h[n]
      BY <1>1
    <3> HIDE DEF r
    <3> QED
      BY <2>1, <2>2, <3>1
  <2> HIDE DEF g, r, m
  <2>4. ASSUME NEW p \in 2..m PROVE g[p] = h[p] /\ p \in 1..n /\ p # n /\ p # 1
    <3>1. p - 1 \in 1..(n - 2) /\ (p - 1) + 1 = p /\ p \in 1..n /\ p # n /\ p # 1
      BY <2>1, <2>4
    <3> QED
      BY <2>2, <2>3, <3>1
  <2>5. \A p \in 1..m : p = 1 \/ p \in 2..m
    BY <2>1
  <2>6. \A p \in 1..n : p = 1 \/ p = n \/ p \in 2..m
    BY <2>1
  <2>7. Once(g)
    <3> SUFFICES ASSUME NEW p \in 1..m, NEW q \in 1..m, p # q PROVE g[p] # g[q]
      BY <2>3 DEF Once
    <3>1. CASE p = 1
      BY <1>1, <2>3, <2>4, <2>5, <3>1 DEF Once
    <3>2. CASE q = 1
      BY <1>1, <2>3, <2>4, <2>5, <3>2 DEF Once
    <3>3. CASE p \in 2..m /\ q \in 2..m
      BY <1>1, <2>4, <3>3 DEF Once
    <3> QED
      BY <2>5, <3>1, <3>2, <3>3
  <2>8. All(g) = T
    <3>1. ASSUME NEW p \in 1..m PROVE g[p] \in T
      <4>1. CASE p = 1
        BY <1>1, <1>3, <2>3, <4>1 DEF Once
      <4>2. CASE p \in 2..m
        BY <1>1, <2>4, <4>2 DEF Once
      <4> QED
        BY <2>5, <4>1, <4>2
    <3>2. ASSUME NEW e \in T PROVE \E p \in 1..m : g[p] = e
      <4>1. PICK p \in 1..n : h[p] = e /\ p # 1
        BY <1>1 DEF All
      <4>2. CASE p = n
        BY <2>1, <2>3, <4>1, <4>2
      <4>3. CASE p \in 2..m
        <5>1. p \in 1..m
          BY <2>1, <4>3
        <5> QED
          BY <2>4, <4>1, <4>3, <5>1
      <4> QED
        BY <2>6, <4>1, <4>2, <4>3
    <3> HIDE DEF T
    <3> QED
      BY <2>3, <3>1, <3>2 DEF All
  <2>9. HeapOf(g, m, T)
    <3>1. \A p \in 1..m : g[p] \in T
      BY <2>3, <2>8 DEF All
    <3> HIDE DEF T
    <3>2. g \in Seq(T)
      BY <2>1, <2>3, <3>1
    <3> QED
      BY <2>3, <2>7, <2>8, <3>2 DEF HeapOf
  <2>10. Sinking([h |-> g, at |-> 1], m, T)
    <3>1. ASSUME NEW p \in 2..m, p \div 2 # 1 PROVE Under(g, p)
      <4>1. p \div 2 \in 2..m /\ p \in 2..n
        BY <2>1, <3>1, HalfPlace
      <4>2. g[p \div 2] = h[p \div 2] /\ g[p] = h[p]
        BY <2>4, <4>1
      <4> QED
        BY <1>1, <4>1, <4>2 DEF Topped, Under
    <3> QED
      BY <2>1, <2>9, <3>1 DEF Sinking
  <2>11. \A e \in T : Worth(e) \in Nat
    OBVIOUS
  <2> HIDE DEF T
  <2>12. Len(g) = m /\ Len(g) \in Nat
    BY <2>1, <2>3
  <2>13. PICK f : /\ f[0] = [h |-> g, at |-> 1] /\ \A k \in 0..(Len(g) - 1) : f[k + 1] = Lin!H!Sink(f[k])
                  /\ Lin!H!Settle(g, 1, Lin!H!Sink) = f[Len(g)].h
    BY <2>12, SettledDown
  <2> DEFINE P == {k \in Nat : k <= m => Sinking(f[k], m, T) /\ (Sunk(f[k], m) \/ f[k].at >= k + 1)}
  <2>14. 0 \in P
    BY <2>10, <2>13
  <2>15. ASSUME NEW k \in Nat, k \in P PROVE k + 1 \in P
    <3> SUFFICES ASSUME k + 1 <= m
                 PROVE  Sinking(f[k + 1], m, T) /\ (Sunk(f[k + 1], m) \/ f[k + 1].at >= (k + 1) + 1)
      OBVIOUS
    <3>1. k <= m /\ k \in 0..(Len(g) - 1)
      BY <2>1, <2>12
    <3>2. Sinking(f[k], m, T) /\ (Sunk(f[k], m) \/ f[k].at >= k + 1) /\ f[k + 1] = Lin!H!Sink(f[k])
      BY <2>13, <2>15, <3>1
    <3>3. /\ Sinking(f[k + 1], m, T) /\ (Sunk(f[k], m) => Sunk(f[k + 1], m))
          /\ ~Sunk(f[k], m) => f[k + 1].at > f[k].at
      BY <2>1, <2>11, <3>2, SinkRule
    <3>4. f[k].at \in 1..m /\ f[k + 1].at \in 1..m
      BY <3>2, <3>3 DEF Sinking
    <3>5. CASE Sunk(f[k], m)
      BY <3>3, <3>5
    <3>6. CASE ~Sunk(f[k], m)
      BY <2>1, <3>2, <3>3, <3>4, <3>6
    <3> QED
      BY <3>5, <3>6
  <2>16. m \in P
    <3> HIDE DEF P
    <3> QED
      BY <2>1, <2>14, <2>15, Steps
  <2>17. Sinking(f[m], m, T) /\ Sunk(f[m], m)
    <3>1. Sinking(f[m], m, T) /\ (Sunk(f[m], m) \/ f[m].at >= m + 1)
      BY <2>1, <2>16
    <3>2. f[m].at \in 1..m
      BY <3>1 DEF Sinking
    <3> QED
      BY <2>1, <3>1, <3>2
  <2>18. HeapOf(f[m].h, m, T) /\ Topped(f[m].h)
    <3>1. HeapOf(f[m].h, m, T) /\ Len(f[m].h) = m
      BY <2>17 DEF Sinking, HeapOf
    <3>2. \A p \in 2..m : Under(f[m].h, p)
      BY <2>17 DEF Sinking, Sunk
    <3> QED
      BY <3>1, <3>2 DEF Topped
  <2>19. Lin!H!Extracted(h) = f[m].h
    <3>1. Lin!H!Extracted(h) = Lin!H!SiftDown(g, 1)
      BY <1>1, <1>3 DEF Lin!H!Extracted, g, r
    <3> QED
      BY <2>12, <2>13, <3>1 DEF Lin!H!SiftDown
  <2> QED
    BY <2>1, <2>18, <2>19 DEF T
<1> QED
  BY <1>2, <1>3

\* The top of a heap is none below another.
LEMMA TopGreatest ==
  ASSUME NEW S, \A e \in S : Worth(e) \in Nat,
         NEW n \in Nat, n >= 1, NEW h, HeapOf(h, n, S), Topped(h)
  PROVE  h[1] \in S /\ \A e \in S : Worth(h[1]) >= Worth(e)
<1>1. Len(h) = n /\ All(h) = S /\ (\A p \in 1..n : h[p] \in S /\ Worth(h[p]) \in Nat) /\ 1 \in 1..n
  BY DEF HeapOf
<1> DEFINE P == {p \in 1..n : ~(Worth(h[1]) >= Worth(h[p]))}
<1>2. P = {}
  <2> SUFFICES ASSUME P # {} PROVE FALSE
    OBVIOUS
  <2>1. PICK p \in P : \A q \in P : p <= q
    <3>1. P \subseteq Nat
      OBVIOUS
    <3> HIDE DEF P
    <3> QED
      BY <3>1, Least
  <2>2. p \in 1..n /\ ~(Worth(h[1]) >= Worth(h[p]))
    OBVIOUS
  <2>3. p # 1
    BY <1>1, <2>2
  <2>4. p \in 2..n /\ p \in Nat /\ p >= 2
    BY <2>2, <2>3
  <2> DEFINE q == p \div 2
  <2>5. q \in 1..n /\ q < p
    BY <2>4, HalfPlace
  <2>6. Worth(h[q]) >= Worth(h[p])
    BY <1>1, <2>4 DEF Topped, Under
  <2> HIDE DEF q
  <2>7. q \notin P
    <3>1. q \in Nat /\ p \in Nat /\ ~(p <= q)
      BY <2>4, <2>5
    <3> QED
      BY <2>1, <3>1
  <2>8. Worth(h[1]) >= Worth(h[q])
    BY <2>5, <2>7
  <2>9. Worth(h[1]) \in Nat /\ Worth(h[q]) \in Nat /\ Worth(h[p]) \in Nat
    BY <1>1, <2>2, <2>5
  <2> QED
    BY <2>2, <2>6, <2>8, <2>9
<1>3. ASSUME NEW e \in S PROVE Worth(h[1]) >= Worth(e)
  <2>1. PICK p \in 1..n : h[p] = e
    BY <1>1 DEF All
  <2> QED
    BY <1>2, <2>1
<1> QED
  BY <1>1, <1>3

LEMMA OnceCounted ==
  ASSUME NEW S, NEW s \in Seq(S), Once(s)
  PROVE  Lin!Distinct(s)
<1>1. Len(s) \in Nat /\ DOMAIN s = 1..Len(s)
  OBVIOUS
<1>2. s \in [1..Len(s) -> All(s)] /\ \A t \in All(s) : \E i \in 1..Len(s) : s[i] = t
  BY <1>1 DEF All
<1>3. s \in Bijection(1..Len(s), All(s))
  BY <1>1, <1>2 DEF Bijection, Injection, IsInjective, Surjection, Once
<1>4. IsFiniteSet(1..Len(s)) /\ Cardinality(1..Len(s)) = Len(s)
  BY <1>1, FS_Interval
<1>5. ExistsBijection(1..Len(s), All(s))
  BY <1>3 DEF ExistsBijection
<1>6. Cardinality(All(s)) = Len(s)
  BY <1>4, <1>5, FS_Bijection
<1>7. Lin!Range(s) = All(s)
  BY <1>1 DEF Lin!Range, All
<1>8. Lin!Cardinality(All(s)) = Cardinality(All(s))
  BY DEF Lin!Cardinality, Cardinality, Lin!IsFiniteSet, IsFiniteSet
<1> QED
  BY <1>6, <1>7, <1>8 DEF Lin!Distinct

-----------------------------------------------------------------------------
\* The lines of the files, and those that have been read and are not left out.
Entries == {e \in (1..Len(args)) \X Nat : e[2] \in 1..Len(args[e[1]])}
Passed(e) == e[1] \in opened /\ (lpc \in {"read", "insert"} /\ e[1] = lfile => e[2] < lnext)
Counts(e) == lprogram = "pqueue" => Lin!Line(e).ended
SoFar == {e \in Entries : Passed(e) /\ Counts(e)}

\* A heap and what came out of it: well-formed lines, each at one place, in their order.
Sorted(h, o) ==
  /\ Len(h) \in Nat /\ HeapOf(h, Len(h), All(h)) /\ Topped(h)
  /\ o \in Seq(All(o)) /\ Once(o) /\ All(h) \cap All(o) = {}
  /\ \A e \in All(h) \cup All(o) : e \in Entries /\ ~Lin!Malformed(Lin!Line(e))
  /\ \A i, j \in 1..Len(o) : i <= j => Worth(o[i]) >= Worth(o[j])
  /\ \A i \in 1..Len(o) : \A e \in All(h) : Worth(o[i]) >= Worth(e)

Reading ==
  /\ lpc \in {"idle", "open", "read", "insert", "deliver", "true", "false"}
  /\ args \in Arguments \cup {<<>>}
  /\ lfile \in Nat /\ lnext \in Nat \ {0} /\ opened \subseteq 1..Len(args)
  /\ lpc \in {"open", "read", "insert"} => lfile >= 1
  /\ lpc = "idle" => opened = {}
  /\ lpc = "open" => \A f \in opened : f < lfile
  /\ lpc \in {"read", "insert"} => lfile \in opened /\ \A f \in opened : f <= lfile
  /\ lpc = "insert" => lnext <= Len(args[lfile]) /\ (lprogram = "pqueue" => Lin!Line(Lin!Entry).ended)

Collected ==
  /\ lpc \in {"idle", "false", "true"} => lheap = <<>>
  /\ lpc \notin {"deliver", "true"} => lout = <<>>
  /\ lpc \in {"open", "read", "insert", "deliver", "true"} => All(lheap) \cup All(lout) = SoFar
  /\ owned = All(lheap) \cup (IF lpc = "insert" THEN {Lin!Entry} ELSE {})

LinesInv == Reading /\ Sorted(lheap, lout) /\ Collected

LEMMA EmptySorted ==
  Once(<<>>) /\ Topped(<<>>) /\ All(<<>>) = {} /\ HeapOf(<<>>, 0, {}) /\ Sorted(<<>>, <<>>)
<1>1. Once(<<>>) /\ Topped(<<>>) /\ All(<<>>) = {} /\ HeapOf(<<>>, 0, {})
  BY DEF Once, Topped, All, HeapOf
<1>2. Len(<<>>) = 0 /\ 1..0 = {} /\ 0 \in Nat /\ <<>> \in Seq({})
  OBVIOUS
<1> QED
  BY <1>1, <1>2 DEF Sorted

\* What the lines are worth does not change while the arguments stay.
LEMMA SortedKept ==
  ASSUME UNCHANGED <<args, lprogram>>, Sorted(lheap', lout')
  PROVE  Sorted(lheap, lout)'
BY DEF Sorted, Topped, Under, Worth, Lin!Line, Lin!Malformed, Entries

LEMMA ArgsTyped ==
  ASSUME Lin!ArgumentsAssumption, Reading
  PROVE  /\ args \in Seq(Seq(Lin!Lines)) /\ Len(args) \in Nat
         /\ \A f \in 1..Len(args) : args[f] \in Seq(Lin!Lines) /\ Len(args[f]) \in Nat
         /\ \A f \in 1..Len(args) : \A i \in 1..(Len(args[f]) - 1) : args[f][i].ended
<1>1. args \in Seq(Seq(Lin!Lines))
  <2>1. Arguments \subseteq Seq(Seq(Lin!Lines)) /\ args \in Arguments \cup {<<>>}
    BY DEF Lin!ArgumentsAssumption, Reading
  <2>2. <<>> \in Seq(Seq(Lin!Lines))
    OBVIOUS
  <2> QED
    BY ONLY <2>1, <2>2
<1>2. Len(args) \in Nat
  BY <1>1
<1>3. \A f \in 1..Len(args) : args[f] \in Seq(Lin!Lines) /\ f \in DOMAIN args
  BY <1>1
<1>4. \A f \in 1..Len(args) : Len(args[f]) \in Nat
  BY <1>3
<1>5. args \in Arguments \/ Len(args) = 0
  BY DEF Reading
<1>6. ASSUME NEW f \in 1..Len(args), NEW i \in 1..(Len(args[f]) - 1) PROVE args[f][i].ended
  <2>1. args \in Arguments
    BY <1>5
  <2> QED
    BY <1>3, <1>6, <2>1 DEF Lin!ArgumentsAssumption
<1> QED
  BY <1>1, <1>2, <1>3, <1>4, <1>6

LEMMA WorthTyped ==
  ASSUME Lin!ArgumentsAssumption, Reading
  PROVE  \A e \in Entries : Worth(e) \in Nat
<1> SUFFICES ASSUME NEW e \in Entries PROVE Worth(e) \in Nat
  OBVIOUS
<1>1. e[1] \in 1..Len(args) /\ e[2] \in 1..Len(args[e[1]])
  BY DEF Entries
<1>2. args[e[1]] \in Seq(Lin!Lines)
  BY <1>1, ArgsTyped
<1>3. args[e[1]][e[2]] \in Lin!Lines
  BY <1>1, <1>2
<1> QED
  BY <1>3 DEF Worth, Lin!Line, Lin!Lines

\* A step that moves nothing into the heap or out of it, and reads no line it keeps.
LEMMA Quiet ==
  ASSUME LinesInv, UNCHANGED <<args, lprogram, lheap, lout>>, lpc \notin {"idle", "false"},
         lpc' \notin {"idle", "false"}, lpc \in {"deliver", "true"} => lpc' \in {"deliver", "true"},
         lpc' = "true" => lheap = <<>>, SoFar' = SoFar, Reading',
         owned' = All(lheap) \cup (IF lpc' = "insert" THEN {Lin!Entry'} ELSE {})
  PROVE  LinesInv'
<1>1. Sorted(lheap', lout')
  BY DEF LinesInv
<1>2. Sorted(lheap, lout)'
  BY <1>1, SortedKept
<1>3. lpc \in {"open", "read", "insert", "deliver", "true"}
  BY DEF LinesInv, Reading
<1>4. All(lheap) \cup All(lout) = SoFar /\ (lpc \notin {"deliver", "true"} => lout = <<>>)
  BY <1>3 DEF LinesInv, Collected
<1>5. Collected'
  BY <1>4 DEF Collected
<1> QED
  BY <1>2, <1>5 DEF LinesInv

LEMMA SameSoFar ==
  ASSUME UNCHANGED <<args, lprogram>>, \A e \in Entries : Counts(e) => (Passed(e)' <=> Passed(e))
  PROVE  SoFar' = SoFar
<1>1. Entries' = Entries
  BY DEF Entries
<1>2. ASSUME NEW e PROVE Counts(e)' <=> Counts(e)
  BY DEF Counts, Lin!Line
<1>3. \A e \in Entries : Passed(e)' /\ Counts(e)' <=> Passed(e) /\ Counts(e)
  BY <1>2
<1>4. SoFar' = {e \in Entries' : Passed(e)' /\ Counts(e)'}
  BY DEF SoFar
<1> QED
  BY ONLY <1>1, <1>3, <1>4, Zenon DEF SoFar

LEMMA LinesInit == Lin!Init => LinesInv
<1> SUFFICES ASSUME Lin!Init PROVE LinesInv
  OBVIOUS
<1>1. Len(<<>>) = 0 /\ 0 \in Nat /\ 1 \in Nat \ {0} /\ All(<<>>) = {}
  BY DEF All
<1> QED
  BY <1>1, EmptySorted DEF Lin!Init, LinesInv, Reading, Collected

LEMMA CallInv == ASSUME Lin!ArgumentsAssumption, LinesInv, Lin!Call PROVE LinesInv'
<1>1. lheap = <<>> /\ lout = <<>> /\ opened = {} /\ All(<<>>) = {} /\ lpc = "idle"
  BY EmptySorted DEF LinesInv, Collected, Reading, Lin!Call
<1>2. Reading'
  BY <1>1 DEF LinesInv, Reading, Lin!Call
<1>3. Sorted(lheap, lout)'
  <2>1. lheap' = <<>> /\ lout' = <<>>
    BY <1>1 DEF Lin!Call
  <2>2. Sorted(<<>>, <<>>)'
    <3>1. Once(<<>>) /\ Topped(<<>>)' /\ All(<<>>) = {} /\ HeapOf(<<>>, 0, {})
      BY EmptySorted DEF Topped
    <3>2. Len(<<>>) = 0 /\ 1..0 = {} /\ 0 \in Nat /\ <<>> \in Seq({})
      OBVIOUS
    <3> QED
      BY <3>1, <3>2 DEF Sorted
  <2> QED
    BY <2>1, <2>2 DEF Sorted, Topped, Under
<1>4. Collected'
  <2>1. SoFar' = {}
    BY <1>1 DEF SoFar, Passed, Lin!Call
  <2> QED
    BY <1>1, <2>1 DEF Collected, LinesInv, Lin!Call
<1> QED
  BY <1>2, <1>3, <1>4 DEF LinesInv

\* Every way out of an error leaves nothing.
LEMMA FailInv ==
  ASSUME LinesInv, NEW e, owned = All(lheap) \cup e, Lin!Fail(e), lpc \in {"open", "read", "insert"}
  PROVE  LinesInv'
<1>1. lheap' = <<>> /\ lout' = <<>> /\ lout = <<>> /\ lpc' = "false" /\ UNCHANGED <<lprogram, args, lfile, lnext, opened>>
  BY DEF LinesInv, Collected, Lin!Fail, Lin!FreesOwn
<1>2. Reading'
  BY <1>1 DEF LinesInv, Reading
<1>3. Sorted(lheap, lout)'
  <2>1. Sorted(lheap', lout')
    BY <1>1, EmptySorted
  <2> QED
    BY <1>1, <2>1, SortedKept
<1>4. owned' = {}
  <2>1. Lin!Range(lheap) = All(lheap)
    <3>1. lheap \in Seq(All(lheap))
      BY DEF LinesInv, Sorted, HeapOf
    <3> QED
      BY <3>1 DEF Lin!Range, All
  <2> QED
    BY <2>1 DEF Lin!Fail, Lin!FreesOwn
<1> QED
  BY <1>1, <1>2, <1>3, <1>4, EmptySorted DEF LinesInv, Collected

LEMMA OpenInv == ASSUME LinesInv, Lin!Open PROVE LinesInv'
<1>1. /\ lpc = "open" /\ lpc' = "read" /\ lfile <= Len(args) /\ lnext' = 1 /\ opened' = opened \cup {lfile}
      /\ UNCHANGED <<lprogram, args, lfile, lheap, owned, lout>>
  BY DEF Lin!Open
<1>2. lfile \in 1..Len(args) /\ \A f \in opened : f < lfile
  BY <1>1 DEF LinesInv, Reading
<1>3. Reading'
  BY <1>1, <1>2 DEF LinesInv, Reading
<1>4. SoFar' = SoFar
  <2>1. \A e \in Entries : e[2] \in Nat /\ ~(e[2] < 1) /\ (e[1] \in opened => e[1] # lfile)
    BY <1>2 DEF Entries
  <2>2. \A e \in Entries : Passed(e)' <=> Passed(e)
    BY <1>1, <2>1 DEF Passed
  <2> QED
    BY <1>1, <2>2, SameSoFar
<1>5. owned' = All(lheap)
  BY <1>1 DEF LinesInv, Collected
<1> QED
  BY <1>1, <1>3, <1>4, <1>5, Quiet

LEMMA NotFoundInv == ASSUME LinesInv, Lin!NotFound PROVE LinesInv'
<1>1. lpc = "open" /\ owned = All(lheap) \cup {}
  BY DEF LinesInv, Collected, Lin!NotFound
<1>2. CASE Lin!Fail({})
  BY <1>1, <1>2, FailInv
<1>3. CASE lfile' = lfile + 1 /\ UNCHANGED <<lpc, lprogram, args, lnext, lheap, owned, lout, opened>>
  <2>1. Reading'
    BY <1>1, <1>3 DEF LinesInv, Reading
  <2>2. SoFar' = SoFar
    BY <1>1, <1>3, SameSoFar DEF Passed
  <2> QED
    BY <1>1, <1>3, <2>1, <2>2, Quiet
<1> QED
  BY <1>2, <1>3 DEF Lin!NotFound

\* A line at which a file is read.
LEMMA AtEntry ==
  ASSUME Lin!ArgumentsAssumption, LinesInv, lpc \in {"read", "insert"}, lnext <= Len(args[lfile])
  PROVE  /\ Lin!Entry \in Entries /\ Lin!Entry[1] = lfile /\ Lin!Entry[2] = lnext
         /\ \A e \in Entries : e[1] = lfile /\ e[2] = lnext => e = Lin!Entry
         /\ ~Passed(Lin!Entry)
<1>1. lfile \in 1..Len(args) /\ lnext \in Nat /\ lnext >= 1
  BY DEF LinesInv, Reading
<1>2. Lin!Entry = <<lfile, lnext>>
  BY DEF Lin!Entry
<1>3. lnext \in 1..Len(args[lfile])
  <2>1. Len(args[lfile]) \in Nat
    BY <1>1, ArgsTyped DEF LinesInv
  <2> QED
    BY <1>1, <2>1
<1> QED
  BY <1>1, <1>2, <1>3 DEF Entries, Passed

LEMMA SkipInv == ASSUME Lin!ArgumentsAssumption, LinesInv, Lin!Skip PROVE LinesInv'
<1>1. /\ lpc = "read" /\ lpc' = "read" /\ lnext <= Len(args[lfile]) /\ lnext' = lnext + 1
      /\ lprogram = "pqueue" /\ ~Lin!Line(Lin!Entry).ended
      /\ UNCHANGED <<lprogram, args, lfile, lheap, owned, lout, opened>>
  BY DEF Lin!Skip, Lin!AtLine, Lin!Truncated
<1>2. Reading' /\ lnext \in Nat
  BY <1>1 DEF LinesInv, Reading
<1>3. SoFar' = SoFar
  <2>1. ASSUME NEW e \in Entries, Counts(e) PROVE Passed(e)' <=> Passed(e)
    <3>1. e # Lin!Entry
      BY <1>1, <2>1 DEF Counts
    <3>2. e[1] = lfile => e[2] # lnext
      BY <1>1, <3>1, AtEntry
    <3>3. e[2] \in Nat
      BY DEF Entries
    <3> QED
      BY <1>1, <1>2, <3>2, <3>3 DEF Passed
  <2> QED
    BY <1>1, <2>1, SameSoFar
<1>4. owned' = All(lheap)
  BY <1>1 DEF LinesInv, Collected
<1> QED
  BY <1>1, <1>2, <1>3, <1>4, Quiet

LEMMA TakeInv == ASSUME LinesInv, Lin!Take PROVE LinesInv'
<1>1. /\ lpc = "read" /\ lpc' = "insert" /\ lnext <= Len(args[lfile]) /\ owned' = owned \cup {Lin!Entry}
      /\ lprogram = "pqueue" => Lin!Line(Lin!Entry).ended
      /\ UNCHANGED <<lprogram, args, lfile, lnext, lheap, lout, opened>>
  BY DEF Lin!Take, Lin!AtLine, Lin!Truncated
<1>2. Lin!Entry' = Lin!Entry /\ Lin!Line(Lin!Entry)' = Lin!Line(Lin!Entry)
  BY <1>1 DEF Lin!Entry, Lin!Line
<1>3. Reading'
  BY <1>1, <1>2 DEF LinesInv, Reading
<1>4. SoFar' = SoFar
  BY <1>1, SameSoFar DEF Passed
<1>5. owned' = All(lheap) \cup {Lin!Entry'}
  BY <1>1, <1>2 DEF LinesInv, Collected
<1> QED
  BY <1>1, <1>3, <1>4, <1>5, Quiet

LEMMA TakeFailsInv == ASSUME LinesInv, Lin!TakeFails PROVE LinesInv'
<1>1. lpc = "read" /\ Lin!Fail({})
  BY DEF Lin!TakeFails, Lin!AtLine
<1>2. owned = All(lheap) \cup {}
  BY <1>1 DEF LinesInv, Collected
<1> QED
  BY <1>1, <1>2, FailInv

LEMMA InsertFailsInv == ASSUME LinesInv, Lin!InsertFails PROVE LinesInv'
<1>1. lpc = "insert" /\ Lin!Fail({Lin!Entry})
  BY DEF Lin!InsertFails
<1>2. owned = All(lheap) \cup {Lin!Entry}
  BY <1>1 DEF LinesInv, Collected
<1> QED
  BY <1>1, <1>2, FailInv

LEMMA EndOfFileInv == ASSUME Lin!ArgumentsAssumption, LinesInv, Lin!EndOfFile PROVE LinesInv'
<1>1. /\ lpc = "read" /\ lpc' = "open" /\ lnext > Len(args[lfile]) /\ lfile' = lfile + 1
      /\ UNCHANGED <<lprogram, args, lnext, lheap, owned, lout, opened>>
  BY DEF Lin!EndOfFile
<1>2. lfile \in 1..Len(args) /\ lnext \in Nat /\ \A f \in opened : f \in Nat /\ f <= lfile
  BY <1>1 DEF LinesInv, Reading
<1>3. Reading'
  BY <1>1, <1>2 DEF LinesInv, Reading
<1>4. SoFar' = SoFar
  <2>1. ASSUME NEW e \in Entries PROVE Passed(e)' <=> Passed(e)
    <3>1. e[2] \in 1..Len(args[e[1]]) /\ e[2] \in Nat
      BY DEF Entries
    <3>2. Len(args[lfile]) \in Nat
      BY <1>2, ArgsTyped DEF LinesInv
    <3>3. e[1] = lfile => e[2] < lnext
      BY <1>1, <1>2, <3>1, <3>2
    <3> QED
      BY <1>1, <3>3 DEF Passed
  <2> QED
    BY <1>1, <2>1, SameSoFar
<1>5. owned' = All(lheap)
  BY <1>1 DEF LinesInv, Collected
<1> QED
  BY <1>1, <1>3, <1>4, <1>5, Quiet

LEMMA AllReadInv == ASSUME LinesInv, Lin!AllRead PROVE LinesInv'
<1>1. lpc = "open" /\ lpc' = "deliver" /\ UNCHANGED <<lprogram, args, lfile, lnext, lheap, owned, lout, opened>>
  BY DEF Lin!AllRead
<1>2. Reading' /\ owned' = All(lheap)
  BY <1>1 DEF LinesInv, Reading, Collected
<1>3. SoFar' = SoFar
  BY <1>1, SameSoFar DEF Passed
<1> QED
  BY <1>1, <1>2, <1>3, Quiet

LEMMA FinishInv == ASSUME LinesInv, Lin!Finish PROVE LinesInv'
<1>1. lpc = "deliver" /\ lpc' = "true" /\ lheap = <<>> /\ UNCHANGED <<lprogram, args, lfile, lnext, lheap, owned, lout, opened>>
  BY DEF Lin!Finish
<1>2. Reading' /\ owned' = All(lheap)
  BY <1>1 DEF LinesInv, Reading, Collected
<1>3. SoFar' = SoFar
  BY <1>1, SameSoFar DEF Passed
<1> QED
  BY <1>1, <1>2, <1>3, Quiet

\* heap_insert: the line at hand comes to those that have been read.
LEMMA LineInsertInv == ASSUME Lin!ArgumentsAssumption, LinesInv, Lin!Insert PROVE LinesInv'
<1> DEFINE x == Lin!Entry
           S == All(lheap)
           n == Len(lheap)
<1>1. /\ lpc = "insert" /\ lpc' = "read" /\ lnext' = lnext + 1 /\ lheap' = Lin!H!Inserted(lheap, x)
      /\ ~Lin!Malformed(Lin!Line(x)) /\ UNCHANGED <<lprogram, args, lfile, owned, lout, opened>>
  BY DEF Lin!Insert
<1>2. /\ lnext \in Nat \ {0} /\ lnext <= Len(args[lfile]) /\ (lprogram = "pqueue" => Lin!Line(x).ended)
      /\ lfile \in opened /\ lout = <<>> /\ S \cup All(lout) = SoFar /\ owned = S \cup {x}
  BY <1>1 DEF LinesInv, Reading, Collected
<1>3. /\ x \in Entries /\ x[1] = lfile /\ x[2] = lnext /\ ~Passed(x)
      /\ \A e \in Entries : e[1] = lfile /\ e[2] = lnext => e = x
  BY <1>1, <1>2, AtEntry
<1> HIDE DEF x
<1>4. n \in Nat /\ HeapOf(lheap, n, S) /\ Topped(lheap) /\ (\A e \in S : e \in Entries /\ ~Lin!Malformed(Lin!Line(e)))
  BY DEF LinesInv, Sorted
<1>5. All(lout) = {} /\ S = SoFar /\ x \notin S
  BY <1>2, <1>3, EmptySorted DEF SoFar
<1>6. \A e \in S \cup {x} : Worth(e) \in Nat
  BY <1>3, <1>4, WorthTyped DEF LinesInv
<1> HIDE DEF n, S
<1>7. HeapOf(lheap', n + 1, S \cup {x}) /\ Topped(Lin!H!Inserted(lheap, x))
  BY <1>1, <1>4, <1>5, <1>6, InsertedRule
<1>8. Len(lheap') = n + 1 /\ All(lheap') = S \cup {x} /\ n + 1 \in Nat
  BY <1>4, <1>7 DEF HeapOf
<1>9. Sorted(lheap, lout)'
  <2>1. Sorted(lheap', <<>>)
    <3>1. Topped(lheap')
      BY <1>1, <1>7
    <3>2. Len(<<>>) = 0 /\ 1..0 = {} /\ All(<<>>) = {} /\ Once(<<>>) /\ <<>> \in Seq({})
      BY EmptySorted
    <3>3. \A e \in All(lheap') : e \in Entries /\ ~Lin!Malformed(Lin!Line(e))
      BY <1>1, <1>3, <1>4, <1>8
    <3>4. Len(lheap') \in Nat /\ HeapOf(lheap', Len(lheap'), All(lheap'))
      BY <1>7, <1>8
    <3> QED
      BY <3>1, <3>2, <3>3, <3>4 DEF Sorted
  <2>2. Sorted(lheap', lout')
    BY <1>1, <1>2, <2>1
  <2> QED
    BY <1>1, <2>2, SortedKept
<1>10. Reading'
  BY <1>1, <1>2 DEF LinesInv, Reading
<1>11. SoFar' = SoFar \cup {x}
  <2>1. Entries' = Entries
    BY <1>1 DEF Entries
  <2>2. Counts(x)
    BY <1>2 DEF Counts
  <2>3. ASSUME NEW e \in Entries PROVE Passed(e)' <=> Passed(e) \/ e = x
    <3>1. e[2] \in Nat
      BY DEF Entries
    <3>2. CASE e = x
      BY <1>1, <1>2, <1>3, <3>2 DEF Passed
    <3>3. CASE e # x
      <4>1. e[1] = lfile => e[2] # lnext
        BY <1>3, <3>3
      <4> QED
        BY <1>1, <1>2, <3>1, <3>3, <4>1 DEF Passed
    <3> QED
      BY <3>2, <3>3
  <2>4. ASSUME NEW e PROVE Counts(e)' <=> Counts(e)
    BY <1>1 DEF Counts, Lin!Line
  <2>5. SoFar' = {e \in Entries' : Passed(e)' /\ Counts(e)'}
    BY DEF SoFar
  <2>6. SoFar = {e \in Entries : Passed(e) /\ Counts(e)}
    BY DEF SoFar
  <2> QED
    BY ONLY <1>3, <2>1, <2>2, <2>3, <2>4, <2>5, <2>6, Zenon
<1>12. Collected'
  <2>1. All(lout') = {} /\ lout' = <<>>
    BY <1>1, <1>2, <1>5
  <2>2. All(lheap') \cup All(lout') = SoFar' /\ owned' = All(lheap')
    BY <1>1, <1>2, <1>5, <1>8, <1>11, <2>1
  <2> QED
    BY <1>1, <2>1, <2>2 DEF Collected
<1> QED
  BY <1>9, <1>10, <1>12 DEF LinesInv

LEMMA AppendRule ==
  ASSUME NEW S, NEW s \in Seq(S), NEW x
  PROVE  LET t == Append(s, x) IN
         /\ t \in Seq(S \cup {x}) /\ Len(s) \in Nat /\ Len(t) = Len(s) + 1 /\ t[Len(s) + 1] = x
         /\ \A i \in 1..Len(s) : t[i] = s[i] /\ s[i] \in S
<1>1. s \in Seq(S \cup {x})
  OBVIOUS
<1> QED
  BY <1>1

\* heap_extract: what is delivered is none below what is left, and none above what was
\* delivered before.
LEMMA DeliverInv == ASSUME Lin!ArgumentsAssumption, LinesInv, Lin!Deliver PROVE LinesInv'
<1> DEFINE S == All(lheap)
           T == All(lout)
           n == Len(lheap)
           m == Len(lout)
           x == lheap[1]
           o == Append(lout, x)
<1>1. /\ lpc = "deliver" /\ lpc' = "deliver" /\ lheap # <<>> /\ lheap' = Lin!H!Extracted(lheap) /\ lout' = o
      /\ owned' = owned \ {x} /\ UNCHANGED <<lprogram, args, lfile, lnext, opened>>
  BY DEF Lin!Deliver
<1>2. S \cup T = SoFar /\ owned = S
  BY <1>1 DEF LinesInv, Collected
<1>3. /\ n \in Nat /\ HeapOf(lheap, n, S) /\ Topped(lheap) /\ lheap \in Seq(S)
      /\ lout \in Seq(T) /\ Once(lout) /\ S \cap T = {}
      /\ \A e \in S \cup T : e \in Entries /\ ~Lin!Malformed(Lin!Line(e))
      /\ \A i, j \in 1..m : i <= j => Worth(lout[i]) >= Worth(lout[j])
      /\ \A i \in 1..m : \A e \in S : Worth(lout[i]) >= Worth(e)
  BY DEF LinesInv, Sorted, HeapOf
<1>4. n >= 1
  BY <1>1, <1>3
<1>5. \A e \in S \cup T : Worth(e) \in Nat
  BY <1>3, WorthTyped DEF LinesInv
<1>6. /\ o \in Seq(T \cup {x}) /\ m \in Nat /\ Len(o) = m + 1 /\ o[m + 1] = x
      /\ \A i \in 1..m : o[i] = lout[i] /\ lout[i] \in T
  BY <1>3, AppendRule
<1>7. T = {lout[i] : i \in 1..m}
  BY DEF All
<1> HIDE DEF S, T, n, m, x, o
<1>8. HeapOf(lheap', n - 1, S \ {x}) /\ Topped(Lin!H!Extracted(lheap))
  BY <1>1, <1>3, <1>4, <1>5, ExtractedRule DEF x
<1>9. x \in S /\ \A e \in S : Worth(x) >= Worth(e)
  BY <1>3, <1>4, <1>5, TopGreatest DEF x
<1>10. Len(lheap') = n - 1 /\ All(lheap') = S \ {x} /\ n - 1 \in Nat
  BY <1>3, <1>4, <1>8 DEF HeapOf
<1>11. \A i \in 1..(m + 1) : i \in 1..m \/ i = m + 1
  BY <1>6
<1>12. All(o) = T \cup {x}
  <2>1. All(o) = {o[i] : i \in 1..(m + 1)}
    BY <1>6 DEF All
  <2>2. m + 1 \in 1..(m + 1) /\ 1..m \subseteq 1..(m + 1)
    BY <1>6
  <2> QED
    BY <1>6, <1>7, <1>11, <2>1, <2>2
<1>13. Once(o)
  <2> SUFFICES ASSUME NEW p \in 1..(m + 1), NEW q \in 1..(m + 1), p # q PROVE o[p] # o[q]
    BY <1>6 DEF Once
  <2> QED
    BY <1>3, <1>6, <1>9, <1>11 DEF Once, m
<1>14. ASSUME NEW i \in 1..(m + 1), NEW j \in 1..(m + 1), i <= j PROVE Worth(o[i]) >= Worth(o[j])
  <2>1. CASE i \in 1..m /\ j \in 1..m
    BY <1>3, <1>6, <1>14, <2>1
  <2>2. CASE i \in 1..m /\ j = m + 1
    BY <1>3, <1>6, <1>9, <2>2
  <2>3. CASE i = m + 1
    <3>1. j = m + 1 /\ Worth(x) \in Nat
      BY <1>5, <1>6, <1>9, <1>11, <1>14, <2>3
    <3> QED
      BY <1>6, <2>3, <3>1
  <2> QED
    BY <1>11, <2>1, <2>2, <2>3
<1>15. ASSUME NEW i \in 1..(m + 1), NEW e \in S \ {x} PROVE Worth(o[i]) >= Worth(e)
  BY <1>3, <1>6, <1>9, <1>11
<1>16. Sorted(lheap, lout)'
  <2>1. Topped(lheap')
    BY <1>1, <1>8
  <2>2. Len(lheap') \in Nat /\ HeapOf(lheap', Len(lheap'), All(lheap'))
    BY <1>8, <1>10
  <2>3. o \in Seq(All(o)) /\ All(lheap') \cap All(o) = {}
    BY <1>3, <1>6, <1>10, <1>12
  <2>4. \A e \in All(lheap') \cup All(o) : e \in Entries /\ ~Lin!Malformed(Lin!Line(e))
    BY <1>3, <1>9, <1>10, <1>12
  <2>5. Sorted(lheap', o)
    BY <1>6, <1>10, <1>13, <1>14, <1>15, <2>1, <2>2, <2>3, <2>4 DEF Sorted
  <2>6. Sorted(lheap', lout')
    BY <1>1, <2>5
  <2> QED
    BY <1>1, <2>6, SortedKept
<1>17. Reading'
  BY <1>1 DEF LinesInv, Reading
<1>18. Collected'
  <2>1. SoFar' = SoFar
    BY <1>1, SameSoFar DEF Passed
  <2>2. All(lheap') \cup All(lout') = SoFar' /\ owned' = All(lheap')
    BY <1>1, <1>2, <1>9, <1>10, <1>12, <2>1
  <2> QED
    BY <1>1, <2>2 DEF Collected
<1> QED
  BY <1>16, <1>17, <1>18 DEF LinesInv

LEMMA LinesStep == Lin!ArgumentsAssumption /\ LinesInv /\ [Lin!Next]_(Lin!vars) => LinesInv'
<1> SUFFICES ASSUME Lin!ArgumentsAssumption, LinesInv, [Lin!Next]_(Lin!vars) PROVE LinesInv'
  OBVIOUS
<1>1. CASE Lin!Next
  BY <1>1, CallInv, OpenInv, NotFoundInv, SkipInv, TakeInv, TakeFailsInv, LineInsertInv, InsertFailsInv,
     EndOfFileInv, AllReadInv, DeliverInv, FinishInv DEF Lin!Next
<1>2. CASE UNCHANGED Lin!vars
  <2>1. UNCHANGED <<lpc, lprogram, args, lfile, lnext, lheap, owned, lout, opened>>
    BY <1>2 DEF Lin!vars
  <2>2. Sorted(lheap', lout')
    BY <2>1 DEF LinesInv
  <2>3. Sorted(lheap, lout)'
    BY <2>1, <2>2, SortedKept
  <2>4. SoFar' = SoFar
    BY <2>1, SameSoFar DEF Passed
  <2>5. Reading'
    BY <2>1 DEF LinesInv, Reading, Lin!Entry, Lin!Line
  <2>6. Collected'
    BY <2>1, <2>4 DEF LinesInv, Collected, Lin!Entry
  <2> QED
    BY <2>3, <2>5, <2>6 DEF LinesInv
<1> QED
  BY <1>1, <1>2

LEMMA LinesGood == ASSUME Lin!ArgumentsAssumption, LinesInv PROVE Lin!LinesRight
<1>1. /\ lheap \in Seq(All(lheap)) /\ Once(lheap) /\ lout \in Seq(All(lout)) /\ Once(lout)
      /\ \A e \in All(lheap) \cup All(lout) : e \in Entries /\ ~Lin!Malformed(Lin!Line(e))
      /\ \A i, j \in 1..Len(lout) : i <= j => Worth(lout[i]) >= Worth(lout[j])
  BY DEF LinesInv, Sorted, HeapOf
<1>2. Lin!Range(lheap) = All(lheap) /\ Lin!Range(lout) = All(lout) /\ DOMAIN lout = 1..Len(lout)
  BY <1>1 DEF Lin!Range, All
<1>3. Lin!EntriesOwned
  <2>1. Lin!Distinct(lheap)
    BY <1>1, OnceCounted
  <2> QED
    BY <1>2, <2>1 DEF Lin!EntriesOwned, LinesInv, Collected
<1>4. ASSUME lpc = "true"
      PROVE  /\ Lin!Range(lout) = Lin!Wanted /\ Lin!Distinct(lout)
             /\ \A i, j \in DOMAIN lout : i <= j => ~Lin!Before(lout[j], lout[i])
             /\ \A i \in DOMAIN lout : ~Lin!Malformed(Lin!Line(lout[i]))
  <2>1. Lin!Distinct(lout)
    BY <1>1, OnceCounted
  <2>2. All(lout) = SoFar
    BY <1>4, EmptySorted DEF LinesInv, Collected
  <2>3. Lin!Wanted = SoFar
    <3>1. opened \subseteq 1..Len(args)
      BY DEF LinesInv, Reading
    <3>2. ASSUME NEW f \in opened
          PROVE  /\ DOMAIN args[f] = 1..Len(args[f]) /\ Len(args[f]) \in Nat
                 /\ \A i \in 1..(Len(args[f]) - 1) : args[f][i].ended
      <4>1. f \in 1..Len(args)
        BY <3>1
      <4>2. /\ args[f] \in Seq(Lin!Lines) /\ Len(args[f]) \in Nat
            /\ \A i \in 1..(Len(args[f]) - 1) : args[f][i].ended
        BY <4>1, ArgsTyped DEF LinesInv
      <4> QED
        BY <4>2
    <3>3. ASSUME NEW e PROVE e \in Lin!Wanted <=> e \in SoFar
      <4>1. e \in Lin!Wanted <=>
              /\ \E f \in opened : e \in {f} \X (1..Len(args[f]))
              /\ lprogram = "pqueue" /\ e[2] = Len(args[e[1]]) => Lin!Line(e).ended
        BY <3>2 DEF Lin!Wanted
      <4>2. (\E f \in opened : e \in {f} \X (1..Len(args[f]))) <=> e \in Entries /\ e[1] \in opened
        BY <3>1 DEF Entries
      <4>3. e \in Entries /\ e[1] \in opened /\ e[2] # Len(args[e[1]]) => Lin!Line(e).ended
        <5> SUFFICES ASSUME e \in Entries, e[1] \in opened, e[2] # Len(args[e[1]])
                     PROVE  args[e[1]][e[2]].ended
          BY DEF Lin!Line
        <5>1. e[2] \in 1..(Len(args[e[1]]) - 1)
          BY <3>2 DEF Entries
        <5> QED
          BY <3>2, <5>1
      <4>4. Passed(e) <=> e[1] \in opened
        BY <1>4 DEF Passed
      <4> QED
        BY <4>1, <4>2, <4>3, <4>4 DEF SoFar, Counts
    <3> QED
      BY <3>3
  <2>4. ASSUME NEW i \in DOMAIN lout, NEW j \in DOMAIN lout, i <= j PROVE ~Lin!Before(lout[j], lout[i])
    <3>1. lout[i] \in Entries /\ lout[j] \in Entries
      BY <1>1, <1>2 DEF All
    <3>2. Worth(lout[i]) \in Nat /\ Worth(lout[j]) \in Nat
      BY <3>1, WorthTyped DEF LinesInv
    <3>3. Worth(lout[i]) >= Worth(lout[j])
      BY <1>1, <1>2, <2>4
    <3> QED
      BY <3>2, <3>3 DEF Lin!Before, Worth
  <2>5. \A i \in DOMAIN lout : ~Lin!Malformed(Lin!Line(lout[i]))
    BY <1>1, <1>2 DEF All
  <2> QED
    BY <1>2, <2>1, <2>2, <2>3, <2>4, <2>5
<1>5. lpc = "false" => lout = <<>> /\ owned = {}
  BY EmptySorted DEF LinesInv, Collected
<1> QED
  BY <1>3, <1>4, <1>5 DEF Lin!LinesRight

\* The line programs, for any files and any failures: a program that succeeds has delivered the
\* lines it should, each once, the greatest first and none malformed, and one that fails has freed
\* all entries and delivered nothing; every entry in between is in the heap or at hand.
THEOREM LinesDelivered == ASSUME Lin!ArgumentsAssumption PROVE Lin!Spec => []Lin!LinesRight
<1>1. Lin!Init => LinesInv
  BY LinesInit
<1>2. LinesInv /\ [Lin!Next]_(Lin!vars) => LinesInv'
  BY LinesStep
<1>3. LinesInv => Lin!LinesRight
  BY LinesGood
<1> QED
  BY <1>1, <1>2, <1>3, PTL DEF Lin!Spec
-----------------------------------------------------------------------------
(***************************************************************************)
(* The program around the Huffman codec (Huffman), for any files, names    *)
(* and size of a block: what it leaves when it succeeds, when a call of it *)
(* fails, and when it is killed.                                           *)
(***************************************************************************)
CONSTANTS Bytes, Blocks, MaxDepth, Names, Plain, Block, NoFile, MaxRuns
VARIABLES
  hpc, side, block, freqs, node, hheap, packed, root, current, bit, hout,
  fpc, mode, input, output, rest, failed, ok, disk, before, exit, lost, runs

Huf == INSTANCE Huffman WITH pc <- hpc, heap <- hheap, out <- hout

\* What FlattenSeq makes of a sequence of sequences.
FlatStep(s, f, i) == IF i = 1 THEN s[i] ELSE f[i - 1] \o s[i]
Flattens(s, n, f) == f = [i \in 1..n |-> FlatStep(s, f, i)]
Flat(s) == IF Len(s) = 0 THEN s ELSE (CHOOSE f : Flattens(s, Len(s), f))[Len(s)]

LEMMA FlattenSeqIs == \A s : Huf!FlattenSeq(s) = Flat(s)
BY DEF Huf!FlattenSeq, Flat, Flattens, FlatStep

LEMMA FlattensAt ==
  ASSUME NEW s, NEW n, NEW f, Flattens(s, n, f), NEW i \in 1..n
  PROVE  f[i] = FlatStep(s, f, i)
<1>1. f[i] = [j \in 1..n |-> FlatStep(s, f, j)][i]
  BY DEF Flattens
<1> QED
  BY <1>1

LEMMA FlattensExists == ASSUME NEW s PROVE \A n \in Nat : \E f : Flattens(s, n, f)
<1> DEFINE S == {n \in Nat : \E f : Flattens(s, n, f)}
<1>1. 0 \in S
  <2>1. Flattens(s, 0, [i \in 1..0 |-> s])
    BY DEF Flattens
  <2> QED
    BY <2>1
<1>2. ASSUME NEW n \in Nat, n \in S PROVE n + 1 \in S
  <2>1. PICK f : Flattens(s, n, f)
    BY <1>2
  <2> DEFINE g == [i \in 1..(n + 1) |-> IF i <= n THEN f[i] ELSE FlatStep(s, f, i)]
  <2>2. \A i \in 1..n : g[i] = f[i]
    OBVIOUS
  <2>3. \A i \in 1..(n + 1) : g[i] = FlatStep(s, f, i)
    BY <2>1, FlattensAt
  <2>4. \A i \in 1..(n + 1) : FlatStep(s, g, i) = FlatStep(s, f, i)
    BY <2>2 DEF FlatStep
  <2>5. g = [i \in 1..(n + 1) |-> g[i]]
    OBVIOUS
  <2> HIDE DEF g
  <2>6. Flattens(s, n + 1, g)
    BY <2>3, <2>4, <2>5 DEF Flattens
  <2> QED
    BY <2>6
<1> HIDE DEF S
<1>3. Nat \subseteq S
  BY <1>1, <1>2, Steps
<1> QED
  BY <1>3 DEF S

Alike(s, t, n) == \A i \in 1..n : s[i] = t[i]

\* Two sequences that begin alike are flattened alike so far.
LEMMA FlattensSame ==
  ASSUME NEW s, NEW t, NEW n \in Nat, NEW k \in Nat, n <= k, Alike(s, t, n),
         NEW f, NEW g, Flattens(s, n, f), Flattens(t, k, g)
  PROVE  Alike(f, g, n)
<1> DEFINE S == {i \in Nat : i \in 1..n => f[i] = g[i]}
<1>1. 0 \in S
  OBVIOUS
<1>2. ASSUME NEW i \in Nat, i \in S PROVE i + 1 \in S
  <2> SUFFICES ASSUME i + 1 \in 1..n PROVE f[i + 1] = g[i + 1]
    OBVIOUS
  <2>1. f[i + 1] = FlatStep(s, f, i + 1)
    BY FlattensAt
  <2>2. g[i + 1] = FlatStep(t, g, i + 1)
    BY FlattensAt
  <2>3. i + 1 # 1 => f[i] = g[i]
    BY <1>2
  <2> QED
    BY <2>1, <2>2, <2>3 DEF FlatStep, Alike
<1> HIDE DEF S
<1>3. Nat \subseteq S
  BY <1>1, <1>2, Steps
<1> QED
  BY <1>3 DEF S, Alike

LEMMA FlatLast ==
  ASSUME NEW s, Len(s) \in Nat, Len(s) # 0, NEW f, Flattens(s, Len(s), f)
  PROVE  Flat(s) = f[Len(s)]
<1> DEFINE g == CHOOSE h : Flattens(s, Len(s), h)
<1>1. Flattens(s, Len(s), g)
  OBVIOUS
<1>2. Flat(s) = g[Len(s)]
  BY DEF Flat
<1> HIDE DEF g
<1>3. Alike(g, f, Len(s))
  BY <1>1, FlattensSame DEF Alike
<1> QED
  BY <1>2, <1>3 DEF Alike

\* One more sequence at the end puts its elements at the end.
LEMMA FlatAppend ==
  ASSUME NEW S, NEW s \in Seq(Seq(S)), NEW x \in Seq(S)
  PROVE  Flat(Append(s, x)) = IF s = <<>> THEN x ELSE Flat(s) \o x
<1> DEFINE t == Append(s, x)
           n == Len(s)
<1>1. n \in Nat /\ n + 1 \in Nat /\ n <= n + 1 /\ Len(t) = n + 1 /\ t[n + 1] = x /\ (\A i \in 1..n : s[i] = t[i]) /\ (s = <<>> <=> n = 0)
  OBVIOUS
<1> HIDE DEF t, n
<1>2. PICK f : Flattens(s, n, f)
  BY <1>1, FlattensExists
<1>3. PICK g : Flattens(t, n + 1, g)
  BY <1>1, FlattensExists
<1>4. Flat(t) = g[n + 1]
  BY <1>1, <1>3, FlatLast
<1>5. g[n + 1] = FlatStep(t, g, n + 1)
  BY <1>1, <1>3, FlattensAt
<1>6. CASE s = <<>>
  BY <1>1, <1>4, <1>5, <1>6 DEF FlatStep, t
<1>7. CASE s # <<>>
  <2>1. Flat(s) = f[n]
    BY <1>1, <1>2, <1>7, FlatLast DEF n
  <2>2. Alike(f, g, n)
    <3>1. Alike(s, t, n)
      BY <1>1 DEF Alike
    <3> QED
      BY <1>1, <1>2, <1>3, <3>1, FlattensSame
  <2>4. n \in 1..n /\ f[n] = g[n]
    BY <1>1, <1>7, <2>2 DEF Alike
  <2>3. FlatStep(t, g, n + 1) = g[n] \o x
    BY <1>1, <1>7 DEF FlatStep
  <2> QED
    BY <1>4, <1>5, <1>7, <2>1, <2>3, <2>4 DEF t
<1> QED
  BY <1>6, <1>7

-----------------------------------------------------------------------------
\* The text of a file: of one item more, of parts, and of a file of bytes.
Sym == Huf!Symbols

LEMMA OfSeq ==
  ASSUME NEW f \in Seq(Huf!Items)
  PROVE  LET s == [i \in DOMAIN f |-> f[i].of] IN
         s \in Seq(Seq(Sym)) /\ Len(s) = Len(f) /\ (s = <<>> <=> f = <<>>) /\ Huf!Text(f) = Flat(s)
<1> DEFINE s == [i \in DOMAIN f |-> f[i].of]
<1>1. Len(f) \in Nat /\ DOMAIN f = 1..Len(f) /\ \A i \in 1..Len(f) : f[i] \in Huf!Items
  OBVIOUS
<1>2. \A i \in 1..Len(f) : f[i].of \in Seq(Sym)
  BY <1>1 DEF Huf!Items, Sym
<1>3. s \in [1..Len(f) -> Seq(Sym)]
  BY <1>1, <1>2
<1>4. s \in Seq(Seq(Sym)) /\ Len(s) = Len(f)
  BY <1>1, <1>3
<1>5. s = <<>> <=> f = <<>>
  BY <1>1, <1>4
<1>6. Huf!Text(f) = Flat(s)
  BY FlattenSeqIs DEF Huf!Text
<1> QED
  BY <1>4, <1>5, <1>6

LEMMA TextEmpty == Huf!Text(<<>>) = <<>>
<1>1. <<>> \in Seq(Huf!Items)
  OBVIOUS
<1> DEFINE s == [i \in DOMAIN <<>> |-> <<>>[i].of]
<1>2. s = <<>> /\ Huf!Text(<<>>) = Flat(s)
  BY <1>1, OfSeq
<1> HIDE DEF s
<1> QED
  BY <1>2 DEF Flat

\* A part of a file from its beginning, and one item more.
LEMMA PartLonger ==
  ASSUME NEW S, NEW f \in Seq(S), NEW n \in Nat, n + 1 <= Len(f)
  PROVE  /\ SubSeq(f, 1, n) \in Seq(S) /\ SubSeq(f, 1, n + 1) \in Seq(S) /\ Len(SubSeq(f, 1, n)) = n
         /\ f[n + 1] \in S /\ SubSeq(f, 1, n + 1) = Append(SubSeq(f, 1, n), f[n + 1])
OBVIOUS

LEMMA TextMore ==
  ASSUME NEW f \in Seq(Huf!Items), NEW x \in Huf!Items
  PROVE  Huf!Text(Append(f, x)) = IF f = <<>> THEN x.of ELSE Huf!Text(f) \o x.of
<1> DEFINE s == [i \in DOMAIN f |-> f[i].of]
           g == Append(f, x)
           t == [i \in DOMAIN g |-> g[i].of]
<1>1. s \in Seq(Seq(Sym)) /\ Len(s) = Len(f) /\ (s = <<>> <=> f = <<>>) /\ Huf!Text(f) = Flat(s)
  BY OfSeq
<1>2. g \in Seq(Huf!Items) /\ Len(g) = Len(f) + 1 /\ g[Len(f) + 1] = x /\ (\A i \in 1..Len(f) : g[i] = f[i]) /\ Len(f) \in Nat
      /\ DOMAIN f = 1..Len(f)
  OBVIOUS
<1>3. x.of \in Seq(Sym)
  BY DEF Huf!Items, Sym
<1> HIDE DEF g
<1>4. t \in Seq(Seq(Sym)) /\ Len(t) = Len(g) /\ Huf!Text(g) = Flat(t)
  BY <1>2, OfSeq
<1>5. /\ \A i \in 1..Len(f) : s[i] = f[i].of
      /\ \A i \in 1..(Len(f) + 1) : t[i] = g[i].of
  BY <1>2
<1> HIDE DEF s, t
<1>6. t = Append(s, x.of)
  <2>1. Append(s, x.of) \in Seq(Seq(Sym)) /\ Len(Append(s, x.of)) = Len(f) + 1
        /\ Append(s, x.of)[Len(f) + 1] = x.of /\ (\A i \in 1..Len(f) : Append(s, x.of)[i] = s[i])
    BY <1>1, <1>3
  <2>2. \A i \in 1..(Len(f) + 1) : t[i] = Append(s, x.of)[i]
    BY <1>2, <1>5, <2>1
  <2> QED
    BY <1>2, <1>4, <2>1, <2>2
<1>7. Flat(t) = IF s = <<>> THEN x.of ELSE Flat(s) \o x.of
  BY <1>1, <1>3, <1>6, FlatAppend
<1> QED
  BY <1>1, <1>4, <1>7 DEF g

\* Sequences are the same if they agree at every place.
LEMMA SameAll ==
  ASSUME NEW S, NEW s \in Seq(S), NEW t \in Seq(S), Len(s) = Len(t), \A i \in 1..Len(s) : s[i] = t[i]
  PROVE  s = t
OBVIOUS

LEMMA JoinSeq ==
  ASSUME NEW S, NEW s \in Seq(S), NEW t \in Seq(S)
  PROVE  /\ s \o t \in Seq(S) /\ Len(s) \in Nat /\ Len(t) \in Nat /\ Len(s \o t) = Len(s) + Len(t)
         /\ \A i \in 1..Len(s) : (s \o t)[i] = s[i]
         /\ \A i \in 1..Len(t) : (s \o t)[Len(s) + i] = t[i]
OBVIOUS

LEMMA EmptyJoins == ASSUME NEW S, NEW s \in Seq(S) PROVE <<>> \o s = s /\ s \o <<>> = s
OBVIOUS

LEMMA PartWhole ==
  ASSUME NEW S, NEW f \in Seq(S)
  PROVE  SubSeq(f, 1, 0) = <<>> /\ SubSeq(f, 1, Len(f)) = f
OBVIOUS

LEMMA PartType ==
  ASSUME NEW S, NEW f \in Seq(S), NEW m \in 1..(Len(f) + 1), NEW n \in Nat, n <= Len(f), m <= n + 1
  PROVE  /\ SubSeq(f, m, n) \in Seq(S) /\ Len(SubSeq(f, m, n)) = n - m + 1
         /\ \A i \in 1..(n - m + 1) : SubSeq(f, m, n)[i] = f[m - 1 + i]
OBVIOUS

LEMMA TextTyped == ASSUME NEW f \in Seq(Huf!Items) PROVE Huf!Text(f) \in Seq(Sym)
<1> DEFINE P == {n \in Nat : n <= Len(f) => Huf!Text(SubSeq(f, 1, n)) \in Seq(Sym)}
<1>1. 0 \in P
  <2>1. Huf!Text(SubSeq(f, 1, 0)) = <<>>
    BY PartWhole, TextEmpty
  <2>2. <<>> \in Seq(Sym)
    OBVIOUS
  <2> QED
    BY <2>1, <2>2
<1>2. ASSUME NEW n \in Nat, n \in P PROVE n + 1 \in P
  <2> SUFFICES ASSUME n + 1 <= Len(f) PROVE Huf!Text(SubSeq(f, 1, n + 1)) \in Seq(Sym)
    OBVIOUS
  <2> DEFINE g == SubSeq(f, 1, n)
  <2>1. g \in Seq(Huf!Items) /\ f[n + 1] \in Huf!Items /\ SubSeq(f, 1, n + 1) = Append(g, f[n + 1])
    BY PartLonger
  <2>2. Huf!Text(g) \in Seq(Sym)
    <3>1. n <= Len(f)
      OBVIOUS
    <3> QED
      BY <1>2, <3>1
  <2>3. f[n + 1].of \in Seq(Sym)
    BY <2>1 DEF Huf!Items, Sym
  <2> HIDE DEF g
  <2>4. Huf!Text(Append(g, f[n + 1])) = IF g = <<>> THEN f[n + 1].of ELSE Huf!Text(g) \o f[n + 1].of
    BY <2>1, TextMore
  <2> QED
    BY <2>1, <2>2, <2>3, <2>4, JoinSeq
<1>3. Len(f) \in P
  <2> HIDE DEF P
  <2>1. Nat \subseteq P
    BY <1>1, <1>2, Steps
  <2> QED
    BY <2>1
<1>4. SubSeq(f, 1, Len(f)) = f
  BY PartWhole
<1>5. Len(f) <= Len(f)
  OBVIOUS
<1> QED
  BY <1>3, <1>4, <1>5

LEMMA TextJoin ==
  ASSUME NEW f \in Seq(Huf!Items), NEW x \in Huf!Items
  PROVE  /\ Huf!Text(Append(f, x)) = Huf!Text(f) \o x.of
         /\ Huf!Text(f) \in Seq(Sym) /\ x.of \in Seq(Sym)
<1>1. Huf!Text(f) \in Seq(Sym) /\ x.of \in Seq(Sym)
  BY TextTyped DEF Huf!Items, Sym
<1>2. CASE f = <<>>
  <2>1. Huf!Text(Append(f, x)) = x.of /\ Huf!Text(f) = <<>>
    BY <1>2, TextMore, TextEmpty
  <2> QED
    BY <1>1, <2>1, EmptyJoins
<1>3. CASE f # <<>>
  BY <1>1, <1>3, TextMore
<1> QED
  BY <1>2, <1>3

\* The bytes of a file that has nothing else.
Letters(f) == [i \in 1..Len(f) |-> f[i].of[1]]
Single(f) == \A i \in 1..Len(f) : f[i].kind = "byte" => Len(f[i].of) = 1
AllBytes(f) == \A i \in 1..Len(f) : f[i].kind = "byte"

LEMMA LettersTyped ==
  ASSUME NEW f \in Seq(Huf!Items), Single(f), AllBytes(f)
  PROVE  /\ Letters(f) \in Seq(Sym) /\ Len(Letters(f)) = Len(f) /\ Len(f) \in Nat
         /\ \A i \in 1..Len(f) : f[i] \in Huf!Items /\ Letters(f)[i] = f[i].of[1] /\ f[i].of = <<f[i].of[1]>>
<1>1. Len(f) \in Nat /\ \A i \in 1..Len(f) : f[i] \in Huf!Items
  OBVIOUS
<1>2. ASSUME NEW i \in 1..Len(f) PROVE f[i].of[1] \in Sym /\ f[i].of = <<f[i].of[1]>>
  <2>1. f[i].of \in Seq(Sym) /\ Len(f[i].of) = 1
    BY <1>1 DEF Huf!Items, Sym, Single, AllBytes
  <2> QED
    BY <2>1
<1>3. Letters(f) \in [1..Len(f) -> Sym]
  BY <1>2 DEF Letters
<1>4. Letters(f) \in Seq(Sym) /\ Len(Letters(f)) = Len(f)
  BY <1>1, <1>3
<1> QED
  BY <1>1, <1>2, <1>4 DEF Letters

LEMMA TextOfBytes ==
  ASSUME NEW f \in Seq(Huf!Items), Single(f), AllBytes(f)
  PROVE  Huf!Text(f) = Letters(f)
<1> DEFINE w == Letters(f)
           P == {n \in Nat : n <= Len(f) => Huf!Text(SubSeq(f, 1, n)) = SubSeq(w, 1, n)}
<1>0. w \in Seq(Sym) /\ Len(w) = Len(f) /\ Len(f) \in Nat /\ (\A i \in 1..Len(f) : w[i] = f[i].of[1] /\ f[i].of = <<f[i].of[1]>>)
  BY LettersTyped
<1> HIDE DEF w
<1>1. 0 \in P
  <2>1. Huf!Text(SubSeq(f, 1, 0)) = <<>>
    BY PartWhole, TextEmpty
  <2>2. SubSeq(w, 1, 0) = <<>>
    BY <1>0, PartWhole
  <2> QED
    BY <2>1, <2>2
<1>2. ASSUME NEW n \in Nat, n \in P PROVE n + 1 \in P
  <2> SUFFICES ASSUME n + 1 <= Len(f) PROVE Huf!Text(SubSeq(f, 1, n + 1)) = SubSeq(w, 1, n + 1)
    OBVIOUS
  <2> DEFINE g == SubSeq(f, 1, n)
             v == SubSeq(w, 1, n)
  <2>1. g \in Seq(Huf!Items) /\ f[n + 1] \in Huf!Items /\ SubSeq(f, 1, n + 1) = Append(g, f[n + 1])
    BY PartLonger
  <2>2. v \in Seq(Sym) /\ w[n + 1] \in Sym /\ SubSeq(w, 1, n + 1) = Append(v, w[n + 1])
    <3>1. n + 1 <= Len(w)
      BY <1>0
    <3> QED
      BY <1>0, <3>1, PartLonger
  <2>3. Huf!Text(g) = v
    <3>1. n <= Len(f)
      BY <1>0
    <3> QED
      BY <1>2, <3>1
  <2>4. f[n + 1].of = <<w[n + 1]>>
    BY <1>0
  <2> HIDE DEF g, v
  <2>5. Huf!Text(Append(g, f[n + 1])) = Huf!Text(g) \o f[n + 1].of
    BY <2>1, TextJoin
  <2>6. v \o <<w[n + 1]>> = Append(v, w[n + 1])
    BY <2>2
  <2> QED
    BY <2>1, <2>2, <2>3, <2>4, <2>5, <2>6
<1>3. Len(f) \in P
  <2> HIDE DEF P
  <2>1. Nat \subseteq P
    BY <1>1, <1>2, Steps
  <2> QED
    BY <1>0, <2>1
<1>4. SubSeq(f, 1, Len(f)) = f /\ SubSeq(w, 1, Len(w)) = w
  BY <1>0, PartWhole
<1>5. Len(f) <= Len(f)
  BY <1>0
<1> QED
  BY <1>0, <1>3, <1>4, <1>5 DEF w

\* Parts of a sequence that meet.
LEMMA PartsMeet ==
  ASSUME NEW S, NEW w \in Seq(S), NEW k \in Nat, NEW n \in Nat, k + n <= Len(w),
         NEW r, r = SubSeq(w, k + 1, Len(w))
  PROVE  SubSeq(w, 1, k) \o SubSeq(r, 1, n) = SubSeq(w, 1, k + n)
         /\ SubSeq(r, n + 1, Len(r)) = SubSeq(w, k + n + 1, Len(w))
         /\ Len(r) = Len(w) - k /\ r \in Seq(S)
<1> DEFINE L == Len(w)
           a == SubSeq(w, 1, k)
           b == SubSeq(r, 1, n)
           c == SubSeq(w, 1, k + n)
           d == SubSeq(r, n + 1, Len(r))
           e == SubSeq(w, k + n + 1, L)
<1>1. L \in Nat /\ k <= L /\ n <= L - k /\ k + 1 \in 1..(L + 1) /\ k + n + 1 \in 1..(L + 1) /\ k + n \in Nat /\ k <= L
      /\ L - k \in Nat /\ 1 \in 1..(L + 1) /\ n + 1 \in 1..(L - k + 1) /\ 1 \in 1..(L - k + 1) /\ 1 <= k + 1 /\ 1 <= n + 1 /\ 1 <= k + n + 1
      /\ n + 1 <= L - k + 1 /\ k + 1 <= L + 1 /\ k + n + 1 <= L + 1
  OBVIOUS
<1>2. r \in Seq(S) /\ Len(r) = L - k /\ \A i \in 1..(L - k) : r[i] = w[k + i]
  OBVIOUS
<1>3. a \in Seq(S) /\ Len(a) = k /\ \A i \in 1..k : a[i] = w[i]
  OBVIOUS
<1>4. b \in Seq(S) /\ Len(b) = n /\ \A i \in 1..n : b[i] = r[i]
  BY <1>1, <1>2
<1>5. c \in Seq(S) /\ Len(c) = k + n /\ \A i \in 1..(k + n) : c[i] = w[i]
  <2> DEFINE q == k + n
  <2>1. q \in Nat /\ q <= Len(w)
    BY <1>1
  <2> HIDE DEF q
  <2>2. SubSeq(w, 1, q) \in Seq(S) /\ Len(SubSeq(w, 1, q)) = q /\ \A i \in 1..q : SubSeq(w, 1, q)[i] = w[i]
    BY ONLY <2>1, w \in Seq(S)
  <2> QED
    BY <2>2 DEF q
<1>6. d \in Seq(S) /\ Len(d) = L - k - n /\ \A i \in 1..(L - k - n) : d[i] = r[n + i]
  <2> HIDE DEF L
  <2>1. n + 1 \in 1..(Len(r) + 1) /\ Len(r) \in Nat /\ Len(r) <= Len(r) /\ n + 1 <= Len(r) + 1
    BY <1>1, <1>2
  <2>2. d \in Seq(S) /\ Len(d) = Len(r) - (n + 1) + 1 /\ \A i \in 1..(Len(r) - (n + 1) + 1) : d[i] = r[(n + 1) - 1 + i]
    <3> DEFINE m == n + 1
               l == Len(r)
    <3>1. r \in Seq(S) /\ m \in 1..(Len(r) + 1) /\ l \in Nat /\ l <= Len(r) /\ m <= l + 1
      BY <1>2, <2>1
    <3> HIDE DEF m, l
    <3>2. /\ SubSeq(r, m, l) \in Seq(S) /\ Len(SubSeq(r, m, l)) = l - m + 1
          /\ \A i \in 1..(l - m + 1) : SubSeq(r, m, l)[i] = r[m - 1 + i]
      BY ONLY <3>1, PartType
    <3> QED
      BY <3>2 DEF m, l
  <2>3. Len(r) - (n + 1) + 1 = L - k - n /\ \A i \in Int : (n + 1) - 1 + i = n + i
    BY <1>1, <1>2
  <2> QED
    BY <2>2, <2>3
<1>7. e \in Seq(S) /\ Len(e) = L - k - n /\ \A i \in 1..(L - k - n) : e[i] = w[k + n + i]
  <2> DEFINE m == k + n + 1
             q == L - m + 1
             o == m - 1
  <2>1. e \in Seq(S) /\ Len(e) = q /\ \A i \in 1..q : e[i] = w[o + i]
    BY <1>1, PartType
  <2>2. q = L - k - n /\ o = k + n
    BY <1>1
  <2> HIDE DEF e, q, o, L
  <2> QED
    BY <2>1, <2>2
<1> HIDE DEF L, a, b, c, d, e
<1>8. a \o b = c
  <2>1. /\ a \o b \in Seq(S) /\ Len(a \o b) = k + n
        /\ \A i \in 1..k : (a \o b)[i] = a[i]
        /\ \A i \in 1..n : (a \o b)[k + i] = b[i]
    <3>1. a \in Seq(S) /\ b \in Seq(S)
      BY <1>3, <1>4
    <3>2. /\ a \o b \in Seq(S) /\ Len(a \o b) = Len(a) + Len(b)
          /\ \A i \in 1..Len(a) : (a \o b)[i] = a[i]
          /\ \A i \in 1..Len(b) : (a \o b)[Len(a) + i] = b[i]
      BY ONLY <3>1, JoinSeq
    <3> QED
      BY <1>3, <1>4, <3>2
  <2>2. ASSUME NEW i \in 1..(k + n) PROVE (a \o b)[i] = c[i]
    <3>1. CASE i <= k
      BY <1>3, <1>5, <2>1, <3>1
    <3>2. CASE i > k
      <4>1. i - k \in 1..n /\ k + (i - k) = i /\ i - k \in 1..(L - k)
        BY <1>1, <3>2
      <4>2. (a \o b)[i] = b[i - k]
        BY <2>1, <4>1
      <4>3. b[i - k] = r[i - k]
        BY <1>4, <4>1
      <4>4. r[i - k] = w[i]
        BY <1>2, <4>1
      <4>5. c[i] = w[i]
        BY <1>5
      <4> QED
        BY ONLY <4>2, <4>3, <4>4, <4>5
    <3>3. i <= k \/ i > k
      BY <1>1
    <3> QED
      BY <3>1, <3>2, <3>3
  <2> QED
    BY <1>5, <2>1, <2>2, SameAll
<1>9. d = e
  <2>1. ASSUME NEW i \in 1..(L - k - n) PROVE d[i] = e[i]
    <3>1. n + i \in 1..(L - k) /\ k + (n + i) = k + n + i
      BY <1>1
    <3> QED
      BY <1>2, <1>6, <1>7, <3>1
  <2> QED
    BY <1>6, <1>7, <2>1, SameAll
<1> QED
  BY <1>2, <1>8, <1>9 DEF L, a, b, c, d, e

-----------------------------------------------------------------------------
\* The inductive invariant.
Stored(f) == f \in Seq(Huf!Items) /\ Single(f)
Src == before[input]
At == Len(Src) - Len(rest)
Copy == disk[Huf!Target]
BlocksOnly(f) == \A i \in 1..Len(f) : f[i].kind = "block" /\ Len(f[i].of) \in 1..Block
FullUpto(f, m) == \A i \in 1..m : Len(f[i].of) = Block

FilesTyped ==
  /\ fpc \in {"shell", "open", "loop", "close", "rename"} /\ mode \in {"c", "d"}
  /\ input \in Names \cup {NoFile} /\ output \in Names \cup {NoFile}
  /\ fpc # "shell" => input \in Names /\ output \in Names
  /\ rest \in Seq(Huf!Items) /\ failed \in BOOLEAN /\ ok \in BOOLEAN /\ lost \in BOOLEAN
  /\ DOMAIN disk = Huf!Places
  /\ \A p \in Huf!Places : disk[p] = NoFile \/ Stored(disk[p])
  /\ exit \in {"none", "success", "failure", "killed"} /\ runs \in 0..MaxRuns

\* Until a run succeeds the files are what they were.
Untouched ==
  /\ exit # "success" => \A n \in Names : disk[n] = before[n]
  /\ fpc # "shell" => exit = "none"
  /\ fpc = "open" => disk = before
  /\ fpc # "shell" /\ before[input] # NoFile =>
       IF mode = "c" THEN Huf!IsPlain(before[input]) ELSE Huf!IsPacked(before[input])
  /\ fpc \in {"loop", "close", "rename"} => before[input] # NoFile /\ Stored(Copy)
  /\ fpc \in {"open", "loop", "close"} => ~lost

\* What a user may take for packed is packed.
PackedWell == \A n \in Names : Huf!IsPacked(disk[n]) => Huf!IsPackOf(disk[n], Huf!Text(disk[n]))

\* The copy is made of what has been read.
CopyGoes ==
  fpc = "loop" =>
    /\ At \in Nat /\ rest = SubSeq(Src, At + 1, Len(Src))
    /\ mode = "c" => /\ Huf!Text(Copy) = SubSeq(Letters(Src), 1, At) /\ BlocksOnly(Copy)
                     /\ failed \/ FullUpto(Copy, IF rest = <<>> THEN Len(Copy) - 1 ELSE Len(Copy))
    /\ mode = "d" => AllBytes(Copy) /\ Huf!Text(Copy) = Huf!Text(SubSeq(Src, 1, At)) /\ rest # <<>>

Complete == IF mode = "c" THEN Huf!IsPackOf(Copy, Huf!Text(Src)) ELSE AllBytes(Copy) /\ Huf!Text(Copy) = Huf!Text(Src)
CopyDone ==
  fpc \in {"close", "rename"} /\ ok => IF lost THEN ~Huf!IsPacked(Copy) ELSE Complete

\* What a run says when it ends.
Reported ==
  /\ exit = "failure" => disk = before \/ disk[Huf!Tmp(output)] = NoFile
  /\ exit = "success" /\ ~lost =>
       /\ IF mode = "c" THEN Huf!IsPackOf(disk[output], Huf!Text(before[input]))
          ELSE Huf!IsPlain(disk[output]) /\ Huf!IsPackOf(before[input], Huf!Text(disk[output]))
       /\ disk[Huf!Tmp(output)] = NoFile
       /\ \A n \in Names \ {output} : disk[n] = before[n]

FilesInv == FilesTyped /\ Untouched /\ PackedWell /\ CopyGoes /\ CopyDone /\ Reported

LEMMA RawIs ==
  ASSUME NEW d \in Seq(Sym)
  PROVE  /\ Stored(Huf!Raw(d)) /\ AllBytes(Huf!Raw(d)) /\ Len(Huf!Raw(d)) = Len(d)
         /\ Huf!Text(Huf!Raw(d)) = d
<1> DEFINE f == Huf!Raw(d)
<1>1. Len(d) \in Nat /\ DOMAIN d = 1..Len(d) /\ \A i \in 1..Len(d) : d[i] \in Sym
  OBVIOUS
<1>2. f = [i \in 1..Len(d) |-> Huf!Byte(d[i])]
  BY <1>1 DEF Huf!Raw
<1>3. ASSUME NEW i \in 1..Len(d) PROVE Huf!Byte(d[i]) \in Huf!Items
  <2>1. <<d[i]>> \in Seq(Sym)
    BY <1>1
  <2> QED
    BY <2>1 DEF Huf!Byte, Huf!Items, Sym
<1>4. f \in [1..Len(d) -> Huf!Items]
  BY <1>2, <1>3
<1>5. f \in Seq(Huf!Items) /\ Len(f) = Len(d)
  BY <1>1, <1>4
<1>6. \A i \in 1..Len(d) : f[i].kind = "byte" /\ f[i].of = <<d[i]>>
  BY <1>2 DEF Huf!Byte
<1> HIDE DEF f
<1>7. Single(f) /\ AllBytes(f)
  <2>1. \A i \in 1..Len(d) : Len(f[i].of) = 1
    <3>1. \A x : Len(<<x>>) = 1
      OBVIOUS
    <3> QED
      BY <1>6, <3>1
  <2> QED
    BY <1>5, <1>6, <2>1 DEF Single, AllBytes
<1>8. Huf!Text(f) = Letters(f)
  BY <1>5, <1>7, TextOfBytes
<1>9. Letters(f) \in Seq(Sym) /\ Len(Letters(f)) = Len(f) /\ \A i \in 1..Len(f) : Letters(f)[i] = f[i].of[1]
  BY <1>5, <1>7, LettersTyped
<1>10. \A i \in 1..Len(d) : f[i].of[1] = d[i]
  BY <1>6
<1>11. Letters(f) = d
  BY <1>5, <1>9, <1>10, SameAll
<1> QED
  BY <1>5, <1>7, <1>8, <1>11 DEF Stored, f

LEMMA FilesBegin == ASSUME Huf!FilesAssumption, Huf!FilesInit PROVE FilesInv
<1>1. PICK had \in [Names -> Plain \cup {NoFile}] :
        disk = [p \in Huf!Places |-> IF p \in Names /\ had[p] # NoFile THEN Huf!Raw(had[p]) ELSE NoFile]
  BY DEF Huf!FilesInit
<1>2. ASSUME NEW d \in Plain PROVE d \in Seq(Sym)
  <2>1. d \in Seq(Bytes)
    BY DEF Huf!FilesAssumption
  <2>2. Len(d) \in Nat /\ d \in [1..Len(d) -> Bytes] /\ DOMAIN d = 1..Len(d)
    BY <2>1
  <2>3. \A i \in 1..Len(d) : d[i] \in Sym
    BY <2>2 DEF Sym, Huf!Symbols, Huf!ToSet
  <2>4. d \in [1..Len(d) -> Sym]
    BY <2>2, <2>3
  <2> QED
    BY <2>2, <2>4
<1>3. ASSUME NEW p \in Huf!Places
      PROVE  /\ disk[p] = NoFile \/ Stored(disk[p])
             /\ ~Huf!IsPacked(disk[p])
  <2>1. CASE disk[p] = NoFile
    BY <2>1 DEF Huf!IsPacked
  <2>2. CASE disk[p] # NoFile
    <3>1. p \in Names /\ had[p] \in Plain /\ disk[p] = Huf!Raw(had[p])
      BY <1>1, <2>2
    <3>2. Stored(disk[p]) /\ AllBytes(disk[p]) /\ Len(disk[p]) = Len(had[p])
      BY <1>2, <3>1, RawIs
    <3>3. ~Huf!IsPacked(disk[p])
      <4> SUFFICES ASSUME Huf!IsPacked(disk[p]) PROVE FALSE
        OBVIOUS
      <4>1. disk[p] \in Seq(Huf!Items) /\ disk[p] # <<>>
        BY <3>2 DEF Stored, Huf!IsPacked
      <4>2. Len(disk[p]) \in 1..Len(disk[p])
        BY <4>1
      <4>3. disk[p][Len(disk[p])].kind = "byte" /\ disk[p][Len(disk[p])].kind = "end"
        BY <3>2, <4>2 DEF AllBytes, Huf!IsPacked, Huf!End
      <4> QED
        BY <4>3
    <3> QED
      BY <3>2, <3>3
  <2> QED
    BY <2>1, <2>2
<1>4. Names \subseteq Huf!Places /\ DOMAIN disk = Huf!Places
  BY <1>1 DEF Huf!Places
<1>5. FilesTyped
  <2>1. <<>> \in Seq(Huf!Items) /\ 0 \in 0..MaxRuns
    BY DEF Huf!FilesAssumption
  <2> QED
    BY <1>3, <1>4, <2>1 DEF FilesTyped, Huf!FilesInit
<1>6. PackedWell
  BY <1>3, <1>4 DEF PackedWell
<1> QED
  BY <1>5, <1>6 DEF FilesInv, Huf!FilesInit, Untouched, CopyGoes, CopyDone, Reported

\* A step that writes f to the temporary file, or removes it, changes no other.
LEMMA TargetSet ==
  ASSUME Huf!FilesAssumption, FilesInv, fpc \in {"open", "loop", "close", "rename"}, UNCHANGED output,
         NEW f, f = NoFile \/ Stored(f), disk' = [disk EXCEPT ![Huf!Target] = f]
  PROVE  /\ DOMAIN disk' = Huf!Places /\ disk'[Huf!Target] = f /\ Huf!Target' = Huf!Target
         /\ \A p \in Huf!Places : disk'[p] = NoFile \/ Stored(disk'[p])
         /\ \A n \in Names : disk'[n] = disk[n] /\ n \in Huf!Places
         /\ Huf!Target \in Huf!Places
<1>1. output \in Names /\ DOMAIN disk = Huf!Places
  BY DEF FilesInv, FilesTyped
<1>2. Huf!Target \in Huf!Places /\ Huf!Target \notin Names /\ Names \subseteq Huf!Places /\ Huf!Target' = Huf!Target
  BY <1>1 DEF Huf!Target, Huf!Places, Huf!FilesAssumption
<1>3. \A p \in Huf!Places : disk'[p] = IF p = Huf!Target THEN f ELSE disk[p]
  BY <1>1
<1> QED
  BY <1>1, <1>2, <1>3 DEF FilesInv, FilesTyped

LEMMA RunInv ==
  ASSUME Huf!FilesAssumption, FilesInv, NEW m \in {"c", "d"}, NEW i \in Names, NEW o \in Names, Huf!Run(m, i, o)
  PROVE  FilesInv'
<1>1. /\ runs < MaxRuns /\ fpc' = "open" /\ mode' = m /\ input' = i /\ output' = o /\ before' = disk
      /\ exit' = "none" /\ lost' = FALSE /\ runs' = runs + 1 /\ UNCHANGED <<rest, failed, ok, disk>>
      /\ disk[i] # NoFile => IF m = "c" THEN Huf!IsPlain(disk[i]) ELSE Huf!IsPacked(disk[i])
  BY DEF Huf!Run
<1>2. FilesTyped'
  <2>1. runs + 1 \in 0..MaxRuns
    BY <1>1 DEF FilesInv, FilesTyped, Huf!FilesAssumption
  <2> QED
    BY <1>1, <2>1 DEF FilesInv, FilesTyped
<1>3. PackedWell'
  BY <1>1 DEF FilesInv, PackedWell
<1>4. Untouched' /\ CopyGoes' /\ CopyDone' /\ Reported'
  BY <1>1 DEF Untouched, CopyGoes, CopyDone, Reported
<1> QED
  BY <1>2, <1>3, <1>4 DEF FilesInv

LEMMA OpenFailsInv == ASSUME FilesInv, Huf!OpenFails PROVE FilesInv'
<1>1. fpc = "open" /\ fpc' = "shell" /\ exit' = "failure"
      /\ UNCHANGED <<mode, input, output, rest, failed, ok, disk, before, lost, runs>>
  BY DEF Huf!OpenFails, Huf!Exit, Huf!command
<1>2. disk = before /\ FilesTyped /\ PackedWell
  BY <1>1 DEF FilesInv, Untouched
<1>3. FilesTyped' /\ PackedWell'
  BY <1>1, <1>2 DEF FilesTyped, PackedWell
<1>4. Untouched' /\ CopyGoes' /\ CopyDone' /\ Reported'
  BY <1>1, <1>2 DEF Untouched, CopyGoes, CopyDone, Reported
<1> QED
  BY <1>3, <1>4 DEF FilesInv

LEMMA FilesOpenInv == ASSUME Huf!FilesAssumption, FilesInv, Huf!Open PROVE FilesInv'
<1>1. /\ fpc = "open" /\ disk[input] # NoFile /\ fpc' = "loop" /\ rest' = disk[input]
      /\ disk' = [disk EXCEPT ![Huf!Target] = <<>>] /\ failed' = FALSE /\ ok' = FALSE
      /\ UNCHANGED <<mode, input, output, before, exit, lost, runs>>
  BY DEF Huf!Open, Huf!command
<1>2. disk = before /\ input \in Names /\ exit = "none" /\ ~lost /\ FilesTyped /\ PackedWell
      /\ IF mode = "c" THEN Huf!IsPlain(before[input]) ELSE Huf!IsPacked(before[input])
  BY <1>1 DEF FilesInv, FilesTyped, Untouched
<1>3. Stored(<<>>) /\ <<>> \in Seq(Huf!Items) /\ Len(<<>>) = 0
  BY DEF Stored, Single
<1>4. /\ DOMAIN disk' = Huf!Places /\ disk'[Huf!Target] = <<>> /\ Huf!Target' = Huf!Target
      /\ \A p \in Huf!Places : disk'[p] = NoFile \/ Stored(disk'[p])
      /\ \A n \in Names : disk'[n] = disk[n] /\ n \in Huf!Places
  BY <1>1, <1>3, TargetSet
<1>5. Stored(Src) /\ Src \in Seq(Huf!Items) /\ rest' = Src /\ Src' = Src /\ Len(Src) \in Nat
  BY <1>1, <1>2, <1>4 DEF FilesTyped, Src, Stored
<1>6. FilesTyped'
  BY <1>1, <1>2, <1>4, <1>5 DEF FilesTyped, Huf!Places
<1>7. Untouched'
  BY <1>1, <1>2, <1>3, <1>4 DEF Untouched, Copy
<1>8. PackedWell'
  BY <1>1, <1>2, <1>4 DEF PackedWell
<1>9. CopyGoes'
  <2>1. Copy' = <<>> /\ At' = 0
    BY <1>1, <1>4, <1>5 DEF Copy, At
  <2>2. rest' = SubSeq(Src, 0 + 1, Len(Src)) /\ SubSeq(Src, 1, 0) = <<>>
    BY <1>5, PartWhole
  <2>3. mode = "c" => SubSeq(Letters(Src), 1, 0) = <<>>
    <3>1. mode = "c" => AllBytes(Src)
      <4>1. DOMAIN Src = 1..Len(Src)
        BY <1>5
      <4> QED
        BY <1>2, <4>1 DEF Huf!IsPlain, AllBytes, Src
    <3>2. mode = "c" => Letters(Src) \in Seq(Sym)
      BY <1>5, <3>1, LettersTyped DEF Stored
    <3> QED
      BY <3>2, PartWhole
  <2>4. mode = "d" => rest' # <<>>
    BY <1>2, <1>5 DEF Huf!IsPacked, Src
  <2>5. BlocksOnly(<<>>) /\ AllBytes(<<>>) /\ FullUpto(<<>>, 0) /\ FullUpto(<<>>, 0 - 1)
    BY <1>3 DEF BlocksOnly, AllBytes, FullUpto
  <2>6. mode' = mode /\ Src' = Src /\ At' \in Nat
    BY <1>1, <1>5, <2>1
  <2> QED
    BY <1>3, <2>1, <2>2, <2>3, <2>4, <2>5, <2>6, TextEmpty DEF CopyGoes
<1>10. CopyDone' /\ Reported'
  BY <1>1, <1>2 DEF CopyDone, Reported
<1> QED
  BY <1>6, <1>7, <1>8, <1>9, <1>10 DEF FilesInv

LEMMA CloseParts ==
  ASSUME FilesInv, fpc = "rename"
  PROVE  /\ FilesTyped /\ PackedWell /\ exit = "none" /\ output \in Names /\ before[input] # NoFile /\ input \in Names
         /\ Stored(Copy) /\ (\A n \in Names : disk[n] = before[n])
         /\ ok => IF lost THEN ~Huf!IsPacked(Copy) ELSE Complete
         /\ IF mode = "c" THEN Huf!IsPlain(before[input]) ELSE Huf!IsPacked(before[input])
BY DEF FilesInv, FilesTyped, Untouched, CopyDone

LEMMA GiveUpInv == ASSUME Huf!FilesAssumption, FilesInv, Huf!GiveUp PROVE FilesInv'
<1>1. fpc = "rename" /\ fpc' = "shell" /\ exit' = "failure" /\ disk' = [disk EXCEPT ![Huf!Target] = NoFile]
      /\ UNCHANGED <<mode, input, output, rest, failed, ok, before, lost, runs>>
  BY DEF Huf!GiveUp, Huf!Exit, Huf!command
<1>2. /\ DOMAIN disk' = Huf!Places /\ disk'[Huf!Target] = NoFile
      /\ \A p \in Huf!Places : disk'[p] = NoFile \/ Stored(disk'[p])
      /\ \A n \in Names : disk'[n] = disk[n]
  BY <1>1, TargetSet
<1>3. FilesTyped /\ PackedWell /\ \A n \in Names : disk[n] = before[n]
  BY <1>1, CloseParts
<1>4. FilesTyped'
  BY <1>1, <1>2, <1>3 DEF FilesTyped, Huf!Places
<1>5. PackedWell' /\ Untouched' /\ CopyGoes' /\ CopyDone'
  BY <1>1, <1>2, <1>3 DEF PackedWell, Untouched, CopyGoes, CopyDone
<1>6. Reported'
  BY <1>1, <1>2 DEF Reported, Huf!Target
<1> QED
  BY <1>4, <1>5, <1>6 DEF FilesInv

LEMMA KillInv == ASSUME FilesInv, Huf!Kill PROVE FilesInv'
<1>1. fpc # "shell" /\ fpc' = "shell" /\ exit' = "killed"
      /\ UNCHANGED <<mode, input, output, rest, failed, ok, disk, before, lost, runs>>
  BY DEF Huf!Kill, Huf!Exit, Huf!command
<1>2. FilesTyped /\ PackedWell /\ \A n \in Names : disk[n] = before[n]
  BY <1>1 DEF FilesInv, Untouched
<1>3. FilesTyped' /\ PackedWell' /\ Untouched' /\ CopyGoes' /\ CopyDone' /\ Reported'
  BY <1>1, <1>2 DEF FilesTyped, PackedWell, Untouched, CopyGoes, CopyDone, Reported
<1> QED
  BY <1>3 DEF FilesInv

LEMMA BytesNotPacked == ASSUME NEW f \in Seq(Huf!Items), AllBytes(f) PROVE ~Huf!IsPacked(f)
<1> SUFFICES ASSUME Huf!IsPacked(f) PROVE FALSE
  OBVIOUS
<1>1. f # <<>> /\ f[Len(f)] = Huf!End
  BY DEF Huf!IsPacked
<1>2. Len(f) \in 1..Len(f)
  BY <1>1
<1>3. f[Len(f)].kind = "byte"
  BY <1>2 DEF AllBytes
<1> QED
  BY <1>1, <1>3 DEF Huf!End

LEMMA PlainIs ==
  ASSUME Huf!FilesAssumption, NEW f \in Seq(Huf!Items)
  PROVE  f # NoFile /\ (Huf!IsPlain(f) <=> AllBytes(f))
<1>1. f # NoFile /\ DOMAIN f = 1..Len(f)
  BY DEF Huf!FilesAssumption
<1> QED
  BY <1>1 DEF Huf!IsPlain, AllBytes

\* What is packed is blocks and the mark, so without its end it is not packed.
LEMMA FrontNotPacked ==
  ASSUME NEW f \in Seq(Huf!Items), f # <<>>, NEW t, AllBytes(f) \/ Huf!IsPackOf(f, t)
  PROVE  /\ Huf!Front(f) \in Seq(Huf!Items) /\ ~Huf!IsPacked(Huf!Front(f))
         /\ AllBytes(f) => AllBytes(Huf!Front(f))
<1> DEFINE n == Len(f) - 1
           g == SubSeq(f, 1, n)
<1>0. Len(f) \in Nat /\ Len(f) # 0
  OBVIOUS
<1>1. n \in Nat /\ n <= Len(f) /\ n + 1 = Len(f) /\ 1 \in 1..(Len(f) + 1) /\ 1 <= n + 1 /\ n - 1 + 1 = n
  BY <1>0
<1> HIDE DEF n
<1>2. g \in Seq(Huf!Items) /\ Len(g) = n /\ \A i \in 1..n : g[i] = f[i] /\ i \in 1..Len(f)
  <2>1. /\ g \in Seq(Huf!Items) /\ Len(g) = n - 1 + 1
        /\ \A i \in 1..(n - 1 + 1) : g[i] = f[1 - 1 + i]
    BY <1>1, PartType
  <2>2. \A i \in 1..n : 1 - 1 + i = i /\ i \in 1..Len(f)
    BY <1>1
  <2> HIDE DEF g
  <2> QED
    BY <1>1, <2>1, <2>2
<1> HIDE DEF g
<1>3. AllBytes(f) => AllBytes(g)
  BY <1>2 DEF AllBytes
<1>4. ASSUME Huf!IsPackOf(f, t), Huf!IsPacked(g) PROVE FALSE
  <2>1. g # <<>> /\ g[n].kind = "end"
    BY <1>2, <1>4 DEF Huf!IsPacked, Huf!End
  <2>2. n \in 1..n
    BY <1>1, <1>2, <2>1
  <2>3. g[n].kind = "block"
    BY <1>1, <1>2, <1>4, <2>2 DEF Huf!IsPackOf, n
  <2> QED
    BY <2>1, <2>3
<1>5. AllBytes(g) => ~Huf!IsPacked(g)
  BY <1>2, BytesNotPacked
<1>6. Huf!Front(f) = g
  BY DEF Huf!Front, g, n
<1> QED
  BY <1>2, <1>3, <1>4, <1>5, <1>6

LEMMA SingleFront ==
  ASSUME NEW f, Stored(f), f # <<>>
  PROVE  Stored(Huf!Front(f))
<1>1. f \in Seq(Huf!Items)
  BY DEF Stored
<1>2. /\ Huf!Front(f) \in Seq(Huf!Items) /\ Len(Huf!Front(f)) = Len(f) - 1 /\ Len(f) \in Nat
      /\ \A i \in 1..(Len(f) - 1) : Huf!Front(f)[i] = f[i]
  BY <1>1 DEF Huf!Front
<1>3. \A i \in 1..(Len(f) - 1) : i \in 1..Len(f)
  BY <1>2
<1> QED
  BY <1>2, <1>3 DEF Stored, Single

LEMMA FilesCloseInv == ASSUME Huf!FilesAssumption, FilesInv, Huf!Close PROVE FilesInv'
<1>1. fpc = "close" /\ fpc' = "rename" /\ UNCHANGED <<mode, input, output, rest, failed, ok, before, exit, runs>>
  BY DEF Huf!Close, Huf!command
<1>2. /\ FilesTyped /\ PackedWell /\ exit = "none" /\ ~lost /\ Stored(Copy) /\ (\A n \in Names : disk[n] = before[n])
      /\ before[input] # NoFile /\ input \in Names /\ output \in Names /\ (ok => Complete)
      /\ IF mode = "c" THEN Huf!IsPlain(before[input]) ELSE Huf!IsPacked(before[input])
  BY <1>1 DEF FilesInv, FilesTyped, Untouched, CopyDone
<1>3. CASE UNCHANGED <<disk, lost>>
  <2>1. FilesTyped' /\ Copy' = Copy /\ Src' = Src
    BY <1>1, <1>2, <1>3 DEF FilesTyped, Copy, Src, Huf!Target, Huf!Tmp
  <2>2. PackedWell' /\ Untouched' /\ CopyGoes' /\ Reported'
    BY <1>1, <1>2, <1>3, <2>1 DEF PackedWell, Untouched, CopyGoes, Reported
  <2>3. CopyDone'
    BY <1>1, <1>2, <1>3, <2>1 DEF CopyDone, Complete
  <2> QED
    BY <2>1, <2>2, <2>3 DEF FilesInv
<1>4. CASE Copy # <<>> /\ disk' = [disk EXCEPT ![Huf!Target] = Huf!Front(Copy)] /\ lost' = TRUE
  <2>1. Stored(Huf!Front(Copy))
    BY <1>2, <1>4, SingleFront
  <2>2. /\ DOMAIN disk' = Huf!Places /\ disk'[Huf!Target] = Huf!Front(Copy) /\ Huf!Target' = Huf!Target
        /\ \A p \in Huf!Places : disk'[p] = NoFile \/ Stored(disk'[p])
        /\ \A n \in Names : disk'[n] = disk[n]
    BY <1>1, <1>4, <2>1, TargetSet
  <2>3. FilesTyped' /\ Copy' = Huf!Front(Copy)
    BY <1>1, <1>2, <1>4, <2>2 DEF FilesTyped, Copy, Huf!Places
  <2>4. PackedWell' /\ Untouched' /\ CopyGoes' /\ Reported'
    BY <1>1, <1>2, <2>1, <2>2, <2>3 DEF PackedWell, Untouched, CopyGoes, Reported
  <2>5. ok => ~Huf!IsPacked(Huf!Front(Copy))
    <3> SUFFICES ASSUME ok PROVE ~Huf!IsPacked(Huf!Front(Copy))
      OBVIOUS
    <3>1. AllBytes(Copy) \/ Huf!IsPackOf(Copy, Huf!Text(Src))
      BY <1>2 DEF Complete
    <3>2. Copy \in Seq(Huf!Items)
      BY <1>2 DEF Stored
    <3> QED
      BY <1>4, <3>1, <3>2, FrontNotPacked
  <2>6. CopyDone'
    BY <1>1, <1>4, <2>3, <2>5 DEF CopyDone
  <2> QED
    BY <2>3, <2>4, <2>6 DEF FilesInv
<1>5. UNCHANGED <<disk, lost>> \/ (Copy # <<>> /\ disk' = [disk EXCEPT ![Huf!Target] = Huf!Front(Copy)] /\ lost' = TRUE)
  BY DEF Huf!Close, Copy
<1> QED
  BY <1>3, <1>4, <1>5

LEMMA RenameInv == ASSUME Huf!FilesAssumption, FilesInv, Huf!Rename PROVE FilesInv'
<1>1. /\ fpc = "rename" /\ ok /\ fpc' = "shell" /\ exit' = "success"
      /\ disk' = [disk EXCEPT ![output] = Copy, ![Huf!Tmp(output)] = NoFile]
      /\ UNCHANGED <<mode, input, output, rest, failed, ok, before, lost, runs>>
  BY DEF Huf!Rename, Huf!Exit, Huf!command, Copy
<1>2. /\ FilesTyped /\ PackedWell /\ output \in Names /\ before[input] # NoFile /\ input \in Names
      /\ Stored(Copy) /\ (\A n \in Names : disk[n] = before[n])
      /\ IF lost THEN ~Huf!IsPacked(Copy) ELSE Complete
      /\ IF mode = "c" THEN Huf!IsPlain(before[input]) ELSE Huf!IsPacked(before[input])
  BY <1>1, CloseParts
<1>3. /\ Huf!Tmp(output) \in Huf!Places /\ Huf!Tmp(output) \notin Names /\ Names \subseteq Huf!Places
      /\ DOMAIN disk = Huf!Places
  BY <1>2 DEF Huf!Places, Huf!FilesAssumption, FilesTyped
<1>4. /\ DOMAIN disk' = Huf!Places /\ disk'[output] = Copy /\ disk'[Huf!Tmp(output)] = NoFile
      /\ \A n \in Names \ {output} : disk'[n] = disk[n]
      /\ \A p \in Huf!Places : disk'[p] \in {NoFile, Copy, disk[p]}
  BY <1>1, <1>2, <1>3
<1>5. FilesTyped'
  <2>1. \A p \in Huf!Places : disk'[p] = NoFile \/ Stored(disk'[p])
    BY <1>2, <1>4 DEF FilesTyped
  <2> QED
    BY <1>1, <1>2, <1>4, <2>1 DEF FilesTyped, Huf!Places
<1>6. Copy \in Seq(Huf!Items)
  BY <1>2 DEF Stored
<1>7. ~lost /\ mode = "c" => Huf!IsPackOf(Copy, Huf!Text(Src)) /\ Huf!IsPackOf(Copy, Huf!Text(Copy))
  BY <1>2 DEF Complete, Huf!IsPackOf
<1>8. ~lost /\ mode # "c" => AllBytes(Copy) /\ Huf!Text(Copy) = Huf!Text(Src) /\ Huf!IsPackOf(Src, Huf!Text(Src))
  BY <1>2 DEF Complete, PackedWell, Src
<1>9. PackedWell'
  <2>1. Huf!IsPacked(Copy) => Huf!IsPackOf(Copy, Huf!Text(Copy))
    BY <1>2, <1>6, <1>7, <1>8, BytesNotPacked
  <2> QED
    BY <1>2, <1>4, <2>1 DEF PackedWell
<1>10. Reported'
  <2>1. ~lost =>
          /\ IF mode = "c" THEN Huf!IsPackOf(Copy, Huf!Text(Src))
             ELSE Huf!IsPlain(Copy) /\ Huf!IsPackOf(Src, Huf!Text(Copy))
    BY <1>6, <1>7, <1>8, PlainIs
  <2> QED
    BY <1>1, <1>2, <1>4, <2>1 DEF Reported, Src, Huf!Tmp
<1>11. Untouched' /\ CopyGoes' /\ CopyDone'
  BY <1>1 DEF Untouched, CopyGoes, CopyDone
<1> QED
  BY <1>5, <1>9, <1>10, <1>11 DEF FilesInv

\* What an fread of the compressor leaves of the input, and what the copy becomes with
\* what it returned.
LEMMA ReadOn ==
  ASSUME Huf!FilesAssumption, FilesInv, fpc = "loop", mode = "c",
         NEW n \in Nat, n <= Len(rest), NEW r, r = SubSeq(rest, n + 1, Len(rest))
  PROVE  /\ r \in Seq(Huf!Items) /\ Len(Src) - Len(r) = At + n /\ At + n \in Nat /\ Len(r) = Len(rest) - n
         /\ r = SubSeq(Src, (At + n) + 1, Len(Src))
         /\ SubSeq(rest, 1, n) \in Seq(Huf!Items)
         /\ Huf!Text(SubSeq(rest, 1, n)) \in Seq(Sym) /\ Len(Huf!Text(SubSeq(rest, 1, n))) = n
         /\ Huf!Text(Copy) \o Huf!Text(SubSeq(rest, 1, n)) = SubSeq(Letters(Src), 1, At + n)
<1> DEFINE p == SubSeq(rest, 1, n)
           w == Letters(Src)
           v == SubSeq(w, At + 1, Len(w))
<1>1. /\ At \in Nat /\ rest = SubSeq(Src, At + 1, Len(Src)) /\ Huf!Text(Copy) = SubSeq(w, 1, At)
      /\ rest \in Seq(Huf!Items) /\ before[input] # NoFile /\ input \in Names /\ input \in Huf!Places
      /\ Src = disk[input] /\ Huf!IsPlain(Src) /\ DOMAIN disk = Huf!Places /\ exit = "none"
  BY DEF FilesInv, FilesTyped, Untouched, CopyGoes, Src, Huf!Places
<1>2. Stored(Src) /\ Src \in Seq(Huf!Items) /\ AllBytes(Src)
  <2>1. Stored(Src)
    BY <1>1 DEF FilesInv, FilesTyped, Src
  <2> QED
    BY <1>1, <2>1, PlainIs DEF Stored
<1>3. w \in Seq(Sym) /\ Len(w) = Len(Src) /\ Len(Src) \in Nat /\ \A i \in 1..Len(Src) : w[i] = Src[i].of[1]
  BY <1>2, LettersTyped DEF Stored
<1>4. Len(rest) \in Nat /\ Len(rest) = Len(Src) - At /\ At + n <= Len(Src)
  <2>1. Len(rest) \in Nat
    BY <1>1
  <2> QED
    BY <1>1, <1>3, <2>1 DEF At
<1> HIDE DEF w
<1>5. /\ SubSeq(rest, n + 1, Len(rest)) = SubSeq(Src, At + n + 1, Len(Src))
      /\ Len(rest) = Len(Src) - At
  <2>1. Src \in Seq(Huf!Items) /\ At \in Nat /\ At + n <= Len(Src) /\ rest = SubSeq(Src, At + 1, Len(Src))
    BY <1>1, <1>2, <1>4
  <2> QED
    BY ONLY <2>1, PartsMeet, n \in Nat
<1>6. SubSeq(w, 1, At) \o SubSeq(v, 1, n) = SubSeq(w, 1, At + n) /\ Len(v) = Len(w) - At /\ v \in Seq(Sym)
  <2>1. At + n <= Len(w)
    BY <1>3, <1>4
  <2>2. w \in Seq(Sym) /\ At \in Nat
    BY <1>1, <1>3
  <2> QED
    BY ONLY <2>1, <2>2, PartsMeet, n \in Nat
<1>7. p \in Seq(Huf!Items) /\ Len(p) = n /\ \A i \in 1..n : p[i] = rest[i]
  BY <1>1
<1>8. \A i \in 1..n : rest[i] = Src[At + i] /\ At + i \in 1..Len(Src)
  <2>1. \A i \in 1..n : At + i \in 1..Len(Src) /\ i \in 1..(Len(Src) - (At + 1) + 1) /\ (At + 1) - 1 + i = At + i
    <3>1. At \in Nat /\ Len(Src) \in Nat /\ At + n <= Len(Src)
      BY <1>1, <1>3, <1>4
    <3> QED
      BY ONLY <3>1, n \in Nat
  <2>2. \A i \in 1..(Len(Src) - (At + 1) + 1) : SubSeq(Src, At + 1, Len(Src))[i] = Src[(At + 1) - 1 + i]
    <3>1. At + 1 \in 1..(Len(Src) + 1) /\ Len(Src) <= Len(Src) /\ At + 1 <= Len(Src) + 1
      BY <1>1, <1>3, <1>4
    <3> DEFINE m == At + 1
               l == Len(Src)
    <3>2. Src \in Seq(Huf!Items) /\ m \in 1..(Len(Src) + 1) /\ l \in Nat /\ l <= Len(Src) /\ m <= l + 1
      BY <1>2, <1>3, <3>1
    <3> HIDE DEF m, l
    <3>3. \A i \in 1..(l - m + 1) : SubSeq(Src, m, l)[i] = Src[m - 1 + i]
      BY ONLY <3>2, PartType
    <3> QED
      BY <3>3 DEF m, l
  <2> QED
    BY <1>1, <2>1, <2>2
<1>9. \A i \in 1..n : v[i] = w[At + i]
  <2>1. \A i \in 1..n : i \in 1..(Len(w) - (At + 1) + 1) /\ (At + 1) - 1 + i = At + i
    BY <1>1, <1>3, <1>4
  <2> DEFINE m == At + 1
             l == Len(w)
  <2>2. w \in Seq(Sym) /\ m \in 1..(Len(w) + 1) /\ l \in Nat /\ l <= Len(w) /\ m <= l + 1
    BY <1>1, <1>3, <1>4
  <2> HIDE DEF m, l
  <2>3. \A i \in 1..(l - m + 1) : SubSeq(w, m, l)[i] = w[m - 1 + i]
    BY ONLY <2>2, PartType
  <2> QED
    BY <2>1, <2>3 DEF m, l, v
<1> HIDE DEF p, v
<1>10. Single(p) /\ AllBytes(p)
  <2>1. ASSUME NEW i \in 1..n PROVE p[i].kind = "byte" /\ Len(p[i].of) = 1
    <3>1. p[i] = Src[At + i] /\ At + i \in 1..Len(Src)
      BY <1>7, <1>8
    <3>2. Src[At + i].kind = "byte" /\ Len(Src[At + i].of) = 1
      BY <1>2, <3>1 DEF Single, AllBytes, Stored
    <3> QED
      BY ONLY <3>1, <3>2
  <2>2. Len(p) = n
    BY <1>7
  <2> QED
    BY ONLY <2>1, <2>2 DEF Single, AllBytes
<1>11. /\ Huf!Text(p) = Letters(p) /\ Letters(p) \in Seq(Sym) /\ Len(Letters(p)) = n
       /\ \A i \in 1..n : Letters(p)[i] = p[i].of[1]
  BY <1>7, <1>10, TextOfBytes, LettersTyped
<1>12. SubSeq(v, 1, n) \in Seq(Sym) /\ Len(SubSeq(v, 1, n)) = n /\ \A i \in 1..n : SubSeq(v, 1, n)[i] = v[i]
  <2>1. n <= Len(v)
    BY <1>1, <1>3, <1>4, <1>6
  <2> QED
    BY <1>6, <2>1
<1>13. \A i \in 1..n : Letters(p)[i] = SubSeq(v, 1, n)[i]
  <2> TAKE i \in 1..n
  <2>1. Letters(p)[i] = p[i].of[1] /\ p[i] = rest[i]
    BY <1>7, <1>11
  <2>2. rest[i] = Src[At + i] /\ At + i \in 1..Len(Src)
    BY <1>8
  <2>3. SubSeq(v, 1, n)[i] = v[i] /\ v[i] = w[At + i]
    BY <1>9, <1>12
  <2>4. w[At + i] = Src[At + i].of[1]
    BY <1>3, <2>2
  <2> QED
    BY <2>1, <2>2, <2>3, <2>4
<1>14. Huf!Text(p) = SubSeq(v, 1, n)
  BY <1>11, <1>12, <1>13, SameAll
<1>15. r \in Seq(Huf!Items) /\ Len(r) = Len(rest) - n
  <2>1. rest \in Seq(Huf!Items) /\ n \in Nat /\ n <= Len(rest) /\ r = SubSeq(rest, n + 1, Len(rest))
    BY <1>1
  <2> QED
    BY ONLY <2>1
<1>16. Len(Src) - Len(r) = At + n /\ At + n \in Nat
  <2>1. Len(r) = Len(rest) - n /\ Len(rest) = Len(Src) - At /\ At \in Nat /\ Len(Src) \in Nat /\ n \in Nat
    BY <1>1, <1>3, <1>4, <1>15
  <2> QED
    BY ONLY <2>1
<1>17. Huf!Text(Copy) \o Huf!Text(p) = SubSeq(w, 1, At + n)
  BY <1>1, <1>6, <1>14
<1> QED
  BY <1>5, <1>7, <1>11, <1>14, <1>15, <1>16, <1>17 DEF p, w

\* A turn of the loops, but for the copy.
LEMMA LoopStays ==
  ASSUME Huf!FilesAssumption, FilesInv, fpc = "loop",
         UNCHANGED <<mode, input, output, before, exit, lost, runs>>,
         fpc' \in {"loop", "close"}, ok' \in BOOLEAN, failed' \in BOOLEAN, rest' \in Seq(Huf!Items),
         NEW f, (disk' = disk /\ f = Copy) \/ (disk' = [disk EXCEPT ![Huf!Target] = f] /\ Stored(f))
  PROVE  FilesTyped' /\ Untouched' /\ PackedWell' /\ Reported' /\ Src' = Src /\ Copy' = f /\ ~lost'
<1>1. FilesTyped /\ Untouched /\ PackedWell /\ Stored(Copy) /\ exit = "none" /\ ~lost
  BY DEF FilesInv, Untouched
<1>2. /\ DOMAIN disk' = Huf!Places /\ Copy' = f /\ Stored(f)
      /\ \A p \in Huf!Places : disk'[p] = NoFile \/ Stored(disk'[p])
      /\ \A n \in Names : disk'[n] = disk[n]
  <2>1. CASE disk' = disk /\ f = Copy
    BY <1>1, <2>1 DEF FilesTyped, Copy, Huf!Target, Huf!Tmp
  <2>2. CASE disk' = [disk EXCEPT ![Huf!Target] = f] /\ Stored(f)
    BY <2>2, TargetSet DEF Copy
  <2> QED
    BY <2>1, <2>2
<1>3. FilesTyped'
  BY <1>1, <1>2 DEF FilesTyped, Huf!Places
<1>4. Untouched' /\ Reported'
  BY <1>1, <1>2 DEF Untouched, Reported
<1>5. PackedWell'
  BY <1>1, <1>2 DEF PackedWell
<1> QED
  BY <1>1, <1>2, <1>3, <1>4, <1>5 DEF Src

\* A write fails.
LEMMA StopsInv ==
  ASSUME Huf!FilesAssumption, FilesInv, fpc = "loop",
         UNCHANGED <<mode, input, output, before, exit, lost, runs>>,
         failed' \in BOOLEAN, rest' \in Seq(Huf!Items), Huf!WriteFails
  PROVE  FilesInv'
<1>1. fpc' = "close" /\ ok' = FALSE /\ disk' = disk
  BY DEF Huf!WriteFails, Huf!Finish
<1>2. FilesTyped' /\ Untouched' /\ PackedWell' /\ Reported'
  BY <1>1, LoopStays
<1>3. CopyGoes' /\ CopyDone'
  BY <1>1 DEF CopyGoes, CopyDone
<1> QED
  BY <1>2, <1>3 DEF FilesInv

\* One item more.
LEMMA Longer ==
  ASSUME NEW f, Stored(f), NEW x \in Huf!Items, x.kind # "byte"
  PROVE  /\ f \o <<x>> = Append(f, x) /\ Stored(Append(f, x)) /\ Len(f) \in Nat
         /\ Len(Append(f, x)) = Len(f) + 1 /\ Append(f, x)[Len(f) + 1] = x
         /\ \A i \in 1..Len(f) : Append(f, x)[i] = f[i]
         /\ Huf!Text(Append(f, x)) = Huf!Text(f) \o x.of
<1>1. f \in Seq(Huf!Items) /\ \A i \in 1..Len(f) : f[i].kind = "byte" => Len(f[i].of) = 1
  BY DEF Stored, Single
<1>2. f \o <<x>> = Append(f, x)
  BY <1>1
<1>3. /\ Append(f, x) \in Seq(Huf!Items) /\ Len(f) \in Nat /\ Len(Append(f, x)) = Len(f) + 1
      /\ Append(f, x)[Len(f) + 1] = x /\ \A i \in 1..Len(f) : Append(f, x)[i] = f[i]
  BY <1>1
<1>4. Single(Append(f, x))
  <2> SUFFICES ASSUME NEW i \in 1..(Len(f) + 1), Append(f, x)[i].kind = "byte"
               PROVE  Len(Append(f, x)[i].of) = 1
    BY <1>3 DEF Single
  <2>1. i # Len(f) + 1
    BY <1>3
  <2>2. i \in 1..Len(f)
    BY <1>3, <2>1
  <2> QED
    BY <1>1, <1>3, <2>2
<1>5. Huf!Text(Append(f, x)) = Huf!Text(f) \o x.of
  BY <1>1, TextJoin
<1> QED
  BY <1>2, <1>3, <1>4, <1>5 DEF Stored

LEMMA CompressBlockInv == ASSUME Huf!FilesAssumption, FilesInv, Huf!CompressBlock PROVE FilesInv'
<1>1. /\ fpc = "loop" /\ mode = "c" /\ UNCHANGED <<mode, input, output, before, exit, lost, runs>>
  BY DEF Huf!CompressBlock, Huf!command
<1>2. PICK n \in 1..Block :
        /\ Huf!Fread(n)
        /\ \/ Huf!Emit(<<Huf!Packed(Huf!Text(SubSeq(rest, 1, n)))>>) /\ UNCHANGED <<fpc, ok>>
           \/ Huf!WriteFails
  BY DEF Huf!CompressBlock
<1>3. Block \in Nat /\ rest \in Seq(Huf!Items) /\ Len(rest) \in Nat /\ failed \in BOOLEAN /\ ok \in BOOLEAN
      /\ Stored(Copy) /\ ~lost
  <2>1. rest \in Seq(Huf!Items)
    BY DEF FilesInv, FilesTyped
  <2>2. Len(rest) \in Nat
    BY <2>1
  <2> QED
    BY <1>1, <2>1, <2>2 DEF FilesInv, FilesTyped, Untouched, Huf!FilesAssumption
<1>4. /\ n \in Nat /\ n <= Len(rest) /\ n <= Block /\ n # 0
      /\ rest' = SubSeq(rest, n + 1, Len(rest)) /\ failed' \in BOOLEAN
      /\ ~failed' => ~failed /\ (n = Block \/ n = Len(rest))
  <2> DEFINE l == Huf!Least(Block, Len(rest))
  <2>1. n \in 0..l /\ rest' = SubSeq(rest, n + 1, Len(rest)) /\ failed' = (failed \/ n < l)
    BY <1>2 DEF Huf!Fread
  <2>2. failed' \in BOOLEAN /\ (~failed' => ~failed /\ ~(n < l))
    BY ONLY <2>1, Zenon
  <2>3. l \in Nat /\ l <= Block /\ l <= Len(rest) /\ (l = Block \/ l = Len(rest))
    BY <1>3 DEF Huf!Least
  <2> HIDE DEF l
  <2>4. n \in Nat /\ n <= l /\ n # 0
    BY <1>3, <2>1, <2>3
  <2>5. ~(n < l) => n = l
    BY <2>3, <2>4
  <2> QED
    BY <1>3, <2>1, <2>2, <2>3, <2>4, <2>5
<1> DEFINE p == SubSeq(rest, 1, n)
<1>5. /\ rest' \in Seq(Huf!Items) /\ Len(Src) - Len(rest') = At + n /\ At + n \in Nat /\ Len(rest') = Len(rest) - n
      /\ rest' = SubSeq(Src, (At + n) + 1, Len(Src))
      /\ Huf!Text(p) \in Seq(Sym) /\ Len(Huf!Text(p)) = n
      /\ Huf!Text(Copy) \o Huf!Text(p) = SubSeq(Letters(Src), 1, At + n)
  BY <1>1, <1>4, ReadOn
<1>6. CASE Huf!WriteFails
  BY <1>1, <1>4, <1>5, <1>6, StopsInv
<1>7. CASE Huf!Emit(<<Huf!Packed(Huf!Text(p))>>) /\ UNCHANGED <<fpc, ok>>
  <2> DEFINE x == Huf!Packed(Huf!Text(p))
             f == Append(Copy, x)
  <2>1. x \in Huf!Items /\ x.kind = "block" /\ x.of = Huf!Text(p)
    BY <1>5 DEF Huf!Packed, Huf!Items, Sym
  <2>2. disk' = [disk EXCEPT ![Huf!Target] = Copy \o <<x>>]
    BY <1>7 DEF Huf!Emit, Copy
  <2> HIDE DEF x, p
  <2>3. /\ Copy \o <<x>> = f /\ Stored(f) /\ Len(Copy) \in Nat
        /\ Len(f) = Len(Copy) + 1 /\ f[Len(Copy) + 1] = x /\ (\A i \in 1..Len(Copy) : f[i] = Copy[i])
        /\ Huf!Text(f) = Huf!Text(Copy) \o x.of
    BY <1>3, <2>1, Longer
  <2> HIDE DEF f
  <2>4. disk' = [disk EXCEPT ![Huf!Target] = f]
    BY <2>2, <2>3
  <2>5. FilesTyped' /\ Untouched' /\ PackedWell' /\ Reported' /\ Src' = Src /\ Copy' = f
    BY <1>1, <1>3, <1>4, <1>5, <1>7, <2>3, <2>4, LoopStays
  <2>6. At' = At + n
    BY <1>5, <2>5 DEF At
  <2>7. BlocksOnly(Copy) /\ (failed \/ FullUpto(Copy, IF rest = <<>> THEN Len(Copy) - 1 ELSE Len(Copy)))
    BY <1>1 DEF FilesInv, CopyGoes
  <2>8. BlocksOnly(f)
    <3> SUFFICES ASSUME NEW i \in 1..(Len(Copy) + 1) PROVE f[i].kind = "block" /\ Len(f[i].of) \in 1..Block
      BY <2>3 DEF BlocksOnly
    <3>1. CASE i = Len(Copy) + 1
      BY <1>2, <1>5, <2>1, <2>3, <3>1
    <3>2. CASE i # Len(Copy) + 1
      <4>1. i \in 1..Len(Copy)
        BY <2>3, <3>2
      <4> QED
        BY <2>3, <2>7, <4>1 DEF BlocksOnly
    <3> QED
      BY <3>1, <3>2
  <2>9. ASSUME ~failed' PROVE FullUpto(f, IF rest' = <<>> THEN Len(f) - 1 ELSE Len(f))
    <3>1. rest # <<>> /\ ~failed
      BY <1>3, <1>4, <2>9
    <3>2. \A i \in 1..Len(Copy) : Len(f[i].of) = Block
      BY <2>3, <2>7, <3>1 DEF FullUpto
    <3>3. CASE rest' = <<>>
      BY <2>3, <3>2, <3>3 DEF FullUpto
    <3>4. CASE rest' # <<>>
      <4>1. Len(rest') # 0
        BY <1>5, <3>4
      <4>2. n = Block
        BY <1>3, <1>4, <1>5, <2>9, <4>1
      <4>3. Len(f[Len(Copy) + 1].of) = Block
        BY <1>5, <2>1, <2>3, <4>2
      <4>4. \A i \in 1..(Len(Copy) + 1) : i \in 1..Len(Copy) \/ i = Len(Copy) + 1
        BY <2>3
      <4> QED
        BY <2>3, <3>2, <3>4, <4>3, <4>4 DEF FullUpto
    <3> QED
      BY <3>3, <3>4
  <2>10. CopyGoes'
    BY <1>1, <1>5, <2>1, <2>3, <2>5, <2>6, <2>8, <2>9 DEF CopyGoes
  <2>11. CopyDone'
    BY <1>1, <1>7 DEF CopyDone
  <2> QED
    BY <2>5, <2>10, <2>11 DEF FilesInv
<1> QED
  BY <1>2, <1>6, <1>7

LEMMA CompressEndInv == ASSUME Huf!FilesAssumption, FilesInv, Huf!CompressEnd PROVE FilesInv'
<1>1. /\ fpc = "loop" /\ mode = "c" /\ UNCHANGED <<mode, input, output, before, exit, lost, runs>>
      /\ Huf!Fread(0) /\ ((Huf!Emit(<<Huf!End>>) /\ Huf!Finish(Huf!EndOk)) \/ Huf!WriteFails)
  BY DEF Huf!CompressEnd, Huf!command
<1>2. rest \in Seq(Huf!Items) /\ Stored(Copy) /\ ~lost
  BY <1>1 DEF FilesInv, FilesTyped, Untouched
<1>3. Block \in Nat \ {0} /\ Len(rest) \in Nat
  BY <1>2 DEF Huf!FilesAssumption
<1>4. /\ rest' = SubSeq(rest, 0 + 1, Len(rest)) /\ failed' \in BOOLEAN
      /\ ~failed' => ~failed /\ Len(rest) = 0
  <2> DEFINE l == Huf!Least(Block, Len(rest))
  <2>1. rest' = SubSeq(rest, 0 + 1, Len(rest)) /\ failed' = (failed \/ 0 < l)
    BY <1>1 DEF Huf!Fread
  <2>2. failed' \in BOOLEAN /\ (~failed' => ~failed /\ ~(0 < l))
    BY ONLY <2>1, Zenon
  <2>3. ~(0 < l) => Len(rest) = 0
    BY <1>3 DEF Huf!Least
  <2> HIDE DEF l
  <2> QED
    BY <2>1, <2>2, <2>3
<1>5. rest' \in Seq(Huf!Items)
  BY <1>1, <1>3, <1>4, ReadOn
<1>6. CASE Huf!WriteFails
  BY <1>1, <1>4, <1>5, <1>6, StopsInv
<1>7. CASE Huf!Emit(<<Huf!End>>) /\ Huf!Finish(Huf!EndOk)
  <2> DEFINE x == Huf!End
             f == Append(Copy, x)
  <2>1. x \in Huf!Items /\ x.kind = "end" /\ x.of = <<>>
    <3>1. <<>> \in Seq(Sym)
      OBVIOUS
    <3> QED
      BY <3>1 DEF Huf!End, Huf!Items, Sym
  <2>2. disk' = [disk EXCEPT ![Huf!Target] = Copy \o <<x>>] /\ fpc' = "close" /\ ok' = ~failed'
    BY <1>7 DEF Huf!Emit, Huf!Finish, Huf!EndOk, Copy
  <2> HIDE DEF x
  <2>3. /\ Copy \o <<x>> = f /\ Stored(f) /\ Len(Copy) \in Nat
        /\ Len(f) = Len(Copy) + 1 /\ f[Len(Copy) + 1] = x /\ (\A i \in 1..Len(Copy) : f[i] = Copy[i])
        /\ Huf!Text(f) = Huf!Text(Copy) \o x.of
    BY <1>2, <2>1, Longer
  <2> HIDE DEF f
  <2>4. disk' = [disk EXCEPT ![Huf!Target] = f] /\ ok' \in BOOLEAN /\ (ok' => ~failed')
    <3>1. ok' = ~failed'
      BY <2>2
    <3>2. ok' \in BOOLEAN /\ (ok' => ~failed')
      BY ONLY <3>1, Zenon
    <3> QED
      BY <2>2, <2>3, <3>2
  <2>5. FilesTyped' /\ Untouched' /\ PackedWell' /\ Reported' /\ Src' = Src /\ Copy' = f
    BY <1>1, <1>4, <1>5, <2>2, <2>3, <2>4, LoopStays
  <2>6. CopyGoes'
    BY <2>2 DEF CopyGoes
  <2>7. ASSUME ok' PROVE Huf!IsPackOf(f, Huf!Text(Src))
    <3>1. ~failed /\ Len(rest) = 0 /\ rest = <<>>
      BY <1>2, <1>4, <2>4, <2>7
    <3>2. /\ Huf!Text(Copy) = SubSeq(Letters(Src), 1, At) /\ BlocksOnly(Copy)
          /\ FullUpto(Copy, Len(Copy) - 1)
      BY <1>1, <3>1 DEF FilesInv, CopyGoes
    <3>3. Stored(Src) /\ Src \in Seq(Huf!Items) /\ AllBytes(Src)
      <4>1. before[input] # NoFile /\ input \in Names /\ Huf!IsPlain(Src) /\ Src = disk[input] /\ input \in Huf!Places
        BY <1>1 DEF FilesInv, FilesTyped, Untouched, Src, Huf!Places
      <4>2. Stored(Src)
        BY <4>1 DEF FilesInv, FilesTyped, Src
      <4> QED
        BY <4>1, <4>2, PlainIs DEF Stored
    <3>4. /\ Huf!Text(Src) = Letters(Src) /\ Letters(Src) \in Seq(Sym) /\ Len(Letters(Src)) = Len(Src) /\ Len(Src) \in Nat
      BY <3>3, TextOfBytes, LettersTyped DEF Stored
    <3>5. At = Len(Letters(Src))
      BY <3>1, <3>4 DEF At
    <3>6. Huf!Text(Copy) = Huf!Text(Src)
      BY <3>2, <3>4, <3>5, PartWhole
    <3>7. Huf!Text(f) = Huf!Text(Src)
      BY <2>1, <2>3, <3>4, <3>6, EmptyJoins
    <3>8. f # NoFile /\ f # <<>> /\ f[Len(f)] = Huf!End
      <4>1. f \in Seq(Huf!Items)
        BY <2>3 DEF Stored
      <4>2. f # <<>>
        BY <2>3, <4>1
      <4> QED
        BY <2>3, <4>1, <4>2, PlainIs DEF x
    <3>9. ASSUME NEW i \in 1..(Len(f) - 1)
          PROVE  /\ f[i].kind = "block"
                 /\ IF i < Len(f) - 1 THEN Len(f[i].of) = Block ELSE Len(f[i].of) \in 1..Block
      <4>1. i \in 1..Len(Copy) /\ f[i] = Copy[i] /\ (i < Len(f) - 1 => i \in 1..(Len(Copy) - 1))
        BY <2>3
      <4> QED
        BY <3>2, <4>1 DEF BlocksOnly, FullUpto
    <3> QED
      BY <3>7, <3>8, <3>9 DEF Huf!IsPackOf, Huf!IsPacked
  <2>8. CopyDone'
    BY <1>1, <1>2, <2>2, <2>5, <2>7 DEF CopyDone, Complete
  <2> QED
    BY <2>5, <2>6, <2>8 DEF FilesInv
<1> QED
  BY <1>1, <1>6, <1>7

\* Files of bytes, one behind the other.
LEMMA BytesJoin ==
  ASSUME NEW f, NEW g, Stored(f), Stored(g), AllBytes(f), AllBytes(g)
  PROVE  /\ Stored(f \o g) /\ AllBytes(f \o g)
         /\ Huf!Text(f \o g) = Huf!Text(f) \o Huf!Text(g)
<1>1. f \in Seq(Huf!Items) /\ g \in Seq(Huf!Items) /\ Single(f) /\ Single(g)
  BY DEF Stored
<1> DEFINE h == f \o g
<1>2. /\ h \in Seq(Huf!Items) /\ Len(f) \in Nat /\ Len(g) \in Nat /\ Len(h) = Len(f) + Len(g)
      /\ \A i \in 1..Len(f) : h[i] = f[i]
      /\ \A i \in 1..Len(g) : h[Len(f) + i] = g[i]
  BY <1>1, JoinSeq
<1> HIDE DEF h
<1>3. ASSUME NEW i \in 1..Len(h)
      PROVE  (i \in 1..Len(f) /\ h[i] = f[i]) \/ (i - Len(f) \in 1..Len(g) /\ h[i] = g[i - Len(f)] /\ i = Len(f) + (i - Len(f)))
  <2>1. i \in 1..Len(f) \/ (i - Len(f) \in 1..Len(g) /\ i = Len(f) + (i - Len(f)))
    BY <1>2
  <2> QED
    BY <1>2, <2>1
<1>4. Single(h) /\ AllBytes(h)
  BY <1>1, <1>3 DEF Single, AllBytes
<1>5. /\ Huf!Text(f) = Letters(f) /\ Letters(f) \in Seq(Sym) /\ Len(Letters(f)) = Len(f) /\ (\A i \in 1..Len(f) : Letters(f)[i] = f[i].of[1])
      /\ Huf!Text(g) = Letters(g) /\ Letters(g) \in Seq(Sym) /\ Len(Letters(g)) = Len(g) /\ (\A i \in 1..Len(g) : Letters(g)[i] = g[i].of[1])
      /\ Huf!Text(h) = Letters(h) /\ Letters(h) \in Seq(Sym) /\ Len(Letters(h)) = Len(h) /\ (\A i \in 1..Len(h) : Letters(h)[i] = h[i].of[1])
  BY <1>1, <1>2, <1>4, TextOfBytes, LettersTyped
<1> DEFINE a == Letters(f)
           b == Letters(g)
           c == Letters(h)
<1>6. a \in Seq(Sym) /\ b \in Seq(Sym) /\ c \in Seq(Sym) /\ Len(a) = Len(f) /\ Len(b) = Len(g) /\ Len(c) = Len(h)
  BY <1>5
<1> HIDE DEF a, b, c
<1>7. /\ a \o b \in Seq(Sym) /\ Len(a \o b) = Len(a) + Len(b)
      /\ \A i \in 1..Len(a) : (a \o b)[i] = a[i]
      /\ \A i \in 1..Len(b) : (a \o b)[Len(a) + i] = b[i]
  <2>1. a \in Seq(Sym) /\ b \in Seq(Sym)
    BY <1>6
  <2> QED
    BY ONLY <2>1, JoinSeq
<1>8. ASSUME NEW i \in 1..Len(h) PROVE c[i] = (a \o b)[i]
  <2>1. c[i] = h[i].of[1]
    BY <1>5 DEF c
  <2>2. CASE i \in 1..Len(f) /\ h[i] = f[i]
    <3>1. a[i] = f[i].of[1] /\ (a \o b)[i] = a[i]
      BY <1>5, <1>6, <1>7, <2>2 DEF a
    <3> QED
      BY <2>1, <2>2, <3>1
  <2>3. CASE i - Len(f) \in 1..Len(g) /\ h[i] = g[i - Len(f)] /\ i = Len(f) + (i - Len(f))
    <3>1. b[i - Len(f)] = g[i - Len(f)].of[1]
      BY <1>5, <2>3 DEF b
    <3>2. (a \o b)[Len(f) + (i - Len(f))] = b[i - Len(f)]
      BY <1>6, <1>7, <2>3
    <3> QED
      BY <2>1, <2>3, <3>1, <3>2
  <2> QED
    BY <1>3, <2>2, <2>3
<1>9. c = a \o b
  <2>1. Len(c) = Len(a \o b)
    BY <1>2, <1>6, <1>7
  <2> QED
    BY <1>6, <1>7, <1>8, <2>1, SameAll
<1> QED
  BY <1>2, <1>4, <1>5, <1>9 DEF Stored, a, b, c, h

LEMMA DecompressTurnInv == ASSUME Huf!FilesAssumption, FilesInv, Huf!DecompressTurn PROVE FilesInv'
<1>1. /\ fpc = "loop" /\ mode = "d" /\ UNCHANGED <<mode, input, output, before, exit, lost, runs, failed>>
      /\ rest' = Tail(rest)
      /\ \/ Head(rest) # Huf!End /\ Huf!Emit(Huf!Raw(Head(rest).of)) /\ UNCHANGED <<fpc, ok>>
         \/ Head(rest) = Huf!End /\ Huf!Finish(TRUE) /\ disk' = disk
         \/ Huf!WriteFails
  BY DEF Huf!DecompressTurn, Huf!command
<1>2. /\ rest \in Seq(Huf!Items) /\ rest # <<>> /\ Stored(Copy) /\ ~lost /\ failed \in BOOLEAN /\ ok \in BOOLEAN
      /\ At \in Nat /\ rest = SubSeq(Src, At + 1, Len(Src)) /\ AllBytes(Copy)
      /\ Huf!Text(Copy) = Huf!Text(SubSeq(Src, 1, At))
  BY <1>1 DEF FilesInv, FilesTyped, Untouched, CopyGoes
<1>3. Src \in Seq(Huf!Items) /\ Huf!IsPackOf(Src, Huf!Text(Src))
  <2>1. before[input] # NoFile /\ input \in Names /\ Huf!IsPacked(Src) /\ Src = disk[input] /\ input \in Huf!Places
    BY <1>1 DEF FilesInv, FilesTyped, Untouched, Src, Huf!Places
  <2>2. Stored(Src)
    BY <2>1 DEF FilesInv, FilesTyped, Src
  <2> QED
    BY <2>1, <2>2 DEF FilesInv, PackedWell, Stored
<1>4. Len(Src) \in Nat /\ Len(rest) \in Nat /\ Len(rest) # 0 /\ Len(rest) = Len(Src) - At /\ At + 1 <= Len(Src)
  <2>1. Len(Src) \in Nat /\ Len(rest) \in Nat /\ Len(rest) # 0
    BY <1>2, <1>3
  <2>2. Len(rest) = Len(Src) - At
    BY <1>2, <2>1 DEF At
  <2> QED
    BY <1>2, <2>1, <2>2
<1>5. /\ SubSeq(rest, 1 + 1, Len(rest)) = SubSeq(Src, At + 1 + 1, Len(Src))
  <2>1. Src \in Seq(Huf!Items) /\ At \in Nat /\ At + 1 <= Len(Src) /\ rest = SubSeq(Src, At + 1, Len(Src)) /\ 1 \in Nat
    BY <1>2, <1>3, <1>4
  <2> QED
    BY ONLY <2>1, PartsMeet
<1> DEFINE x == Head(rest)
<1>6. /\ rest' \in Seq(Huf!Items) /\ Len(rest') = Len(rest) - 1 /\ rest' = SubSeq(Src, (At + 1) + 1, Len(Src))
      /\ x = rest[1] /\ x \in Huf!Items
  <2>1. Tail(rest) = SubSeq(rest, 1 + 1, Len(rest))
    BY <1>2
  <2>2. rest' \in Seq(Huf!Items) /\ Len(rest') = Len(rest) - 1 /\ x = rest[1] /\ x \in Huf!Items
    BY <1>1, <1>2
  <2> QED
    BY <1>1, <1>5, <2>1, <2>2
<1>7. x = Src[At + 1]
  <2> DEFINE m == At + 1
             l == Len(Src)
  <2>1. Src \in Seq(Huf!Items) /\ m \in 1..(Len(Src) + 1) /\ l \in Nat /\ l <= Len(Src) /\ m <= l + 1 /\ 1 \in 1..(l - m + 1) /\ m - 1 + 1 = m
    <3>1. Src \in Seq(Huf!Items) /\ At \in Nat /\ Len(Src) \in Nat /\ At + 1 <= Len(Src)
      BY <1>2, <1>3, <1>4
    <3> QED
      BY ONLY <3>1
  <2> HIDE DEF m, l
  <2>2. SubSeq(Src, m, l)[1] = Src[m - 1 + 1]
    BY ONLY <2>1, PartType
  <2> QED
    BY <1>2, <1>6, <2>1, <2>2 DEF m, l
<1>8. SubSeq(Src, 1, At + 1) = Append(SubSeq(Src, 1, At), x) /\ SubSeq(Src, 1, At) \in Seq(Huf!Items)
  <2>1. Src \in Seq(Huf!Items) /\ At \in Nat /\ At + 1 <= Len(Src)
    BY <1>2, <1>3, <1>4
  <2> QED
    BY <1>7, <2>1, PartLonger
<1>9. Huf!Text(SubSeq(Src, 1, At + 1)) = Huf!Text(Copy) \o x.of /\ x.of \in Seq(Sym) /\ Huf!Text(Copy) \in Seq(Sym)
  <2>1. /\ Huf!Text(Append(SubSeq(Src, 1, At), x)) = Huf!Text(SubSeq(Src, 1, At)) \o x.of
        /\ Huf!Text(SubSeq(Src, 1, At)) \in Seq(Sym) /\ x.of \in Seq(Sym)
    BY <1>6, <1>8, TextJoin
  <2> QED
    BY <1>2, <1>8, <2>1
<1>10. At' = At + 1 /\ Src' = Src
  <2>1. Src' = Src
    BY <1>1 DEF Src
  <2>2. Len(Src) - (Len(rest) - 1) = At + 1
    <3>1. At \in Nat /\ Len(Src) \in Nat /\ Len(rest) = Len(Src) - At
      BY <1>2, <1>4
    <3> QED
      BY ONLY <3>1
  <2> QED
    BY <1>6, <2>1, <2>2 DEF At
<1> HIDE DEF x
<1>11. CASE x # Huf!End /\ Huf!Emit(Huf!Raw(x.of)) /\ UNCHANGED <<fpc, ok>>
  <2> DEFINE g == Huf!Raw(x.of)
             f == Copy \o g
  <2>1. Stored(g) /\ AllBytes(g) /\ Huf!Text(g) = x.of
    BY <1>9, RawIs
  <2>2. disk' = [disk EXCEPT ![Huf!Target] = f]
    BY <1>11 DEF Huf!Emit, Copy
  <2> HIDE DEF g
  <2>3. Stored(f) /\ AllBytes(f) /\ Huf!Text(f) = Huf!Text(Copy) \o Huf!Text(g)
    BY <1>2, <2>1, BytesJoin
  <2> HIDE DEF f
  <2>4. FilesTyped' /\ Untouched' /\ PackedWell' /\ Reported' /\ Copy' = f
    BY <1>1, <1>2, <1>6, <1>11, <2>2, <2>3, LoopStays
  <2>5. rest' # <<>>
    <3> SUFFICES ASSUME rest' = <<>> PROVE FALSE
      OBVIOUS
    <3>1. At + 1 = Len(Src)
      <4>1. At \in Nat /\ Len(Src) \in Nat /\ Len(rest) = Len(Src) - At /\ Len(rest') = Len(rest) - 1 /\ rest' = <<>>
        BY <1>2, <1>4, <1>6
      <4>2. Len(rest') = 0
        BY ONLY <4>1
      <4> QED
        BY ONLY <4>1, <4>2
    <3> QED
      BY <1>3, <1>7, <1>11, <3>1 DEF Huf!IsPackOf, Huf!IsPacked
  <2>6. Huf!Text(f) = Huf!Text(SubSeq(Src, 1, At + 1))
    BY <1>9, <2>1, <2>3
  <2>7. CopyGoes'
    <3>1. mode' = "d" /\ At + 1 \in Nat
      BY <1>1, <1>2
    <3> QED
      BY <1>6, <1>10, <2>3, <2>4, <2>5, <2>6, <3>1 DEF CopyGoes
  <2>8. CopyDone'
    BY <1>1, <1>11 DEF CopyDone
  <2> QED
    BY <2>4, <2>7, <2>8 DEF FilesInv
<1>12. CASE x = Huf!End /\ Huf!Finish(TRUE) /\ disk' = disk
  <2>1. fpc' = "close" /\ ok' = TRUE
    BY <1>12 DEF Huf!Finish
  <2>2. FilesTyped' /\ Untouched' /\ PackedWell' /\ Reported' /\ Copy' = Copy
    BY <1>1, <1>2, <1>6, <1>12, <2>1, LoopStays
  <2>3. CopyGoes'
    BY <2>1 DEF CopyGoes
  <2>4. At + 1 = Len(Src)
    <3> SUFFICES ASSUME At + 1 # Len(Src) PROVE FALSE
      OBVIOUS
    <3>1. At + 1 \in 1..(Len(Src) - 1)
      <4>1. At \in Nat /\ Len(Src) \in Nat /\ At + 1 <= Len(Src)
        BY <1>2, <1>4
      <4> QED
        BY ONLY <4>1, At + 1 # Len(Src)
    <3>2. Src[At + 1].kind = "block"
      BY <1>3, <3>1 DEF Huf!IsPackOf
    <3>3. x.kind = "end"
      BY <1>12 DEF Huf!End
    <3> QED
      BY <1>7, <3>2, <3>3
  <2>5. Huf!Text(Copy) = Huf!Text(Src)
    <3>1. SubSeq(Src, 1, At + 1) = Src
      BY <1>3, <2>4, PartWhole
    <3>2. x.of = <<>>
      BY <1>12 DEF Huf!End
    <3> QED
      BY <1>9, <3>1, <3>2, EmptyJoins
  <2>6. CopyDone'
    BY <1>1, <1>2, <1>10, <2>2, <2>5 DEF CopyDone, Complete
  <2> QED
    BY <2>2, <2>3, <2>6 DEF FilesInv
<1>13. CASE Huf!WriteFails
  BY <1>1, <1>2, <1>6, <1>13, StopsInv
<1> QED
  BY <1>1, <1>11, <1>12, <1>13 DEF x

LEMMA FilesStep == ASSUME Huf!FilesAssumption, FilesInv, [Huf!FilesNext]_(Huf!filevars) PROVE FilesInv'
<1>1. CASE UNCHANGED Huf!filevars
  <2>1. UNCHANGED <<fpc, mode, input, output, rest, failed, ok, disk, before, exit, lost, runs>>
    BY <1>1 DEF Huf!filevars, Huf!command
  <2>2. UNCHANGED <<Src, Copy, At>>
    BY <2>1 DEF Src, Copy, At, Huf!Target, Huf!Tmp
  <2>3. FilesTyped' /\ Untouched' /\ PackedWell'
    BY <2>1, <2>2 DEF FilesInv, FilesTyped, Untouched, PackedWell
  <2>4. CopyGoes'
    BY <2>1, <2>2 DEF FilesInv, CopyGoes
  <2>5. CopyDone' /\ Reported'
    BY <2>1, <2>2 DEF FilesInv, CopyDone, Complete, Reported, Huf!Tmp
  <2> QED
    BY <2>3, <2>4, <2>5 DEF FilesInv
<1>2. CASE \E m \in {"c", "d"}, i \in Names, o \in Names : Huf!Run(m, i, o)
  BY <1>2, RunInv
<1>3. CASE Huf!OpenFails \/ Huf!Open
  BY <1>3, OpenFailsInv, FilesOpenInv
<1>4. CASE Huf!CompressBlock \/ Huf!CompressEnd \/ Huf!DecompressTurn
  BY <1>4, CompressBlockInv, CompressEndInv, DecompressTurnInv
<1>5. CASE Huf!Close \/ Huf!Rename
  BY <1>5, FilesCloseInv, RenameInv
<1>6. CASE Huf!GiveUp \/ Huf!Kill
  BY <1>6, GiveUpInv, KillInv
<1> QED
  BY <1>1, <1>2, <1>3, <1>4, <1>5, <1>6 DEF Huf!FilesNext

LEMMA FilesGood == ASSUME FilesInv PROVE Huf!FilesRight
<1>1. Huf!FilesTypeOK
  BY DEF FilesInv, FilesTyped, Stored, Huf!FilesTypeOK
<1>2. /\ exit # "success" => \A n \in Names : disk[n] = before[n]
      /\ Reported
  BY DEF FilesInv, Untouched
<1> QED
  BY <1>1, <1>2 DEF Reported, Huf!FilesRight

\* Whatever fails and whenever the process is killed, no file is changed but by a run that
\* succeeds; that one leaves the input packed, or the text whose packed form the input is,
\* in the output and nothing anywhere else, unless fclose lost something, which main does
\* not notice.
THEOREM FilesReplaced == ASSUME Huf!FilesAssumption PROVE Huf!FilesSpec => []Huf!FilesRight
<1>1. Huf!FilesInit => FilesInv
  BY FilesBegin
<1>2. FilesInv /\ [Huf!FilesNext]_(Huf!filevars) => FilesInv'
  BY FilesStep
<1>3. FilesInv => Huf!FilesRight
  BY FilesGood
<1> QED
  BY <1>1, <1>2, <1>3, PTL DEF Huf!FilesSpec
=============================================================================
