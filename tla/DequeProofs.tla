----------------------------- MODULE DequeProofs -----------------------------
(***************************************************************************)
(* Proofs about DequeList for any pool of addresses, any elements, sizes   *)
(* and buffers, and about the other linked lists, those of LinkedLists,    *)
(* for any finite memory, any values and any number of turns of a main.    *)
(***************************************************************************)
EXTENDS DequeList, SequenceTheorems, FiniteSetTheorems, FunctionTheorems, WellFoundedInduction, TLAPS

-----------------------------------------------------------------------------
(***************************************************************************)
(* The four ways a sequence changes at one end, index by index.            *)
(***************************************************************************)
LEMMA AtBack ==
  ASSUME NEW S, NEW s \in Seq(S), NEW e \in S
  PROVE  /\ Append(s, e) \in Seq(S)
         /\ Len(Append(s, e)) = Len(s) + 1
         /\ \A i \in 1..(Len(s) + 1) : Append(s, e)[i] = IF i <= Len(s) THEN s[i] ELSE e
BY AppendProperties, LenProperties

LEMMA AtFront ==
  ASSUME NEW S, NEW s \in Seq(S), NEW e \in S
  PROVE  /\ <<e>> \o s \in Seq(S)
         /\ Len(<<e>> \o s) = Len(s) + 1
         /\ \A i \in 1..(Len(s) + 1) : (<<e>> \o s)[i] = IF i = 1 THEN e ELSE s[i-1]
<1>1. <<e>> \in Seq(S) /\ Len(<<e>>) = 1 /\ <<e>>[1] = e
  OBVIOUS
<1>2. Len(s) \in Nat
  BY LenProperties
<1> QED
  BY <1>1, <1>2, ConcatProperties

LEMMA OffFront ==
  ASSUME NEW S, NEW s \in Seq(S), s # << >>
  PROVE  /\ Tail(s) \in Seq(S)
         /\ Len(s) \in Nat \ {0}
         /\ Len(Tail(s)) = Len(s) - 1
         /\ \A i \in 1..(Len(s) - 1) : Tail(s)[i] = s[i+1]
BY HeadTailProperties, EmptySeq

LEMMA Prefix ==
  ASSUME NEW S, NEW s \in Seq(S), NEW n \in 0..Len(s)
  PROVE  /\ SubSeq(s, 1, n) \in Seq(S)
         /\ Len(SubSeq(s, 1, n)) = n
         /\ \A i \in 1..n : SubSeq(s, 1, n)[i] = s[i]
<1>1. n \in Int /\ 1 \in Int
  OBVIOUS
<1>2. \A i \in 1..n : s[i] \in S
  OBVIOUS
<1> QED
  BY <1>1, <1>2, SubSeqProperties

LEMMA OffBack ==
  ASSUME NEW S, NEW s \in Seq(S), s # << >>
  PROVE  /\ SubSeq(s, 1, Len(s) - 1) \in Seq(S)
         /\ Len(s) \in Nat \ {0}
         /\ Len(SubSeq(s, 1, Len(s) - 1)) = Len(s) - 1
         /\ \A i \in 1..(Len(s) - 1) : SubSeq(s, 1, Len(s) - 1)[i] = s[i]
<1>1. Len(s) \in Nat \ {0}
  BY EmptySeq
<1>2. Len(s) - 1 \in 0..Len(s)
  BY <1>1
<1> QED
  BY <1>1, <1>2, Prefix, Zenon

LEMMA EmptyIsZero ==
  ASSUME NEW S, NEW s \in Seq(S)
  PROVE  /\ Len(s) \in Nat
         /\ s = << >> <=> Len(s) = 0
         /\ \A i \in 1..Len(s) : s[i] \in S
BY EmptySeq, LenProperties, ElementOfSeq

-----------------------------------------------------------------------------
(***************************************************************************)
(* The inductive invariant.                                                *)
(***************************************************************************)
LEMMA InitInv == Init => ListInv
<1> SUFFICES ASSUME Init PROVE ListInv
  OBVIOUS
<1>1. << >> \in Seq(Nodes) /\ Len(<< >>) = 0
  BY EmptySeq
<1>2. \E v : v \in Values
  BY DequeAssumption
<1>3. data \in [Nodes -> Values]
  BY <1>2 DEF Init, Pick
<1> QED
  BY <1>1, <1>3 DEF Init, ListInv, TypeOK, Distinct, Forward, Backward, Ends, Owned, Ptr,
     First, Last

LEMMA BackInv ==
  ASSUME ListInv, life = "live", UNCHANGED <<life, cursor>>,
         NEW n \in Nodes, NEW v \in Values, PushBack(n, v)
  PROVE  ListInv'
<1> DEFINE k == Len(order)
<1>1. /\ order \in Seq(Nodes) /\ k \in Nat
      /\ order = << >> <=> k = 0
      /\ \A i \in 1..k : order[i] \in Nodes
  BY EmptyIsZero DEF ListInv, TypeOK
<1>2. /\ order' \in Seq(Nodes) /\ Len(order') = k + 1
      /\ \A i \in 1..(k + 1) : order'[i] = IF i <= k THEN order[i] ELSE n
  BY <1>1, AtBack DEF PushBack
<1>3. \A i \in 1..k : order[i] # n
  BY DEF ListInv, Owned, PushBack, CreateNode
<1>4. tail = (IF k = 0 THEN Null ELSE order[k]) /\ Null \notin Nodes
  BY <1>1, DequeAssumption DEF ListInv, Ends, Last
<1>5. TypeOK'
  BY <1>2 DEF ListInv, TypeOK, PushBack, CreateNode, Link, Ptr
<1>6. Distinct'
  BY <1>1, <1>2, <1>3 DEF ListInv, Distinct
<1>7. Forward'
  <2>1. \A x \in Nodes : next'[x] = IF x = n THEN Null ELSE IF x = tail THEN n ELSE next[x]
    BY DEF PushBack, Link
  <2>2. \A i \in 1..k : order[i] = tail <=> i = k
    BY <1>1, <1>4 DEF ListInv, Distinct
  <2>3. \A i \in 1..k : next[order[i]] = IF i = k THEN Null ELSE order[i+1]
    BY <1>1 DEF ListInv, Forward
  <2>4. ASSUME NEW i \in 1..k PROVE next'[order'[i]] = order'[i+1]
    BY <1>1, <1>2, <1>3, <2>1, <2>2, <2>3
  <2>5. next'[order'[k+1]] = Null
    BY <1>1, <1>2, <2>1
  <2> QED
    BY <1>1, <1>2, <2>4, <2>5 DEF Forward
<1>8. Backward'
  BY <1>1, <1>2, <1>3, <1>4 DEF ListInv, TypeOK, Backward, PushBack
<1>9. Ends'
  BY <1>1, <1>2, <1>4 DEF ListInv, Ends, First, Last, PushBack
<1>10. Owned'
  <2>1. allocated = {order[i] : i \in 1..k} /\ allocated' = allocated \cup {n}
    BY DEF ListInv, Owned, PushBack, CreateNode
  <2>2. order'[k+1] = n
    BY <1>1, <1>2
  <2>3. \A i \in 1..k : order'[i] = order[i] /\ order[i] \in allocated
    BY <1>1, <1>2, <2>1
  <2>4. \A i \in 1..(k+1) : order'[i] \in allocated'
    BY <1>1, <2>1, <2>2, <2>3
  <2>5. ASSUME NEW x \in allocated' PROVE \E i \in 1..(k+1) : order'[i] = x
    <3>1. CASE x = n
      BY <1>1, <2>2, <3>1
    <3>2. CASE x # n
      <4>1. PICK i \in 1..k : order[i] = x
        BY <2>1, <2>5, <3>2
      <4> QED
        BY <1>1, <2>3, <4>1
    <3> QED
      BY <3>1, <3>2
  <2> QED
    BY <1>2, <2>4, <2>5 DEF Owned
<1> QED
  BY <1>5, <1>6, <1>7, <1>8, <1>9, <1>10 DEF ListInv

LEMMA FrontInv ==
  ASSUME ListInv, life = "live", UNCHANGED <<life, cursor>>,
         NEW n \in Nodes, NEW v \in Values, PushFront(n, v)
  PROVE  ListInv'
<1> DEFINE k == Len(order)
<1>1. /\ order \in Seq(Nodes) /\ k \in Nat
      /\ order = << >> <=> k = 0
      /\ \A i \in 1..k : order[i] \in Nodes
  BY EmptyIsZero DEF ListInv, TypeOK
<1>2. /\ order' \in Seq(Nodes) /\ Len(order') = k + 1
      /\ \A i \in 1..(k + 1) : order'[i] = IF i = 1 THEN n ELSE order[i-1]
  BY <1>1, AtFront DEF PushFront
<1>3. \A i \in 1..k : order[i] # n
  BY DEF ListInv, Owned, PushFront, CreateNode
<1>4. top = (IF k = 0 THEN Null ELSE order[1]) /\ Null \notin Nodes
  BY <1>1, DequeAssumption DEF ListInv, Ends, First
<1>5. TypeOK'
  BY <1>2 DEF ListInv, TypeOK, PushFront, CreateNode, Link, Ptr
<1>6. Distinct'
  BY <1>1, <1>2, <1>3 DEF ListInv, Distinct
<1>7. Forward'
  BY <1>1, <1>2, <1>3, <1>4 DEF ListInv, TypeOK, Forward, PushFront
<1>8. Backward'
  BY <1>1, <1>2, <1>3, <1>4 DEF ListInv, Distinct, Backward, PushFront, Link
<1>9. Ends'
  BY <1>1, <1>2, <1>4 DEF ListInv, Ends, First, Last, PushFront
<1>10. Owned'
  <2>1. \A i \in 1..k : order[i] = order'[i+1]
    BY <1>1, <1>2
  <2>2. n = order'[1]
    BY <1>1, <1>2
  <2> QED
    BY <1>1, <1>2, <2>1, <2>2 DEF ListInv, Owned, PushFront, CreateNode
<1> QED
  BY <1>5, <1>6, <1>7, <1>8, <1>9, <1>10 DEF ListInv

\* What the two pops and deque_free rely on: the end they take is the end of the order.
LEMMA AtEnds ==
  ASSUME ListInv, life = "live"
  PROVE  /\ order \in Seq(Nodes) /\ Len(order) \in Nat
         /\ order = << >> <=> Len(order) = 0
         /\ \A i \in 1..Len(order) : order[i] \in Nodes
         /\ top = IF Len(order) = 0 THEN Null ELSE order[1]
         /\ tail = IF Len(order) = 0 THEN Null ELSE order[Len(order)]
         /\ Null \notin Nodes
BY EmptyIsZero, DequeAssumption DEF ListInv, TypeOK, Ends, First, Last

LEMMA PopFrontInv ==
  ASSUME ListInv, life = "live", UNCHANGED <<life, cursor>>,
         NEW room, PopFront(room)
  PROVE  ListInv'
<1> DEFINE k == Len(order)
<1>1. /\ order \in Seq(Nodes) /\ k \in Nat \ {0} /\ order # << >>
      /\ \A i \in 1..k : order[i] \in Nodes
      /\ top = order[1] /\ tail = order[k] /\ Null \notin Nodes
  BY AtEnds DEF PopFront, Holds
<1>2. /\ order' \in Seq(Nodes) /\ Len(order') = k - 1
      /\ \A i \in 1..(k - 1) : order'[i] = order[i+1]
      /\ (order' = << >>) <=> (k = 1)
  <2>1. /\ order' \in Seq(Nodes) /\ Len(order') = k - 1
        /\ \A i \in 1..(k - 1) : order'[i] = order[i+1]
    BY <1>1, OffFront DEF PopFront
  <2>2. (order' = << >>) <=> (Len(order') = 0)
    BY <2>1, EmptyIsZero
  <2> QED
    BY <1>1, <2>1, <2>2
<1>3. next[top] = IF k = 1 THEN Null ELSE order[2]
  <2>1. 1 \in 1..k
    BY <1>1
  <2>2. next[order[1]] = IF 1 = k THEN Null ELSE order[1 + 1]
    BY <2>1 DEF ListInv, Forward
  <2> QED
    BY <1>1, <2>2
<1>4. TypeOK'
  BY <1>1, <1>2, <1>3 DEF ListInv, TypeOK, PopFront, Ptr, Ends
<1>5. Distinct'
  BY <1>1, <1>2 DEF ListInv, Distinct
<1>6. Forward'
  <2>1. ASSUME NEW i \in 1..(k-1)
        PROVE  next[order'[i]] = IF i = k - 1 THEN Null ELSE order'[i+1]
    <3>1. i + 1 \in 1..k /\ order'[i] = order[i+1]
      BY <1>1, <1>2
    <3>2. i # k - 1 => order'[i+1] = order[i+2]
      BY <1>1, <1>2
    <3> QED
      BY <1>1, <3>1, <3>2 DEF ListInv, Forward
  <2> QED
    BY <1>2, <2>1 DEF Forward, PopFront
<1>7. Backward'
  BY <1>1, <1>2, <1>3 DEF ListInv, Distinct, Backward, PopFront
<1>8. Ends'
  BY <1>1, <1>2, <1>3 DEF ListInv, Ends, First, Last, PopFront
<1>9. Owned'
  <2>1. \A i \in 2..k : order[i] = order'[i-1] /\ order[i] # order[1]
    BY <1>1, <1>2 DEF ListInv, Distinct
  <2>2. \A i \in 1..(k-1) : order'[i] # order[1]
    BY <1>1, <1>2 DEF ListInv, Distinct
  <2>3. allocated' = allocated \ {order[1]}
    BY <1>1 DEF PopFront
  <2>4. ASSUME NEW x PROVE x \in allocated' <=> \E i \in 1..(k-1) : x = order'[i]
    <3>1. x \in allocated' <=> (\E i \in 1..k : x = order[i]) /\ x # order[1]
      BY <2>3 DEF ListInv, Owned
    <3>2. ASSUME NEW i \in 1..k, x = order[i], x # order[1]
          PROVE  \E j \in 1..(k-1) : x = order'[j]
      <4>1. i - 1 \in 1..(k-1) /\ i \in 2..k
        BY <1>1, <3>2
      <4> QED
        BY <2>1, <3>2, <4>1
    <3>3. ASSUME NEW j \in 1..(k-1), x = order'[j]
          PROVE  (\E i \in 1..k : x = order[i]) /\ x # order[1]
      <4>1. j + 1 \in 1..k /\ x = order[j + 1]
        BY <1>1, <1>2, <3>3
      <4> QED
        BY <2>2, <3>3, <4>1
    <3> QED
      BY <3>1, <3>2, <3>3
  <2> QED
    BY <1>2, <2>4 DEF Owned
<1> QED
  BY <1>4, <1>5, <1>6, <1>7, <1>8, <1>9 DEF ListInv

LEMMA PopBackInv ==
  ASSUME ListInv, life = "live", UNCHANGED <<life, cursor>>,
         NEW room, PopBack(room)
  PROVE  ListInv'
<1> DEFINE k == Len(order)
<1>1. /\ order \in Seq(Nodes) /\ k \in Nat \ {0} /\ order # << >>
      /\ \A i \in 1..k : order[i] \in Nodes
      /\ top = order[1] /\ tail = order[k] /\ Null \notin Nodes
  BY AtEnds DEF PopBack, Holds
<1>2. /\ order' \in Seq(Nodes) /\ Len(order') = k - 1
      /\ \A i \in 1..(k - 1) : order'[i] = order[i]
      /\ (order' = << >>) <=> (k = 1)
  <2>1. /\ order' \in Seq(Nodes) /\ Len(order') = k - 1
        /\ \A i \in 1..(k - 1) : order'[i] = order[i]
    BY <1>1, OffBack DEF PopBack
  <2>2. (order' = << >>) <=> (Len(order') = 0)
    BY <2>1, EmptyIsZero
  <2> QED
    BY <1>1, <2>1, <2>2
<1>3. prev[tail] = IF k = 1 THEN Null ELSE order[k-1]
  <2>1. k \in 1..k
    BY <1>1
  <2> QED
    BY <1>1, <2>1 DEF ListInv, Backward
<1>4. TypeOK'
  BY <1>1, <1>2, <1>3 DEF ListInv, TypeOK, PopBack, Ptr, Ends
<1>5. Distinct'
  BY <1>1, <1>2 DEF ListInv, Distinct
<1>6. Forward'
  <2>1. ASSUME NEW i \in 1..(k-1)
        PROVE  next'[order[i]] = IF i = k - 1 THEN Null ELSE order[i+1]
    <3>1. next[order[i]] = IF i = k THEN Null ELSE order[i+1]
      BY <1>1 DEF ListInv, Forward
    <3>2. order[i] = prev[tail] <=> i = k - 1
      BY <1>1, <1>3 DEF ListInv, Distinct
    <3> QED
      BY <1>1, <3>1, <3>2 DEF PopBack
  <2>2. \A i \in 1..(k-1) : i # k - 1 => order'[i+1] = order[i+1]
    BY <1>1, <1>2
  <2> QED
    BY <1>2, <2>1, <2>2 DEF Forward
<1>7. Backward'
  BY <1>1, <1>2 DEF ListInv, Backward, PopBack
<1>8. Ends'
  BY <1>1, <1>2, <1>3 DEF ListInv, Ends, First, Last, PopBack
<1>9. Owned'
  <2>1. \A i \in 1..(k-1) : order'[i] = order[i] /\ order[i] # order[k]
    BY <1>1, <1>2 DEF ListInv, Distinct
  <2>2. allocated = {order[i] : i \in 1..k} /\ allocated' = allocated \ {order[k]}
    BY <1>1 DEF ListInv, Owned, PopBack
  <2>3. \A i \in 1..(k-1) : order'[i] \in allocated'
    BY <1>1, <2>1, <2>2
  <2>4. ASSUME NEW x \in allocated' PROVE \E i \in 1..(k-1) : order'[i] = x
    <3>1. PICK i \in 1..k : order[i] = x /\ i # k
      BY <2>2, <2>4
    <3> QED
      BY <1>1, <2>1, <3>1
  <2> QED
    BY <1>2, <2>3, <2>4 DEF Owned
<1> QED
  BY <1>4, <1>5, <1>6, <1>7, <1>8, <1>9 DEF ListInv

LEMMA FreeInv == ASSUME ListInv, FreeNode PROVE ListInv'
<1> DEFINE k == Len(order)
<1>1. /\ order \in Seq(Nodes) /\ k \in Nat \ {0} /\ order # << >>
      /\ \A i \in 1..k : order[i] \in Nodes
      /\ cursor = order[1] /\ Null \notin Nodes
  BY EmptyIsZero, DequeAssumption DEF ListInv, TypeOK, Ends, First, FreeNode
<1>2. /\ order' \in Seq(Nodes) /\ Len(order') = k - 1
      /\ \A i \in 1..(k - 1) : order'[i] = order[i+1]
      /\ (order' = << >>) <=> (k = 1)
  <2>1. /\ order' \in Seq(Nodes) /\ Len(order') = k - 1
        /\ \A i \in 1..(k - 1) : order'[i] = order[i+1]
    BY <1>1, OffFront DEF FreeNode
  <2>2. (order' = << >>) <=> (Len(order') = 0)
    BY <2>1, EmptyIsZero
  <2> QED
    BY <1>1, <2>1, <2>2
<1>3. next[cursor] = IF k = 1 THEN Null ELSE order[2]
  <2>1. 1 \in 1..k
    BY <1>1
  <2>2. next[order[1]] = IF 1 = k THEN Null ELSE order[1 + 1]
    BY <2>1 DEF ListInv, Forward
  <2> QED
    BY <1>1, <2>2
<1>4. life = "freeing" /\ life' = "freeing" /\ UNCHANGED <<links, data, count>>
  BY DEF FreeNode
<1>5. TypeOK'
  BY <1>1, <1>2, <1>3, <1>4 DEF ListInv, TypeOK, FreeNode, Ptr, links
<1>6. Distinct'
  BY <1>1, <1>2 DEF ListInv, Distinct
<1>7. Forward'
  <2>1. ASSUME NEW i \in 1..(k-1)
        PROVE  next[order'[i]] = IF i = k - 1 THEN Null ELSE order'[i+1]
    <3>1. i + 1 \in 1..k /\ order'[i] = order[i+1]
      BY <1>1, <1>2
    <3>2. i # k - 1 => order'[i+1] = order[i+2]
      BY <1>1, <1>2
    <3> QED
      BY <1>1, <3>1, <3>2 DEF ListInv, Forward
  <2> QED
    BY <1>2, <1>4, <2>1 DEF Forward, links
<1>8. Backward' /\ Ends'
  BY <1>1, <1>2, <1>3, <1>4 DEF Backward, ListInv, Ends, First, FreeNode
<1>9. Owned'
  <2>1. \A i \in 2..k : order[i] = order'[i-1] /\ order[i] # order[1]
    BY <1>1, <1>2 DEF ListInv, Distinct
  <2>2. \A i \in 1..(k-1) : order'[i] # order[1]
    BY <1>1, <1>2 DEF ListInv, Distinct
  <2>3. allocated' = allocated \ {order[1]}
    BY <1>1 DEF FreeNode
  <2>4. ASSUME NEW x PROVE x \in allocated' <=> \E i \in 1..(k-1) : x = order'[i]
    <3>1. x \in allocated' <=> (\E i \in 1..k : x = order[i]) /\ x # order[1]
      BY <2>3 DEF ListInv, Owned
    <3>2. ASSUME NEW i \in 1..k, x = order[i], x # order[1]
          PROVE  \E j \in 1..(k-1) : x = order'[j]
      <4>1. i - 1 \in 1..(k-1) /\ i \in 2..k
        BY <1>1, <3>2
      <4> QED
        BY <2>1, <3>2, <4>1
    <3>3. ASSUME NEW j \in 1..(k-1), x = order'[j]
          PROVE  (\E i \in 1..k : x = order[i]) /\ x # order[1]
      <4>1. j + 1 \in 1..k /\ x = order[j + 1]
        BY <1>1, <1>2, <3>3
      <4> QED
        BY <2>2, <3>3, <4>1
    <3> QED
      BY <3>1, <3>2, <3>3
  <2> QED
    BY <1>2, <2>4 DEF Owned
<1> QED
  BY <1>5, <1>6, <1>7, <1>8, <1>9 DEF ListInv

LEMMA StepInv == ASSUME ListInv, [Next]_vars PROVE ListInv'
<1> USE DEF ListInv, TypeOK, Distinct, Forward, Backward, Ends, Owned, links
<1>1. CASE Create
  BY <1>1 DEF Create, First, Last
<1>2. CASE Call
  <2>1. life = "live" /\ UNCHANGED <<life, cursor>>
    BY <1>2 DEF Call
  <2>2. CASE Push
    BY <2>1, <2>2, BackInv, FrontInv DEF Push
  <2>3. CASE UNCHANGED <<allocated, links, data, count, order>>
    BY <2>1, <2>3
  <2> QED
    BY <1>2, <2>1, <2>2, <2>3, PopFrontInv, PopBackInv
    DEF Call, NoMemory, Take, PeekFront, PeekBack, RefuseFront, RefuseBack
<1>3. CASE Destroy
  BY <1>3 DEF Destroy, First
<1>4. CASE FreeNode
  BY <1>4, FreeInv
<1>5. CASE FreeDeque
  <2>1. order = << >>
    BY <1>5, EmptyIsZero, DequeAssumption DEF FreeDeque, First
  <2> QED
    BY <1>5, <2>1 DEF FreeDeque, First
<1>6. CASE UNCHANGED vars
  BY <1>6 DEF vars
<1> QED
  BY <1>1, <1>2, <1>3, <1>4, <1>5, <1>6 DEF Next

\* The list stays well formed, whatever is called in whatever order: links agree with
\* the order of the calls in both directions, exactly its nodes are allocated.
THEOREM Shape == Spec => []ListInv
<1>1. Init => ListInv
  BY InitInv
<1>2. ListInv /\ [Next]_vars => ListInv'
  BY StepInv
<1> QED
  BY <1>1, <1>2, PTL DEF Spec

-----------------------------------------------------------------------------
(***************************************************************************)
(* Refinement: the elements along the order are the abstract sequence.     *)
(***************************************************************************)
LEMMA SeqOfSeq ==
  ASSUME NEW S, NEW T, NEW s \in Seq(S), NEW f \in [S -> T]
  PROVE  /\ [i \in 1..Len(s) |-> f[s[i]]] \in Seq(T)
         /\ Len([i \in 1..Len(s) |-> f[s[i]]]) = Len(s)
         /\ \A i \in 1..Len(s) : [j \in 1..Len(s) |-> f[s[j]]][i] = f[s[i]]
BY EmptyIsZero

LEMMA ItemsAre ==
  ASSUME order \in Seq(Nodes), data \in [Nodes -> Values], life = "live"
  PROVE  /\ Items \in Seq(Values)
         /\ Len(Items) = Len(order)
         /\ \A i \in 1..Len(order) : Items[i] = data[order[i]]
<1>1. Items = [i \in 1..Len(order) |-> data[order[i]]]
  BY DEF Items
<1> QED
  BY <1>1, SeqOfSeq

LEMMA ItemsAreNext ==
  ASSUME order' \in Seq(Nodes), data' \in [Nodes -> Values], life' = "live"
  PROVE  /\ Items' \in Seq(Values)
         /\ Len(Items') = Len(order')
         /\ \A i \in 1..Len(order') : Items'[i] = data'[order'[i]]
<1>1. Items' = [i \in 1..Len(order') |-> data'[order'[i]]]
  BY DEF Items
<1> QED
  BY <1>1, SeqOfSeq

\* Before a call on a live deque: the items, and which of them are in reach.
LEMMA Before ==
  ASSUME ListInv, life = "live"
  PROVE  /\ Items \in Seq(Values)
         /\ Len(Items) = Len(order)
         /\ \A i \in 1..Len(order) : Items[i] = data[order[i]]
         /\ (Items = << >>) <=> (Len(order) = 0)
         /\ top # Null => Items # << >> /\ data[top] = A!Front
         /\ tail # Null => Items # << >> /\ data[tail] = A!Back
         /\ top = Null \/ tail = Null => Items = << >>
<1>1. /\ Items \in Seq(Values)
      /\ Len(Items) = Len(order)
      /\ \A i \in 1..Len(order) : Items[i] = data[order[i]]
  BY ItemsAre DEF ListInv, TypeOK
<1>2. (Items = << >>) <=> (Len(order) = 0)
  BY <1>1, EmptyIsZero
<1>3. ASSUME Len(order) # 0
      PROVE  data[order[1]] = A!Front /\ data[order[Len(order)]] = A!Back
  <2>1. 1 \in 1..Len(order) /\ Len(order) \in 1..Len(order)
    BY <1>3, AtEnds
  <2> QED
    BY <1>1, <2>1 DEF A!Front, A!Back
<1>4. Len(order) # 0 => order[1] \in Nodes /\ order[Len(order)] \in Nodes
  BY AtEnds
<1> QED
  BY <1>1, <1>2, <1>3, <1>4, AtEnds

LEMMA BackRefines ==
  ASSUME ListInv, ListInv', life = "live", life' = "live",
         NEW n \in Nodes, NEW v \in Values, PushBack(n, v)
  PROVE  A!Push
<1>1. order \in Seq(Nodes) /\ Len(order) \in Nat
  BY AtEnds
<1>2. /\ Len(order') = Len(order) + 1
      /\ \A i \in 1..(Len(order) + 1) : order'[i] = IF i <= Len(order) THEN order[i] ELSE n
  BY <1>1, AtBack DEF PushBack
<1>3. /\ \A i \in 1..Len(order) : data'[order[i]] = data[order[i]]
      /\ data'[n] = v
  BY DEF ListInv, Owned, TypeOK, PushBack, CreateNode
<1>4. Append(Items, v) = Items'
  <2>1. /\ Items' \in Seq(Values) /\ Len(Items') = Len(order) + 1
        /\ \A i \in 1..(Len(order) + 1) : Items'[i] = data'[order'[i]]
    BY <1>2, ItemsAreNext DEF ListInv, TypeOK
  <2>2. /\ Append(Items, v) \in Seq(Values) /\ Len(Append(Items, v)) = Len(order) + 1
        /\ \A i \in 1..(Len(order) + 1) :
             Append(Items, v)[i] = IF i <= Len(order) THEN Items[i] ELSE v
    BY Before, AtBack
  <2>3. \A i \in 1..(Len(order) + 1) : Append(Items, v)[i] = Items'[i]
    BY <1>1, <1>2, <1>3, <2>1, <2>2, Before
  <2> QED
    BY <2>1, <2>2, <2>3, SeqEqual
<1>5. answer' = [op |-> "push_back", room |-> 0, got |-> <<v>>]
  BY DEF PushBack, Reply
<1> QED
  BY <1>4, <1>5 DEF A!Push, A!Reply

LEMMA FrontRefines ==
  ASSUME ListInv, ListInv', life = "live", life' = "live",
         NEW n \in Nodes, NEW v \in Values, PushFront(n, v)
  PROVE  A!Push
<1>1. order \in Seq(Nodes) /\ Len(order) \in Nat
  BY AtEnds
<1>2. /\ Len(order') = Len(order) + 1
      /\ \A i \in 1..(Len(order) + 1) : order'[i] = IF i = 1 THEN n ELSE order[i-1]
  BY <1>1, AtFront DEF PushFront
<1>3. /\ \A i \in 1..Len(order) : data'[order[i]] = data[order[i]]
      /\ data'[n] = v
  BY DEF ListInv, Owned, TypeOK, PushFront, CreateNode
<1>4. <<v>> \o Items = Items'
  <2>1. /\ Items' \in Seq(Values) /\ Len(Items') = Len(order) + 1
        /\ \A i \in 1..(Len(order) + 1) : Items'[i] = data'[order'[i]]
    BY <1>2, ItemsAreNext DEF ListInv, TypeOK
  <2>2. /\ <<v>> \o Items \in Seq(Values) /\ Len(<<v>> \o Items) = Len(order) + 1
        /\ \A i \in 1..(Len(order) + 1) : (<<v>> \o Items)[i] = IF i = 1 THEN v ELSE Items[i-1]
    BY Before, AtFront
  <2>3. ASSUME NEW i \in 1..(Len(order) + 1) PROVE (<<v>> \o Items)[i] = Items'[i]
    <3>1. CASE i = 1
      BY <1>1, <1>2, <1>3, <2>1, <2>2, <3>1
    <3>2. CASE i # 1
      <4>1. i - 1 \in 1..Len(order)
        BY <1>1, <3>2
      <4>2. Items[i-1] = data[order[i-1]]
        BY <4>1, Before
      <4>3. Items'[i] = data'[order[i-1]] /\ data'[order[i-1]] = data[order[i-1]]
        BY <1>2, <1>3, <2>1, <3>2, <4>1
      <4> QED
        BY <2>2, <3>2, <4>2, <4>3
    <3> QED
      BY <3>1, <3>2
  <2>4. Len(<<v>> \o Items) = Len(Items') /\ 1..Len(<<v>> \o Items) = 1..(Len(order) + 1)
    BY <2>1, <2>2
  <2>5. \A i \in 1..Len(<<v>> \o Items) : (<<v>> \o Items)[i] = Items'[i]
    BY <2>3, <2>4, Zenon
  <2> QED
    BY <2>1, <2>2, <2>4, <2>5, SeqEqual, Zenon
<1>5. answer' = [op |-> "push_front", room |-> 0, got |-> <<v>>]
  BY DEF PushFront, Reply
<1> QED
  BY <1>4, <1>5 DEF A!Push, A!Reply

LEMMA PopFrontRefines ==
  ASSUME ListInv, ListInv', life = "live", life' = "live",
         NEW room \in Rooms, PopFront(room)
  PROVE  A!Take
<1>1. order \in Seq(Nodes) /\ Len(order) \in Nat \ {0} /\ order # << >> /\ top # Null
  BY AtEnds DEF PopFront, Holds
<1>2. /\ Len(order') = Len(order) - 1
      /\ \A i \in 1..(Len(order) - 1) : order'[i] = order[i+1]
  BY <1>1, OffFront DEF PopFront
<1>3. Tail(Items) = Items'
  <2>1. /\ Items' \in Seq(Values) /\ Len(Items') = Len(order) - 1
        /\ \A i \in 1..(Len(order) - 1) : Items'[i] = data'[order'[i]]
    BY <1>2, ItemsAreNext DEF ListInv, TypeOK
  <2>2. /\ Tail(Items) \in Seq(Values) /\ Len(Tail(Items)) = Len(order) - 1
        /\ \A i \in 1..(Len(order) - 1) : Tail(Items)[i] = Items[i+1]
    BY <1>1, Before, OffFront
  <2>3. ASSUME NEW i \in 1..(Len(order) - 1) PROVE Tail(Items)[i] = Items'[i]
    <3>1. i + 1 \in 1..Len(order) /\ data' = data
      BY <1>1 DEF PopFront
    <3>2. Items[i+1] = data[order[i+1]]
      BY <3>1, Before
    <3> QED
      BY <1>2, <2>1, <2>2, <3>1, <3>2
  <2> QED
    BY <2>1, <2>2, <2>3, SeqEqual
<1>4. /\ Items # << >> /\ A!Fits(A!Front, room)
      /\ answer' = [op |-> "pop_front", room |-> room, got |-> <<A!Front>>]
  BY <1>1, Before DEF PopFront, Holds, Reply, A!Fits
<1> QED
  BY <1>3, <1>4 DEF A!Take, A!PopFront, A!Reply

LEMMA PopBackRefines ==
  ASSUME ListInv, ListInv', life = "live", life' = "live",
         NEW room \in Rooms, PopBack(room)
  PROVE  A!Take
<1>1. order \in Seq(Nodes) /\ Len(order) \in Nat \ {0} /\ order # << >> /\ tail # Null
  BY AtEnds DEF PopBack, Holds
<1>2. /\ Len(order') = Len(order) - 1
      /\ \A i \in 1..(Len(order) - 1) : order'[i] = order[i]
  BY <1>1, OffBack DEF PopBack
<1>3. SubSeq(Items, 1, Len(Items) - 1) = Items'
  <2>1. /\ Items' \in Seq(Values) /\ Len(Items') = Len(order) - 1
        /\ \A i \in 1..(Len(order) - 1) : Items'[i] = data'[order'[i]]
    BY <1>2, ItemsAreNext DEF ListInv, TypeOK
  <2>2. /\ SubSeq(Items, 1, Len(Items) - 1) \in Seq(Values)
        /\ Len(SubSeq(Items, 1, Len(Items) - 1)) = Len(order) - 1
        /\ \A i \in 1..(Len(order) - 1) : SubSeq(Items, 1, Len(Items) - 1)[i] = Items[i]
    BY <1>1, Before, OffBack
  <2>3. \A i \in 1..(Len(order) - 1) : SubSeq(Items, 1, Len(Items) - 1)[i] = Items'[i]
    BY <1>1, <1>2, <2>1, <2>2, Before DEF PopBack
  <2> QED
    BY <2>1, <2>2, <2>3, SeqEqual
<1>4. /\ Items # << >> /\ A!Fits(A!Back, room)
      /\ answer' = [op |-> "pop_back", room |-> room, got |-> <<A!Back>>]
  BY <1>1, Before DEF PopBack, Holds, Reply, A!Fits
<1> QED
  BY <1>3, <1>4 DEF A!Take, A!PopBack, A!Reply

LEMMA TakeRefines ==
  ASSUME ListInv, ListInv', life = "live", life' = "live", NEW room \in Rooms,
         \/ PopFront(room) \/ PopBack(room) \/ PeekFront(room) \/ PeekBack(room)
         \/ RefuseFront(room) \/ RefuseBack(room)
  PROVE  A!Take
<1> USE DEF A!Take, A!Reply, A!Fits, Holds, Reply
<1>1. CASE PeekFront(room)
  <2>1. Items' = Items /\ top # Null
    BY <1>1 DEF PeekFront, Items, links
  <2>2. A!Peek("peek_front", A!Front, room)
    BY <1>1, <2>1, Before DEF PeekFront, A!Peek
  <2> QED
    BY <2>2
<1>2. CASE PeekBack(room)
  <2>1. Items' = Items /\ tail # Null
    BY <1>2 DEF PeekBack, Items, links
  <2>2. A!Peek("peek_back", A!Back, room)
    BY <1>2, <2>1, Before DEF PeekBack, A!Peek
  <2> QED
    BY <2>2
<1>3. CASE RefuseFront(room)
  <2>1. Items' = Items
    BY <1>3 DEF RefuseFront, Items, links
  <2>2. A!Refuse({"pop_front", "peek_front"}, A!Front, room)
    BY <1>3, <2>1, Before DEF RefuseFront, A!Refuse
  <2> QED
    BY <2>2
<1>4. CASE RefuseBack(room)
  <2>1. Items' = Items
    BY <1>4 DEF RefuseBack, Items, links
  <2>2. A!Refuse({"pop_back", "peek_back"}, A!Back, room)
    BY <1>4, <2>1, Before DEF RefuseBack, A!Refuse
  <2> QED
    BY <2>2
<1> QED
  BY <1>1, <1>2, <1>3, <1>4, PopFrontRefines, PopBackRefines

LEMMA CallRefines == ASSUME ListInv, ListInv', Call PROVE A!Push \/ A!NoMemory \/ A!Take
<1>1. life = "live" /\ life' = "live"
  BY DEF Call
<1>2. CASE Push
  BY <1>1, <1>2, BackRefines, FrontRefines DEF Push
<1>3. CASE NoMemory
  <2>1. Items' = Items
    BY <1>1, <1>3 DEF NoMemory, Items, links
  <2> QED
    BY <1>1, <1>3, <2>1 DEF NoMemory, Reply, A!NoMemory, A!Reply
<1>4. CASE Take
  BY <1>1, <1>4, TakeRefines DEF Take
<1> QED
  BY <1>2, <1>3, <1>4 DEF Call

LEMMA StepRefines ==
  ASSUME ListInv, ListInv', [Next]_vars
  PROVE  [A!Next]_<<IF life = "freeing" THEN "freed" ELSE life, Items, answer>>
<1> USE DEF A!Next
<1>1. CASE Create
  <2>1. Items = << >> /\ Items' = << >>
    <3>1. order = << >> /\ order' = << >> /\ life = "none" /\ life' = "live"
      BY <1>1 DEF Create, ListInv, Ends
    <3>2. order' \in Seq(Nodes) /\ data' \in [Nodes -> Values] /\ Len(order') = 0
      BY <3>1, EmptySeq DEF ListInv, TypeOK
    <3>3. Items' \in Seq(Values) /\ Len(Items') = 0
      BY <3>1, <3>2, ItemsAreNext
    <3> QED
      BY <3>1, <3>3, EmptyIsZero DEF Items
  <2> QED
    BY <1>1, <2>1 DEF Create, A!Create
<1>2. CASE Call
  BY <1>2, CallRefines
<1>3. CASE Destroy
  BY <1>3 DEF Destroy, Items, A!Destroy
<1>4. CASE FreeNode \/ FreeDeque
  BY <1>4 DEF FreeNode, FreeDeque, Items
<1>5. CASE UNCHANGED vars
  BY <1>5 DEF vars, links, Items
<1> QED
  BY <1>1, <1>2, <1>3, <1>4, <1>5 DEF Next

\* The linked list behaves as a sequence open at both ends; a pop or peek is refused
\* only for an empty deque or want of room, and a call that fails changes nothing.
THEOREM ImplementsDeque == Spec => DequeSpec
<1>1. Init => A!Init
  BY DEF Init, Items, A!Init
<1>2. ListInv /\ ListInv' /\ [Next]_vars
        => [A!Next]_<<IF life = "freeing" THEN "freed" ELSE life, Items, answer>>
  BY StepRefines
<1> QED
  BY <1>1, <1>2, Shape, PTL DEF Spec, DequeSpec, A!Spec

-----------------------------------------------------------------------------
(***************************************************************************)
(* The lists of LinkedLists.  What has the name of a variable of DequeList *)
(* has an l before it, as in System.                                       *)
(***************************************************************************)
CONSTANTS Lists, ListNodes, ListTurns, Room
VARIABLES lprogram, lpc, ltodo, lroot, ltail, lnext, lprev, lvalue, lcount, lalive, lcall

Lst == INSTANCE LinkedLists WITH
  Nodes <- ListNodes, Turns <- ListTurns, program <- lprogram, pc <- lpc, todo <- ltodo, root <- lroot,
  tail <- ltail, next <- lnext, prev <- lprev, value <- lvalue, count <- lcount, alive <- lalive,
  call <- lcall

\* A non-empty set of natural numbers has a least element.
LEMMA Least ==
  ASSUME NEW P, P \subseteq Nat, P # {}
  PROVE  \E p \in P : \A q \in P : p <= q
<1> DEFINE R == OpToRel(<, Nat)
<1>1. IsWellFoundedOn(R, Nat)
  BY NatLessThanWellFounded
<1>2. \A x, y \in Nat : <<x, y>> \in R <=> x < y
  BY DEF OpToRel
<1> HIDE DEF R
<1>3. PICK p \in P : \A q \in P : ~(<<q, p>> \in R)
  BY <1>1, WFMin
<1>4. ASSUME NEW q \in P PROVE p <= q
  <2>1. p \in Nat /\ q \in Nat /\ ~(q < p)
    BY <1>2, <1>3
  <2> QED
    BY <2>1
<1> QED
  BY <1>4

\* A set of numbers with 0 and what follows each of its members has all.
LEMMA Steps ==
  ASSUME NEW P, 0 \in P, \A n \in Nat : n \in P => n + 1 \in P
  PROVE  Nat \subseteq P
<1> DEFINE Rest == Nat \ P
<1> SUFFICES ASSUME Rest # {} PROVE FALSE
  OBVIOUS
<1>1. PICK n \in Rest : \A q \in Rest : n <= q
  BY Least
<1>2. n \in Nat /\ n # 0 /\ n - 1 \in Nat /\ (n - 1) + 1 = n /\ ~(n <= n - 1)
  BY <1>1
<1>3. n - 1 \in P
  BY <1>1, <1>2
<1> QED
  BY <1>1, <1>2, <1>3

\* A list is a row of nodes, none of them twice, and the pointers lead along it.
Spot(s, i) == IF i \in 1..Len(s) THEN s[i] ELSE Null
Row(s) == s \in Seq(ListNodes) /\ \A i, j \in 1..Len(s) : s[i] = s[j] => i = j
Leads(link, a, s) == a = Spot(s, 1) /\ \A i \in 1..Len(s) : link[s[i]] = Spot(s, i + 1)
InRow(s) == {s[i] : i \in 1..Len(s)}

LEMMA ListsCardinality == \A S : Lst!Cardinality(S) = Cardinality(S)
BY DEF Lst!Cardinality, Cardinality, Lst!IsFiniteSet, IsFiniteSet

LEMMA NodesFinite == ASSUME Lst!ListsAssumption PROVE IsFiniteSet(ListNodes) /\ Null \notin ListNodes /\ ListTurns \in Nat
BY DEF Lst!ListsAssumption, Lst!IsFiniteSet, IsFiniteSet

LEMMA RowTyped ==
  ASSUME NEW s, Row(s)
  PROVE  /\ s \in Seq(ListNodes) /\ Len(s) \in Nat /\ DOMAIN s = 1..Len(s)
         /\ \A i \in 1..Len(s) : s[i] \in ListNodes
BY DEF Row

LEMMA RowLength ==
  ASSUME Lst!ListsAssumption, NEW s, Row(s)
  PROVE  /\ Len(s) \in Nat /\ Cardinality(ListNodes) \in Nat /\ Len(s) <= Cardinality(ListNodes)
<1>1. s \in Seq(ListNodes) /\ Len(s) \in Nat /\ DOMAIN s = 1..Len(s) /\ \A i \in 1..Len(s) : s[i] \in ListNodes
  BY RowTyped
<1>2. s \in [1..Len(s) -> ListNodes]
  BY <1>1
<1>3. s \in Injection(1..Len(s), ListNodes)
  BY <1>2, Fun_IsInj DEF Row
<1>4. Cardinality(1..Len(s)) <= Cardinality(ListNodes) /\ Cardinality(ListNodes) \in Nat
  BY <1>3, NodesFinite, FS_Injection, FS_CardinalityType
<1>5. Cardinality(1..Len(s)) = Len(s)
  <2> DEFINE n == Len(s)
  <2>1. 1 \in Int /\ n \in Int /\ n \in Nat
    BY <1>1
  <2> HIDE DEF n
  <2>2. Cardinality(1..n) = IF 1 > n THEN 0 ELSE n - 1 + 1
    BY <2>1, FS_Interval
  <2>3. Cardinality(1..n) = n
    BY <2>1, <2>2
  <2> QED
    BY <2>3 DEF n
<1> QED
  BY <1>1, <1>4, <1>5

\* The steps of Follow.
Goes(link, a, hop, k) == IF k = 0 THEN a ELSE IF hop[k - 1] = Null THEN Null ELSE link[hop[k - 1]]
Going(link, a, m, hop) == hop = [k \in 0..m |-> Goes(link, a, hop, k)]

LEMMA GoingAt ==
  ASSUME NEW link, NEW a, NEW m, NEW hop, Going(link, a, m, hop), NEW k \in 0..m
  PROVE  hop[k] = Goes(link, a, hop, k) /\ DOMAIN hop = 0..m
<1>1. hop = [j \in 0..m |-> Goes(link, a, hop, j)]
  BY DEF Going
<1>2. hop[k] = [j \in 0..m |-> Goes(link, a, hop, j)][k] /\ DOMAIN hop = DOMAIN [j \in 0..m |-> Goes(link, a, hop, j)]
  BY <1>1
<1> QED
  BY <1>2

\* In a sound list Follow gives its row.
LEMMA FollowIs ==
  ASSUME Lst!ListsAssumption, NEW link, NEW a, NEW s, Row(s), Leads(link, a, s)
  PROVE  Lst!Follow(link, a) = s
<1> DEFINE C == Cardinality(ListNodes)
           f == [k \in 0..C |-> Spot(s, k + 1)]
           hop == CHOOSE g : Going(link, a, C, g)
           n == Len(s)
<1>1. n \in Nat /\ C \in Nat /\ n <= C /\ s \in Seq(ListNodes) /\ (\A i \in 1..n : s[i] \in ListNodes) /\ Null \notin ListNodes
  BY RowLength, RowTyped, NodesFinite
<1>2. Lst!Follow(link, a) = [i \in 1..Cardinality({k \in DOMAIN hop : hop[k] # Null}) |-> hop[i - 1]]
  <2> DEFINE places == {k \in DOMAIN hop : hop[k] # Null}
  <2>1. Lst!Cardinality(ListNodes) = C /\ Lst!Cardinality(places) = Cardinality(places)
    BY ListsCardinality
  <2>2. Lst!Follow(link, a) = [i \in 1..Lst!Cardinality(places) |-> hop[i - 1]]
    BY <2>1 DEF Lst!Follow, Going, Goes
  <2> QED
    BY <2>1, <2>2
<1> HIDE DEF C, n
<1>3. Going(link, a, C, f)
  <2>1. ASSUME NEW k \in 0..C PROVE f[k] = Goes(link, a, f, k)
    <3>1. f[k] = Spot(s, k + 1)
      OBVIOUS
    <3>2. CASE k = 0
      BY <3>1, <3>2 DEF Goes, Leads
    <3>3. CASE k # 0
      <4>1. k - 1 \in 0..C /\ f[k - 1] = Spot(s, k) /\ k \in Nat
        BY <1>1, <3>3
      <4>2. CASE k \in 1..n
        <5>1. Spot(s, k) = s[k] /\ s[k] # Null /\ link[s[k]] = Spot(s, k + 1)
          BY <1>1, <4>2 DEF Spot, Leads, n
        <5> QED
          BY <3>1, <3>3, <4>1, <5>1 DEF Goes
      <4>3. CASE k \notin 1..n
        <5>1. k + 1 \notin 1..n
          BY <1>1, <4>1, <4>3, <3>3
        <5>2. Spot(s, k) = Null /\ Spot(s, k + 1) = Null
          BY <4>3, <5>1 DEF Spot, n
        <5> QED
          BY <3>1, <3>3, <4>1, <5>2 DEF Goes
      <4> QED
        BY <4>2, <4>3
    <3> QED
      BY <3>2, <3>3
  <2>2. f = [k \in 0..C |-> f[k]]
    OBVIOUS
  <2> HIDE DEF f
  <2> QED
    BY <2>1, <2>2 DEF Going
<1>4. Going(link, a, C, hop)
  BY <1>3
<1> HIDE DEF hop
<1>5. \A k \in 0..C : hop[k] = f[k]
  <2> DEFINE P == {k \in Nat : k <= C => hop[k] = f[k]}
  <2>1. 0 \in P
    <3>1. 0 \in 0..C
      BY <1>1
    <3>2. hop[0] = Goes(link, a, hop, 0) /\ f[0] = Goes(link, a, f, 0)
      <4> HIDE DEF f
      <4> QED
        BY <1>3, <1>4, <3>1, GoingAt
    <3> HIDE DEF f
    <3> QED
      BY <3>2 DEF Goes
  <2>2. ASSUME NEW k \in Nat, k \in P PROVE k + 1 \in P
    <3> HIDE DEF f
    <3> SUFFICES ASSUME k + 1 <= C PROVE hop[k + 1] = f[k + 1]
      OBVIOUS
    <3>1. k + 1 \in 0..C /\ k <= C /\ (k + 1) - 1 = k /\ k + 1 # 0
      BY <1>1
    <3>2. hop[k + 1] = Goes(link, a, hop, k + 1) /\ f[k + 1] = Goes(link, a, f, k + 1)
      BY <1>3, <1>4, <3>1, GoingAt
    <3>3. hop[k] = f[k]
      BY <2>2, <3>1
    <3> QED
      BY <3>1, <3>2, <3>3 DEF Goes
  <2> HIDE DEF P
  <2>3. Nat \subseteq P
    BY <2>1, <2>2, Steps
  <2>4. ASSUME NEW k \in 0..C PROVE hop[k] = f[k]
    <3> HIDE DEF f
    <3>1. k \in Nat /\ k <= C
      BY <1>1
    <3> QED
      BY <2>3, <3>1 DEF P
  <2> QED
    BY <2>4
<1>6. DOMAIN hop = 0..C
  <2>1. 0 \in 0..C
    BY <1>1
  <2> QED
    BY <1>4, <2>1, GoingAt
<1>7. \A k \in 0..C : hop[k] = Spot(s, k + 1)
  BY <1>5
<1> HIDE DEF f
<1>8. {k \in DOMAIN hop : hop[k] # Null} = 0..(n - 1)
  <2>1. ASSUME NEW k \in 0..C PROVE hop[k] # Null <=> k \in 0..(n - 1)
    <3>1. k + 1 \in 1..n <=> k \in 0..(n - 1)
      BY <1>1
    <3>2. k + 1 \in 1..n => s[k + 1] # Null
      BY <1>1
    <3> QED
      BY <1>7, <3>1, <3>2 DEF Spot, n
  <2>2. 0..(n - 1) \subseteq 0..C
    BY <1>1
  <2> QED
    BY <1>6, <2>1, <2>2
<1>9. Cardinality(0..(n - 1)) = n
  <2> DEFINE b == n - 1
  <2>1. 0 \in Int /\ b \in Int /\ b - 0 + 1 = n /\ (0 > b => n = 0)
    BY <1>1
  <2> HIDE DEF b
  <2>2. Cardinality(0..b) = IF 0 > b THEN 0 ELSE b - 0 + 1
    BY <2>1, FS_Interval
  <2>3. Cardinality(0..b) = n
    BY <2>1, <2>2
  <2> QED
    BY <2>3 DEF b
<1>10. Lst!Follow(link, a) = [i \in 1..n |-> hop[i - 1]]
  BY <1>2, <1>8, <1>9
<1>11. \A i \in 1..n : hop[i - 1] = s[i]
  <2> TAKE i \in 1..n
  <2>1. i - 1 \in 0..C /\ (i - 1) + 1 = i
    BY <1>1
  <2> QED
    BY <1>7, <2>1 DEF Spot, n
<1>12. s = [i \in 1..n |-> s[i]]
  BY <1>1 DEF n
<1> QED
  BY <1>10, <1>11, <1>12

-----------------------------------------------------------------------------
\* One element more, and one less.
Ins(s, i, x) == [j \in 1..(Len(s) + 1) |-> IF j < i THEN s[j] ELSE IF j = i THEN x ELSE s[j - 1]]
Del(s, i) == [j \in 1..(Len(s) - 1) |-> IF j < i THEN s[j] ELSE s[j + 1]]

LEMMA InsIs ==
  ASSUME NEW S, NEW s \in Seq(S), NEW x \in S, NEW i \in 1..(Len(s) + 1)
  PROVE  /\ Ins(s, i, x) \in Seq(S) /\ Len(Ins(s, i, x)) = Len(s) + 1 /\ Len(s) \in Nat
         /\ Ins(s, i, x)[i] = x
         /\ \A j \in 1..(Len(s) + 1) : /\ j < i => Ins(s, i, x)[j] = s[j] /\ j \in 1..Len(s)
                                       /\ j > i => Ins(s, i, x)[j] = s[j - 1] /\ j - 1 \in 1..Len(s)
<1> DEFINE t == Ins(s, i, x)
<1>1. Len(s) \in Nat /\ \A j \in 1..Len(s) : s[j] \in S
  OBVIOUS
<1>2. t = [j \in 1..(Len(s) + 1) |-> IF j < i THEN s[j] ELSE IF j = i THEN x ELSE s[j - 1]]
  BY DEF Ins
<1> HIDE DEF t
<1>3. ASSUME NEW j \in 1..(Len(s) + 1)
      PROVE  (j < i => j \in 1..Len(s)) /\ (j > i => j - 1 \in 1..Len(s)) /\ (j < i \/ j = i \/ j > i)
  BY <1>1
<1>4. \A j \in 1..(Len(s) + 1) : t[j] = IF j < i THEN s[j] ELSE IF j = i THEN x ELSE s[j - 1]
  BY <1>2
<1>5. \A j \in 1..(Len(s) + 1) : t[j] \in S
  BY <1>1, <1>3, <1>4
<1>6. t \in [1..(Len(s) + 1) -> S]
  BY <1>2, <1>5
<1>7. t \in Seq(S) /\ Len(t) = Len(s) + 1
  BY <1>1, <1>6
<1>8. t[i] = x /\ \A j \in 1..(Len(s) + 1) : (j < i => t[j] = s[j]) /\ (j > i => t[j] = s[j - 1])
  BY <1>1, <1>4
<1> QED
  BY <1>1, <1>3, <1>7, <1>8 DEF t

LEMMA DelIs ==
  ASSUME NEW S, NEW s \in Seq(S), NEW i \in 1..Len(s)
  PROVE  /\ Del(s, i) \in Seq(S) /\ Len(Del(s, i)) = Len(s) - 1 /\ Len(s) \in Nat
         /\ \A j \in 1..(Len(s) - 1) : /\ j < i => Del(s, i)[j] = s[j]
                                       /\ j >= i => Del(s, i)[j] = s[j + 1]
                                       /\ j \in 1..Len(s) /\ j + 1 \in 1..Len(s)
<1> DEFINE t == Del(s, i)
<1>1. Len(s) \in Nat /\ Len(s) - 1 \in Nat /\ \A j \in 1..Len(s) : s[j] \in S
  OBVIOUS
<1>2. t = [j \in 1..(Len(s) - 1) |-> IF j < i THEN s[j] ELSE s[j + 1]]
  BY DEF Del
<1> HIDE DEF t
<1>3. \A j \in 1..(Len(s) - 1) : j \in 1..Len(s) /\ j + 1 \in 1..Len(s) /\ (j < i \/ j >= i) /\ ~(j < i /\ j >= i)
  BY <1>1
<1>4. \A j \in 1..(Len(s) - 1) : t[j] = IF j < i THEN s[j] ELSE s[j + 1]
  BY <1>2
<1>5. t \in [1..(Len(s) - 1) -> S]
  BY <1>1, <1>2, <1>3, <1>4
<1>6. t \in Seq(S) /\ Len(t) = Len(s) - 1
  BY <1>1, <1>5
<1> QED
  BY <1>1, <1>3, <1>4, <1>6 DEF t

LEMMA SameAll ==
  ASSUME NEW S, NEW s \in Seq(S), NEW t \in Seq(S), Len(s) = Len(t), \A i \in 1..Len(s) : s[i] = t[i]
  PROVE  s = t
OBVIOUS

LEMMA InsAtEnd == ASSUME NEW S, NEW s \in Seq(S), NEW x \in S PROVE Append(s, x) = Ins(s, Len(s) + 1, x)
<1>1. Len(s) \in Nat /\ Len(s) + 1 \in 1..(Len(s) + 1)
  OBVIOUS
<1> DEFINE t == Ins(s, Len(s) + 1, x)
           u == Append(s, x)
<1>2. /\ t \in Seq(S) /\ Len(t) = Len(s) + 1 /\ t[Len(s) + 1] = x
      /\ \A j \in 1..(Len(s) + 1) : j < Len(s) + 1 => t[j] = s[j]
  BY <1>1, InsIs
<1> HIDE DEF t
<1>3. u \in Seq(S) /\ Len(u) = Len(s) + 1 /\ u[Len(s) + 1] = x /\ \A j \in 1..Len(s) : u[j] = s[j]
  OBVIOUS
<1> HIDE DEF u
<1>4. \A j \in 1..(Len(s) + 1) : t[j] = u[j]
  BY <1>1, <1>2, <1>3
<1>5. u = t
  BY <1>2, <1>3, <1>4, SameAll
<1> QED
  BY <1>5 DEF t, u

LEMMA InsInFront == ASSUME NEW S, NEW s \in Seq(S), NEW x \in S PROVE <<x>> \o s = Ins(s, 1, x)
<1>1. Len(s) \in Nat /\ 1 \in 1..(Len(s) + 1)
  OBVIOUS
<1> DEFINE t == Ins(s, 1, x)
           u == <<x>> \o s
<1>2. /\ t \in Seq(S) /\ Len(t) = Len(s) + 1 /\ t[1] = x
      /\ \A j \in 1..(Len(s) + 1) : j > 1 => t[j] = s[j - 1]
  BY <1>1, InsIs
<1> HIDE DEF t
<1>3. u \in Seq(S) /\ Len(u) = Len(s) + 1 /\ u[1] = x /\ \A j \in 1..Len(s) : u[1 + j] = s[j]
  OBVIOUS
<1> HIDE DEF u
<1>4. ASSUME NEW j \in 1..(Len(s) + 1) PROVE t[j] = u[j]
  <2>1. CASE j = 1
    BY <1>2, <1>3, <2>1
  <2>2. CASE j # 1
    <3>1. j > 1 /\ j - 1 \in 1..Len(s) /\ 1 + (j - 1) = j
      BY <1>1, <2>2
    <3> QED
      BY <1>2, <1>3, <3>1
  <2> QED
    BY <2>1, <2>2
<1>5. u = t
  BY <1>2, <1>3, <1>4, SameAll
<1> QED
  BY <1>5 DEF t, u

LEMMA PartIs ==
  ASSUME NEW S, NEW s \in Seq(S), NEW m \in 1..(Len(s) + 1), NEW n \in 0..Len(s), m <= n + 1
  PROVE  /\ SubSeq(s, m, n) \in Seq(S) /\ Len(SubSeq(s, m, n)) = n - m + 1
         /\ \A i \in 1..(n - m + 1) : SubSeq(s, m, n)[i] = s[m - 1 + i]
OBVIOUS

LEMMA ThreeParts ==
  ASSUME NEW S, NEW a \in Seq(S), NEW x \in S, NEW b \in Seq(S)
  PROVE  /\ a \o <<x>> \o b \in Seq(S) /\ Len(a \o <<x>> \o b) = Len(a) + 1 + Len(b) /\ Len(a) \in Nat /\ Len(b) \in Nat
         /\ \A j \in 1..Len(a) : (a \o <<x>> \o b)[j] = a[j]
         /\ (a \o <<x>> \o b)[Len(a) + 1] = x
         /\ \A j \in 1..Len(b) : (a \o <<x>> \o b)[Len(a) + 1 + j] = b[j]
<1> DEFINE c == a \o <<x>>
<1>1. c \in Seq(S) /\ Len(c) = Len(a) + 1 /\ Len(a) \in Nat /\ Len(b) \in Nat /\ (\A j \in 1..Len(a) : c[j] = a[j]) /\ c[Len(a) + 1] = x
  OBVIOUS
<1> HIDE DEF c
<1>2. /\ c \o b \in Seq(S) /\ Len(c \o b) = Len(c) + Len(b)
      /\ \A j \in 1..Len(c) : (c \o b)[j] = c[j]
      /\ \A j \in 1..Len(b) : (c \o b)[Len(c) + j] = b[j]
  BY <1>1
<1>3. \A j \in 1..Len(a) : j \in 1..Len(c)
  BY <1>1
<1>4. Len(a) + 1 \in 1..Len(c)
  BY <1>1
<1> QED
  BY <1>1, <1>2, <1>3, <1>4 DEF c

LEMMA InsertAtIs ==
  ASSUME NEW S, NEW s \in Seq(S), NEW x \in S, NEW i \in 1..(Len(s) + 1)
  PROVE  Lst!InsertAt(s, i, x) = Ins(s, i, x)
<1> DEFINE L == Len(s)
           a == SubSeq(s, 1, i - 1)
           b == SubSeq(s, i, L)
           t == Ins(s, i, x)
           u == a \o <<x>> \o b
<1>1. L \in Nat /\ i \in Nat /\ 1 <= i /\ i <= L + 1 /\ i - 1 \in 0..L /\ L \in 0..L /\ 1 \in 1..(L + 1) /\ i \in 1..(L + 1)
      /\ 1 <= (i - 1) + 1 /\ (i - 1) - 1 + 1 = i - 1 /\ L - i + 1 \in Nat /\ (\A j \in Int : 1 - 1 + j = j)
  OBVIOUS
<1>2. a \in Seq(S) /\ Len(a) = i - 1 /\ \A j \in 1..(i - 1) : a[j] = s[j]
  <2> DEFINE n == i - 1
  <2>1. n \in 0..Len(s) /\ 1 \in 1..(Len(s) + 1) /\ 1 <= n + 1
    BY <1>1
  <2> HIDE DEF n
  <2>2. /\ SubSeq(s, 1, n) \in Seq(S) /\ Len(SubSeq(s, 1, n)) = n - 1 + 1
        /\ \A j \in 1..(n - 1 + 1) : SubSeq(s, 1, n)[j] = s[1 - 1 + j]
    BY <2>1, PartIs
  <2>3. n - 1 + 1 = n
    BY <1>1, <2>1
  <2> QED
    BY <1>1, <2>2, <2>3 DEF n
<1>3. b \in Seq(S) /\ Len(b) = L - i + 1 /\ \A j \in 1..(L - i + 1) : b[j] = s[i - 1 + j]
  <2> HIDE DEF L
  <2>1. L \in 0..Len(s) /\ i \in 1..(Len(s) + 1) /\ i <= L + 1
    BY <1>1 DEF L
  <2> QED
    BY <2>1, PartIs
<1>4. /\ t \in Seq(S) /\ Len(t) = L + 1 /\ t[i] = x
      /\ \A j \in 1..(L + 1) : (j < i => t[j] = s[j]) /\ (j > i => t[j] = s[j - 1])
  BY InsIs
<1> HIDE DEF L, a, b, t
<1>5. /\ u \in Seq(S) /\ Len(u) = Len(a) + 1 + Len(b)
      /\ \A j \in 1..Len(a) : u[j] = a[j]
      /\ u[Len(a) + 1] = x
      /\ \A j \in 1..Len(b) : u[Len(a) + 1 + j] = b[j]
  <2>1. a \in Seq(S) /\ b \in Seq(S) /\ x \in S
    BY <1>2, <1>3
  <2> QED
    BY ONLY <2>1, ThreeParts
<1> HIDE DEF u
<1>6. Len(u) = L + 1
  BY <1>1, <1>2, <1>3, <1>5
<1>7. ASSUME NEW j \in 1..(L + 1) PROVE u[j] = t[j]
  <2>1. CASE j < i
    <3>1. j \in 1..(i - 1)
      BY <1>1, <2>1
    <3> QED
      BY <1>2, <1>4, <1>5, <2>1, <3>1
  <2>2. CASE j = i
    <3>1. Len(a) + 1 = i
      BY <1>1, <1>2
    <3> QED
      BY <1>4, <1>5, <2>2, <3>1
  <2>3. CASE j > i
    <3>1. j - i \in 1..(L - i + 1) /\ Len(a) + 1 + (j - i) = j /\ i - 1 + (j - i) = j - 1
      BY <1>1, <1>2, <2>3
    <3>2. j - i \in 1..Len(b)
      BY <1>3, <3>1
    <3>3. u[j] = b[j - i]
      BY <1>5, <3>1, <3>2
    <3>4. b[j - i] = s[j - 1]
      BY <1>3, <3>1
    <3>5. t[j] = s[j - 1]
      BY <1>4, <2>3
    <3> QED
      BY ONLY <3>3, <3>4, <3>5
  <2>4. j < i \/ j = i \/ j > i
    BY <1>1
  <2> QED
    BY <2>1, <2>2, <2>3, <2>4
<1>8. u = t
  BY <1>4, <1>5, <1>6, <1>7, SameAll
<1> QED
  BY <1>8 DEF Lst!InsertAt, a, b, t, u, L

LEMMA RemoveAtIs ==
  ASSUME NEW S, NEW s \in Seq(S), NEW i \in 1..Len(s)
  PROVE  Lst!RemoveAt(s, i) = Del(s, i)
<1> DEFINE L == Len(s)
           a == SubSeq(s, 1, i - 1)
           b == SubSeq(s, i + 1, L)
           t == Del(s, i)
           u == a \o b
<1>1. L \in Nat /\ i \in Nat /\ 1 <= i /\ i <= L /\ i - 1 \in 0..L /\ L \in 0..L /\ 1 \in 1..(L + 1) /\ i + 1 \in 1..(L + 1)
      /\ L - i \in Nat /\ (\A j \in Int : 1 - 1 + j = j)
  OBVIOUS
<1>2. a \in Seq(S) /\ Len(a) = i - 1 /\ \A j \in 1..(i - 1) : a[j] = s[j]
  <2> DEFINE n == i - 1
  <2>1. n \in 0..Len(s) /\ 1 \in 1..(Len(s) + 1) /\ 1 <= n + 1
    BY <1>1
  <2> HIDE DEF n
  <2>2. /\ SubSeq(s, 1, n) \in Seq(S) /\ Len(SubSeq(s, 1, n)) = n - 1 + 1
        /\ \A j \in 1..(n - 1 + 1) : SubSeq(s, 1, n)[j] = s[1 - 1 + j]
    BY <2>1, PartIs
  <2>3. n - 1 + 1 = n
    BY <1>1, <2>1
  <2> QED
    BY <1>1, <2>2, <2>3 DEF n
<1>3. b \in Seq(S) /\ Len(b) = L - i /\ \A j \in 1..(L - i) : b[j] = s[i + j]
  <2> DEFINE m == i + 1
             q == L - m + 1
             o == m - 1
  <2>1. L \in 0..Len(s) /\ m \in 1..(Len(s) + 1) /\ m <= L + 1 /\ q = L - i /\ o = i
    BY <1>1
  <2>2. b \in Seq(S) /\ Len(b) = q /\ \A j \in 1..q : b[j] = s[o + j]
    <3> HIDE DEF L
    <3> QED
      BY <2>1, PartIs
  <2> HIDE DEF L, m, q, o, b
  <2> QED
    BY <2>1, <2>2
<1>4. /\ t \in Seq(S) /\ Len(t) = L - 1
      /\ \A j \in 1..(L - 1) : (j < i => t[j] = s[j]) /\ (j >= i => t[j] = s[j + 1])
  BY DelIs
<1> HIDE DEF L, a, b, t
<1>5. /\ u \in Seq(S) /\ Len(u) = Len(a) + Len(b)
      /\ \A j \in 1..Len(a) : u[j] = a[j]
      /\ \A j \in 1..Len(b) : u[Len(a) + j] = b[j]
  <2>1. a \in Seq(S) /\ b \in Seq(S)
    BY <1>2, <1>3
  <2> QED
    BY ONLY <2>1
<1> HIDE DEF u
<1>6. Len(u) = L - 1
  BY <1>1, <1>2, <1>3, <1>5
<1>7. ASSUME NEW j \in 1..(L - 1) PROVE u[j] = t[j]
  <2>1. CASE j < i
    <3>1. j \in 1..(i - 1)
      BY <1>1, <2>1
    <3> QED
      BY <1>2, <1>4, <1>5, <2>1, <3>1
  <2>3. CASE j >= i
    <3> DEFINE k == j - (i - 1)
    <3>1. k \in 1..(L - i) /\ Len(a) + k = j /\ i + k = j + 1 /\ k \in 1..Len(b)
      BY <1>1, <1>2, <1>3, <2>3
    <3> HIDE DEF k
    <3>2. u[Len(a) + k] = b[k]
      BY <1>5, <3>1
    <3>3. b[k] = s[i + k]
      BY <1>3, <3>1
    <3>4. t[j] = s[j + 1]
      BY <1>4, <2>3
    <3> QED
      BY <3>1, <3>2, <3>3, <3>4
  <2>4. j < i \/ j >= i
    BY <1>1
  <2> QED
    BY <2>1, <2>3, <2>4
<1>8. u = t
  BY <1>4, <1>5, <1>6, <1>7, SameAll
<1> QED
  BY <1>8 DEF Lst!RemoveAt, a, b, t, u, L

-----------------------------------------------------------------------------
Vals(f, s) == [j \in 1..Len(s) |-> f[s[j]]]
Backs(link, s) == \A i \in 1..Len(s) : link[s[i]] = Spot(s, i - 1)

LEMMA ValsTyped ==
  ASSUME NEW s, Row(s), NEW V, NEW f \in [ListNodes -> V]
  PROVE  Vals(f, s) \in Seq(V) /\ Len(Vals(f, s)) = Len(s) /\ \A j \in 1..Len(s) : Vals(f, s)[j] = f[s[j]]
<1>1. Len(s) \in Nat /\ \A i \in 1..Len(s) : s[i] \in ListNodes
  BY RowTyped
<1>2. Vals(f, s) = [j \in 1..Len(s) |-> f[s[j]]]
  BY DEF Vals
<1>3. Vals(f, s) \in [1..Len(s) -> V]
  BY <1>1, <1>2
<1> QED
  BY <1>1, <1>2, <1>3

LEMMA SpotIs == \A s, i : Spot(s, i) = IF i \in 1..Len(s) THEN s[i] ELSE Null
BY DEF Spot

\* A node more in a row, and what the pointers and the values then are.
LEMMA InsRow ==
  ASSUME NEW s, Row(s), NEW n \in ListNodes, n \notin InRow(s), NEW i \in 1..(Len(s) + 1)
  PROVE  Row(Ins(s, i, n)) /\ InRow(Ins(s, i, n)) = InRow(s) \cup {n}
<1> DEFINE t == Ins(s, i, n)
           m == Len(s)
<1>1. s \in Seq(ListNodes) /\ m \in Nat /\ (\A j \in 1..m : s[j] \in ListNodes)
  BY RowTyped
<1>2. \A j, k \in 1..m : s[j] = s[k] => j = k
  BY DEF Row
<1>3. \A j \in 1..m : s[j] # n
  BY DEF InRow
<1>4. /\ t \in Seq(ListNodes) /\ Len(t) = m + 1 /\ t[i] = n
      /\ \A j \in 1..(m + 1) : (j < i => t[j] = s[j] /\ j \in 1..m) /\ (j > i => t[j] = s[j - 1] /\ j - 1 \in 1..m)
  BY <1>1, InsIs
<1>5. i \in 1..(m + 1)
  OBVIOUS
<1> HIDE DEF t, m
<1>6. ASSUME NEW j \in 1..(m + 1), NEW k \in 1..(m + 1), t[j] = t[k], j < k PROVE FALSE
  <2>1. CASE j < i /\ k < i
    <3>1. s[j] = s[k] /\ j \in 1..m /\ k \in 1..m /\ j # k
      BY <1>1, <1>4, <1>6, <2>1
    <3> QED
      BY <1>2, <3>1
  <2>2. CASE j < i /\ k > i
    <3>1. s[j] = s[k - 1] /\ j \in 1..m /\ k - 1 \in 1..m /\ j # k - 1
      BY <1>1, <1>4, <1>5, <1>6, <2>2
    <3> QED
      BY <1>2, <3>1
  <2>3. CASE j > i /\ k > i
    <3>1. s[j - 1] = s[k - 1] /\ j - 1 \in 1..m /\ k - 1 \in 1..m /\ j - 1 # k - 1
      BY <1>1, <1>4, <1>5, <1>6, <2>3
    <3> QED
      BY <1>2, <3>1
  <2>4. CASE j = i
    <3>1. k > i /\ t[k] = s[k - 1] /\ k - 1 \in 1..m /\ t[j] = n
      BY <1>1, <1>4, <1>5, <1>6, <2>4
    <3> QED
      BY <1>3, <1>6, <3>1
  <2>5. CASE k = i
    <3>1. j < i /\ t[j] = s[j] /\ j \in 1..m /\ t[k] = n
      BY <1>1, <1>4, <1>5, <1>6, <2>5
    <3> QED
      BY <1>3, <1>6, <3>1
  <2>6. (j < i \/ j = i \/ j > i) /\ (k < i \/ k = i \/ k > i)
    BY <1>1, <1>5
  <2>7. ~(j > i /\ k < i)
    BY <1>1, <1>5, <1>6
  <2> QED
    BY <2>1, <2>2, <2>3, <2>4, <2>5, <2>6, <2>7
<1>7. \A j, k \in 1..(m + 1) : t[j] = t[k] => j = k
  <2> SUFFICES ASSUME NEW j \in 1..(m + 1), NEW k \in 1..(m + 1), t[j] = t[k] PROVE j = k
    OBVIOUS
  <2>1. ~(j < k) /\ ~(k < j)
    BY <1>6
  <2> QED
    BY <1>1, <2>1
<1>8. Row(t)
  BY <1>4, <1>7 DEF Row
<1>9. InRow(t) = InRow(s) \cup {n}
  <2>1. InRow(t) = {t[j] : j \in 1..(m + 1)} /\ InRow(s) = {s[j] : j \in 1..m}
    BY <1>4 DEF InRow, m
  <2>2. ASSUME NEW j \in 1..(m + 1) PROVE t[j] \in InRow(s) \cup {n}
    <3>1. j < i \/ j = i \/ j > i
      BY <1>1, <1>5
    <3> QED
      BY <1>4, <2>1, <3>1
  <2>3. ASSUME NEW j \in 1..m PROVE s[j] \in InRow(t)
    <3>1. CASE j < i
      <4>1. j \in 1..(m + 1)
        BY <1>1
      <4>2. t[j] = s[j]
        BY <1>4, <3>1, <4>1
      <4> QED
        BY <2>1, <4>1, <4>2
    <3>2. CASE j >= i
      <4> DEFINE q == j + 1
      <4>1. q \in 1..(m + 1) /\ q > i /\ q - 1 = j
        BY <1>1, <1>5, <3>2
      <4> HIDE DEF q
      <4>2. t[q] = s[j]
        BY <1>4, <4>1
      <4> QED
        BY <2>1, <4>1, <4>2
    <3>3. j < i \/ j >= i
      BY <1>1, <1>5
    <3> QED
      BY <3>1, <3>2, <3>3
  <2>4. n \in InRow(t)
    BY <1>4, <1>5, <2>1
  <2> QED
    BY <2>1, <2>2, <2>3, <2>4
<1> QED
  BY <1>8, <1>9 DEF t

LEMMA InsLeads ==
  ASSUME NEW s, Row(s), NEW n \in ListNodes, n \notin InRow(s), NEW i \in 0..Len(s), Null \notin ListNodes,
         NEW f \in [ListNodes -> ListNodes \cup {Null}], NEW a, Leads(f, a, s),
         NEW g, NEW b,
         IF i = 0 THEN b = n /\ g = [f EXCEPT ![n] = a]
         ELSE b = a /\ g = [f EXCEPT ![n] = f[s[i]], ![s[i]] = n]
  PROVE  Leads(g, b, Ins(s, i + 1, n)) /\ g \in [ListNodes -> ListNodes \cup {Null}]
<1> DEFINE o == i + 1
           t == Ins(s, o, n)
           m == Len(s)
<1>1. s \in Seq(ListNodes) /\ m \in Nat /\ (\A j \in 1..m : s[j] \in ListNodes)
  BY RowTyped
<1>2. \A j, k \in 1..m : s[j] = s[k] => j = k
  BY DEF Row
<1>3. \A j \in 1..m : s[j] # n
  BY DEF InRow
<1>5. o \in 1..(m + 1) /\ i \in 0..m /\ o = i + 1 /\ i \in Nat
  BY <1>1
<1>4. /\ Len(t) = m + 1 /\ t[o] = n
      /\ \A j \in 1..(m + 1) : (j < o => t[j] = s[j] /\ j \in 1..m) /\ (j > o => t[j] = s[j - 1] /\ j - 1 \in 1..m)
  <2>1. o \in 1..(Len(s) + 1)
    BY <1>5
  <2> HIDE DEF o
  <2> QED
    BY <1>1, <2>1, InsIs
<1>6. a = Spot(s, 1) /\ \A j \in 1..m : f[s[j]] = Spot(s, j + 1)
  BY DEF Leads
<1>7. a \in ListNodes \cup {Null}
  BY <1>1, <1>6 DEF Spot
<1>8. \A j : Spot(s, j) = IF j \in 1..m THEN s[j] ELSE Null
  BY DEF Spot
<1>9. \A j : Spot(t, j) = IF j \in 1..(m + 1) THEN t[j] ELSE Null
  BY <1>4 DEF Spot
<1> HIDE DEF t, m, o
<1>10. CASE i = 0
  <2>1. b = n /\ g = [f EXCEPT ![n] = a] /\ o = 1
    BY <1>5, <1>10
  <2>2. g \in [ListNodes -> ListNodes \cup {Null}] /\ g[n] = a /\ \A x \in ListNodes : x # n => g[x] = f[x]
    BY <1>7, <2>1
  <2>3. b = Spot(t, 1)
    BY <1>4, <1>5, <1>9, <2>1
  <2>4. ASSUME NEW j \in 1..(m + 1) PROVE g[t[j]] = Spot(t, j + 1)
    <3> DEFINE q == j - 1
    <3>1. CASE j = 1
      <4>1. t[j] = n /\ Spot(t, j + 1) = Spot(s, 1)
        <5>1. CASE m = 0
          <6>1. 1 + 1 \notin 1..(m + 1) /\ 1 \notin 1..m
            BY <5>1
          <6> QED
            BY <1>4, <1>8, <1>9, <2>1, <3>1, <6>1
        <5>2. CASE m # 0
          <6>1. 1 + 1 \in 1..(m + 1) /\ 1 \in 1..m /\ 1 + 1 > o /\ (1 + 1) - 1 = 1
            BY <1>1, <2>1, <5>2
          <6>2. t[1 + 1] = s[1]
            BY <1>4, <6>1
          <6> QED
            BY <1>4, <1>8, <1>9, <2>1, <3>1, <6>1, <6>2
        <5> QED
          BY <5>1, <5>2
      <4> QED
        BY <1>6, <2>2, <4>1
    <3>2. CASE j # 1
      <4>1. j > o /\ q \in 1..m /\ q + 1 = j /\ (j + 1 \in 1..(m + 1) <=> j \in 1..m) /\ (j + 1 > o) /\ (j + 1) - 1 = j
        BY <1>1, <2>1, <3>2
      <4>2. t[j] = s[q]
        BY <1>4, <4>1
      <4> HIDE DEF q
      <4>3. Spot(t, j + 1) = Spot(s, j)
        BY <1>4, <1>8, <1>9, <4>1
      <4>4. g[s[q]] = f[s[q]] /\ f[s[q]] = Spot(s, q + 1)
        BY <1>1, <1>3, <1>6, <2>2, <4>1
      <4> QED
        BY <4>1, <4>2, <4>3, <4>4
    <3> QED
      BY <3>1, <3>2
  <2> QED
    BY <1>4, <2>2, <2>3, <2>4 DEF Leads, t, o
<1>11. CASE i # 0
  <2>1. b = a /\ g = [f EXCEPT ![n] = f[s[i]], ![s[i]] = n] /\ i \in 1..m /\ s[i] \in ListNodes /\ s[i] # n
    BY <1>1, <1>3, <1>5, <1>11
  <2>2. /\ g \in [ListNodes -> ListNodes \cup {Null}] /\ g[n] = f[s[i]] /\ g[s[i]] = n
        /\ \A x \in ListNodes : x # n /\ x # s[i] => g[x] = f[x]
    BY <2>1
  <2>3. b = Spot(t, 1)
    <3>1. 1 \in 1..(m + 1) /\ 1 < o /\ 1 \in 1..m
      BY <1>1, <1>5, <2>1
    <3> QED
      BY <1>4, <1>6, <1>8, <1>9, <2>1, <3>1
  <2>4. ASSUME NEW j \in 1..(m + 1) PROVE g[t[j]] = Spot(t, j + 1)
    <3>1. CASE j < i
      <4>1. j < o /\ j + 1 < o /\ j \in 1..m /\ j + 1 \in 1..(m + 1) /\ j + 1 \in 1..m /\ j # i
        BY <1>1, <1>5, <3>1
      <4>2. t[j] = s[j] /\ Spot(t, j + 1) = s[j + 1] /\ Spot(s, j + 1) = s[j + 1]
        BY <1>4, <1>8, <1>9, <4>1
      <4>3. s[j] # s[i] /\ s[j] # n /\ s[j] \in ListNodes
        BY <1>1, <1>2, <1>3, <2>1, <4>1
      <4> QED
        BY <1>6, <2>2, <4>1, <4>2, <4>3
    <3>2. CASE j = i
      <4>1. j < o /\ j + 1 = o /\ j + 1 \in 1..(m + 1)
        BY <1>1, <1>5, <3>2
      <4>2. t[j] = s[j] /\ Spot(t, j + 1) = n
        BY <1>4, <1>9, <4>1
      <4> QED
        BY <2>2, <3>2, <4>2
    <3>3. CASE j = o
      <4>1. (j + 1 \in 1..(m + 1) <=> i + 1 \in 1..m) /\ j + 1 > o /\ (j + 1) - 1 = i + 1
        BY <1>1, <1>5, <3>3
      <4>2. t[j] = n /\ Spot(t, j + 1) = Spot(s, i + 1)
        BY <1>4, <1>8, <1>9, <3>3, <4>1
      <4> QED
        BY <1>6, <2>1, <2>2, <4>2
    <3>4. CASE j > o
      <4> DEFINE q == j - 1
      <4>1. q \in 1..m /\ q + 1 = j /\ q # i /\ (j + 1 \in 1..(m + 1) <=> j \in 1..m) /\ (j + 1 > o) /\ (j + 1) - 1 = j
        BY <1>1, <1>5, <3>4
      <4>2. t[j] = s[q]
        BY <1>4, <3>4
      <4> HIDE DEF q
      <4>3. Spot(t, j + 1) = Spot(s, j)
        BY <1>4, <1>8, <1>9, <4>1
      <4>4. s[q] # s[i] /\ s[q] # n /\ s[q] \in ListNodes
        BY <1>1, <1>2, <1>3, <2>1, <4>1
      <4>5. g[s[q]] = f[s[q]] /\ f[s[q]] = Spot(s, q + 1)
        BY <1>6, <2>2, <4>1, <4>4
      <4> QED
        BY <4>1, <4>2, <4>3, <4>5
    <3>5. j < i \/ j = i \/ j = o \/ j > o
      BY <1>1, <1>5
    <3> QED
      BY <3>1, <3>2, <3>3, <3>4, <3>5
  <2> QED
    BY <1>4, <2>2, <2>3, <2>4 DEF Leads, t, o
<1> QED
  BY <1>10, <1>11

LEMMA InsVals ==
  ASSUME NEW s, Row(s), NEW n \in ListNodes, n \notin InRow(s), NEW i \in 1..(Len(s) + 1),
         NEW f, f = [m \in ListNodes |-> f[m]], NEW x
  PROVE  Vals([f EXCEPT ![n] = x], Ins(s, i, n)) = Ins(Vals(f, s), i, x)
<1> DEFINE V == {f[y] : y \in ListNodes} \cup {x}
           g == [f EXCEPT ![n] = x]
           t == Ins(s, i, n)
           m == Len(s)
           old == Vals(f, s)
           new == Ins(old, i, x)
           u == Vals(g, t)
<1>1. s \in Seq(ListNodes) /\ m \in Nat /\ (\A j \in 1..m : s[j] \in ListNodes /\ s[j] # n)
  BY RowTyped DEF InRow
<1>0. f \in [ListNodes -> V] /\ x \in V
  OBVIOUS
<1> HIDE DEF V
<1>2. g \in [ListNodes -> V] /\ g[n] = x /\ \A y \in ListNodes : y # n => g[y] = f[y]
  BY <1>0
<1>3. /\ t \in Seq(ListNodes) /\ Len(t) = m + 1 /\ t[i] = n
      /\ \A j \in 1..(m + 1) : (j < i => t[j] = s[j] /\ j \in 1..m) /\ (j > i => t[j] = s[j - 1] /\ j - 1 \in 1..m)
  <2>1. s \in Seq(ListNodes) /\ n \in ListNodes /\ i \in 1..(Len(s) + 1)
    BY <1>1
  <2>2. Ins(s, i, n) \in Seq(ListNodes) /\ Len(Ins(s, i, n)) = Len(s) + 1 /\ Ins(s, i, n)[i] = n
    BY ONLY <2>1, InsIs
  <2>3. \A j \in 1..(Len(s) + 1) : j < i => Ins(s, i, n)[j] = s[j] /\ j \in 1..Len(s)
    BY ONLY <2>1, InsIs
  <2>4. \A j \in 1..(Len(s) + 1) : j > i => Ins(s, i, n)[j] = s[j - 1] /\ j - 1 \in 1..Len(s)
    BY ONLY <2>1, InsIs
  <2> QED
    BY ONLY <2>2, <2>3, <2>4
<1>4. Row(t)
  BY InsRow
<1>5. old \in Seq(V) /\ Len(old) = m /\ \A j \in 1..m : old[j] = f[s[j]]
  BY <1>0, ValsTyped
<1>6. u \in Seq(V) /\ Len(u) = m + 1 /\ \A j \in 1..(m + 1) : u[j] = g[t[j]]
  <2> HIDE DEF g, t, m, u
  <2>1. Vals(g, t) \in Seq(V) /\ Len(Vals(g, t)) = Len(t) /\ \A j \in 1..Len(t) : Vals(g, t)[j] = g[t[j]]
    BY ONLY <1>2, <1>4, ValsTyped
  <2> QED
    BY <1>3, <2>1 DEF u
<1>7. i \in 1..(m + 1)
  OBVIOUS
<1> HIDE DEF t, m, g, old, u
<1>8. /\ new \in Seq(V) /\ Len(new) = m + 1 /\ new[i] = x
      /\ \A j \in 1..(m + 1) : (j < i => new[j] = old[j]) /\ (j > i => new[j] = old[j - 1])
  <2> HIDE DEF new
  <2>1. i \in 1..(Len(old) + 1) /\ old \in Seq(V) /\ x \in V
    BY <1>0, <1>5, <1>7
  <2>2. /\ Ins(old, i, x) \in Seq(V) /\ Len(Ins(old, i, x)) = Len(old) + 1 /\ Ins(old, i, x)[i] = x
        /\ \A j \in 1..(Len(old) + 1) : /\ j < i => Ins(old, i, x)[j] = old[j]
                                        /\ j > i => Ins(old, i, x)[j] = old[j - 1]
    BY ONLY <2>1, InsIs
  <2>3. Len(old) = m
    BY <1>5
  <2> QED
    BY <2>2, <2>3 DEF new
<1> HIDE DEF new
<1>9. ASSUME NEW j \in 1..(m + 1) PROVE u[j] = new[j]
  <2>1. CASE j < i
    <3>1. t[j] = s[j] /\ j \in 1..m /\ new[j] = old[j] /\ u[j] = g[t[j]]
      BY <1>3, <1>6, <1>8, <2>1
    <3>2. s[j] \in ListNodes /\ s[j] # n /\ old[j] = f[s[j]]
      BY <1>1, <1>5, <3>1
    <3> QED
      BY <1>2, <3>1, <3>2
  <2>2. CASE j = i
    BY <1>2, <1>3, <1>6, <1>8, <2>2
  <2>3. CASE j > i
    <3> DEFINE q == j - 1
    <3>1. t[j] = s[q] /\ q \in 1..m /\ new[j] = old[q]
      BY <1>3, <1>8, <2>3
    <3> HIDE DEF q
    <3> QED
      BY ONLY <1>1, <1>2, <1>5, <1>6, <3>1, j \in 1..(m + 1)
  <2>4. j < i \/ j = i \/ j > i
    BY <1>1, <1>7
  <2> QED
    BY <2>1, <2>2, <2>3, <2>4
<1>10. u = new
  BY <1>6, <1>8, <1>9, SameAll
<1> QED
  BY <1>10 DEF u, new, old, t, g

LEMMA InsBacks ==
  ASSUME NEW s, Row(s), NEW n \in ListNodes, n \notin InRow(s),
         NEW f \in [ListNodes -> ListNodes \cup {Null}], Backs(f, s)
  PROVE  Backs([f EXCEPT ![n] = Spot(s, Len(s))], Ins(s, Len(s) + 1, n))
<1> DEFINE m == Len(s)
           o == m + 1
           t == Ins(s, o, n)
           g == [f EXCEPT ![n] = Spot(s, m)]
<1>1. s \in Seq(ListNodes) /\ m \in Nat /\ (\A j \in 1..m : s[j] \in ListNodes /\ s[j] # n)
  BY RowTyped DEF InRow
<1>2. g[n] = Spot(s, m) /\ \A y \in ListNodes : y # n => g[y] = f[y]
  OBVIOUS
<1>5. o \in 1..(Len(s) + 1) /\ o = m + 1
  BY <1>1
<1>3. Len(t) = m + 1 /\ t[o] = n /\ \A j \in 1..(m + 1) : j < o => t[j] = s[j] /\ j \in 1..m
  <2> HIDE DEF o
  <2> QED
    BY <1>1, <1>5, InsIs
<1>4. (\A j : Spot(s, j) = IF j \in 1..m THEN s[j] ELSE Null) /\ (\A j : Spot(t, j) = IF j \in 1..(m + 1) THEN t[j] ELSE Null)
  BY <1>3 DEF Spot
<1>6. \A j \in 1..m : f[s[j]] = Spot(s, j - 1)
  BY DEF Backs
<1> HIDE DEF m, o, t, g
<1>7. ASSUME NEW j \in 1..(m + 1) PROVE g[t[j]] = Spot(t, j - 1)
  <2> DEFINE q == j - 1
  <2>1. q \in 0..m /\ (q \in 1..m <=> q \in 1..(m + 1)) /\ (q \in 1..(m + 1) => q < o)
    BY <1>1, <1>5
  <2> HIDE DEF q
  <2>2. Spot(t, q) = Spot(s, q)
    BY <1>3, <1>4, <2>1
  <2>3. CASE j = o
    <3>1. q = m
      BY <1>1, <1>5, <2>3 DEF q
    <3> QED
      BY <1>2, <1>3, <2>2, <2>3, <3>1 DEF q
  <2>4. CASE j < o
    <3>1. t[j] = s[j] /\ j \in 1..m
      BY <1>3, <2>4
    <3> QED
      BY <1>1, <1>2, <1>6, <2>2, <3>1 DEF q
  <2>5. j = o \/ j < o
    BY <1>1, <1>5
  <2> QED
    BY <2>3, <2>4, <2>5
<1> QED
  BY <1>3, <1>7 DEF Backs, g, t, o, m

-----------------------------------------------------------------------------
\* A node less in a row.
LEMMA DelRow ==
  ASSUME NEW s, Row(s), NEW i \in 1..Len(s)
  PROVE  Row(Del(s, i)) /\ InRow(Del(s, i)) = InRow(s) \ {s[i]}
<1> DEFINE t == Del(s, i)
           m == Len(s)
<1>1. s \in Seq(ListNodes) /\ m \in Nat /\ (\A j \in 1..m : s[j] \in ListNodes) /\ i \in 1..m
  BY RowTyped
<1>2. \A j, k \in 1..m : s[j] = s[k] => j = k
  BY DEF Row
<1>3. /\ t \in Seq(ListNodes) /\ Len(t) = m - 1
      /\ \A j \in 1..(m - 1) : (j < i => t[j] = s[j]) /\ (j >= i => t[j] = s[j + 1]) /\ j \in 1..m /\ j + 1 \in 1..m
  BY <1>1, DelIs
<1> HIDE DEF t, m
<1>4. ASSUME NEW j \in 1..(m - 1), NEW k \in 1..(m - 1), t[j] = t[k], j < k PROVE FALSE
  <2>1. CASE k < i
    <3>1. s[j] = s[k] /\ j \in 1..m /\ k \in 1..m /\ j # k
      BY <1>1, <1>3, <1>4, <2>1
    <3> QED
      BY <1>2, <3>1
  <2>2. CASE j < i /\ k >= i
    <3>1. s[j] = s[k + 1] /\ j \in 1..m /\ k + 1 \in 1..m /\ j # k + 1
      BY <1>1, <1>3, <1>4, <2>2
    <3> QED
      BY <1>2, <3>1
  <2>3. CASE j >= i
    <3>1. s[j + 1] = s[k + 1] /\ j + 1 \in 1..m /\ k + 1 \in 1..m /\ j + 1 # k + 1
      BY <1>1, <1>3, <1>4, <2>3
    <3> QED
      BY <1>2, <3>1
  <2>4. k < i \/ (j < i /\ k >= i) \/ j >= i
    BY <1>1
  <2> QED
    BY <2>1, <2>2, <2>3, <2>4
<1>5. \A j, k \in 1..(m - 1) : t[j] = t[k] => j = k
  <2> SUFFICES ASSUME NEW j \in 1..(m - 1), NEW k \in 1..(m - 1), t[j] = t[k] PROVE j = k
    OBVIOUS
  <2>1. ~(j < k) /\ ~(k < j)
    BY <1>4
  <2> QED
    BY <1>1, <2>1
<1>6. Row(t)
  BY <1>3, <1>5 DEF Row
<1>7. InRow(t) = InRow(s) \ {s[i]}
  <2>1. InRow(t) = {t[j] : j \in 1..(m - 1)} /\ InRow(s) = {s[j] : j \in 1..m}
    BY <1>3 DEF InRow, m
  <2>2. ASSUME NEW j \in 1..(m - 1) PROVE t[j] \in InRow(s) \ {s[i]}
    <3>1. CASE j < i
      <4>1. t[j] = s[j] /\ j \in 1..m /\ j # i
        BY <1>1, <1>3, <3>1
      <4> QED
        BY <1>1, <1>2, <2>1, <4>1
    <3>2. CASE j >= i
      <4>1. t[j] = s[j + 1] /\ j + 1 \in 1..m /\ j + 1 # i
        BY <1>1, <1>3, <3>2
      <4> QED
        BY <1>1, <1>2, <2>1, <4>1
    <3>3. j < i \/ j >= i
      BY <1>1
    <3> QED
      BY <3>1, <3>2, <3>3
  <2>3. ASSUME NEW j \in 1..m, j # i PROVE s[j] \in InRow(t)
    <3>1. CASE j < i
      <4>1. j \in 1..(m - 1)
        BY <1>1, <3>1
      <4>2. t[j] = s[j]
        BY <1>3, <3>1, <4>1
      <4> QED
        BY <2>1, <4>1, <4>2
    <3>2. CASE j > i
      <4> DEFINE q == j - 1
      <4>1. q \in 1..(m - 1) /\ q >= i /\ q + 1 = j
        BY <1>1, <3>2
      <4> HIDE DEF q
      <4>2. t[q] = s[j]
        BY <1>3, <4>1
      <4> QED
        BY <2>1, <4>1, <4>2
    <3>3. j < i \/ j > i
      BY <1>1, <2>3
    <3> QED
      BY <3>1, <3>2, <3>3
  <2> QED
    BY <2>1, <2>2, <2>3
<1> QED
  BY <1>6, <1>7 DEF t

LEMMA DelLeads ==
  ASSUME NEW s, Row(s), NEW i \in 1..Len(s), Null \notin ListNodes,
         NEW f \in [ListNodes -> ListNodes \cup {Null}], NEW a, Leads(f, a, s),
         NEW g, NEW b,
         IF i = 1 THEN b = f[s[i]] /\ g = [f EXCEPT ![s[i]] = Null]
         ELSE b = a /\ g = [f EXCEPT ![s[i - 1]] = f[s[i]], ![s[i]] = Null]
  PROVE  Leads(g, b, Del(s, i)) /\ g \in [ListNodes -> ListNodes \cup {Null}]
<1> DEFINE t == Del(s, i)
           m == Len(s)
<1>1. s \in Seq(ListNodes) /\ m \in Nat /\ (\A j \in 1..m : s[j] \in ListNodes) /\ i \in 1..m
  BY RowTyped
<1>2. \A j, k \in 1..m : s[j] = s[k] => j = k
  BY DEF Row
<1>4. /\ Len(t) = m - 1
      /\ \A j \in 1..(m - 1) : (j < i => t[j] = s[j]) /\ (j >= i => t[j] = s[j + 1]) /\ j \in 1..m /\ j + 1 \in 1..m
  <2> HIDE DEF t
  <2>1. s \in Seq(ListNodes)
    BY <1>1
  <2>2. /\ Len(Del(s, i)) = Len(s) - 1
        /\ \A j \in 1..(Len(s) - 1) :  /\ j < i => Del(s, i)[j] = s[j]
                                       /\ j >= i => Del(s, i)[j] = s[j + 1]
                                       /\ j \in 1..Len(s) /\ j + 1 \in 1..Len(s)
    BY ONLY <2>1, i \in 1..Len(s), DelIs
  <2> QED
    BY <2>2 DEF t
<1>6. a = Spot(s, 1) /\ \A j \in 1..m : f[s[j]] = Spot(s, j + 1)
  BY DEF Leads
<1>8. \A j : Spot(s, j) = IF j \in 1..m THEN s[j] ELSE Null
  BY DEF Spot
<1>9. \A j : Spot(t, j) = IF j \in 1..(m - 1) THEN t[j] ELSE Null
  BY <1>4 DEF Spot
<1> HIDE DEF t, m
<1>3. ASSUME NEW j \in 1..(m - 1), j >= i, j + 1 # i PROVE f[t[j]] = Spot(t, j + 1) /\ t[j] # s[i] /\ t[j] \in ListNodes
                                                   /\ (i # 1 => t[j] # s[i - 1])
  <2>1. t[j] = s[j + 1] /\ j + 1 \in 1..m /\ ((j + 1) + 1 \in 1..m <=> j + 1 \in 1..(m - 1)) /\ j + 1 >= i
    BY <1>1, <1>3, <1>4
  <2>2. Spot(t, j + 1) = Spot(s, (j + 1) + 1)
    BY <1>4, <1>8, <1>9, <2>1
  <2>3. i # 1 => i - 1 \in 1..m /\ j + 1 # i - 1
    BY <1>1, <1>3
  <2> QED
    BY <1>1, <1>2, <1>3, <1>6, <2>1, <2>2, <2>3
<1>5. Spot(s, i + 1) = Spot(t, i)
  <2>1. (i + 1 \in 1..m <=> i \in 1..(m - 1)) /\ i >= i
    BY <1>1
  <2> QED
    BY <1>4, <1>8, <1>9, <2>1
<1>7. f[s[i]] = Spot(t, i) /\ f[s[i]] \in ListNodes \cup {Null}
  BY <1>1, <1>5, <1>6
<1>10. CASE i = 1
  <2>1. b = f[s[i]] /\ g = [f EXCEPT ![s[i]] = Null]
    BY <1>10
  <2>2. g \in [ListNodes -> ListNodes \cup {Null}] /\ \A x \in ListNodes : x # s[i] => g[x] = f[x]
    BY <2>1
  <2>3. b = Spot(t, 1)
    BY <1>7, <1>10, <2>1
  <2>4. ASSUME NEW j \in 1..(m - 1) PROVE g[t[j]] = Spot(t, j + 1)
    <3>1. j >= i /\ j + 1 # i
      BY <1>1, <1>10
    <3> QED
      BY <1>3, <2>2, <3>1
  <2> QED
    BY <1>4, <2>2, <2>3, <2>4 DEF Leads, t
<1>11. CASE i # 1
  <2> DEFINE h == i - 1
  <2>1. h \in 1..m /\ h + 1 = i /\ h # i /\ h \in 1..(m - 1) /\ h < i
    BY <1>1, <1>11
  <2>2. b = a /\ g = [f EXCEPT ![s[h]] = f[s[i]], ![s[i]] = Null] /\ s[h] \in ListNodes /\ s[i] \in ListNodes /\ s[h] # s[i]
    BY <1>1, <1>2, <1>11, <2>1
  <2>h. \A j \in 1..(m - 1) : j >= i /\ j + 1 # i => t[j] # s[h]
    BY <1>3, <1>11
  <2> HIDE DEF h
  <2>3. /\ g \in [ListNodes -> ListNodes \cup {Null}] /\ g[s[h]] = f[s[i]]
        /\ \A x \in ListNodes : x # s[h] /\ x # s[i] => g[x] = f[x]
    BY <1>7, <2>2
  <2>4. b = Spot(t, 1)
    <3>1. 1 < i /\ 1 \in 1..(m - 1) /\ 1 \in 1..m
      BY <1>1, <1>11
    <3> QED
      BY <1>4, <1>6, <1>8, <1>9, <2>2, <3>1
  <2>5. ASSUME NEW j \in 1..(m - 1) PROVE g[t[j]] = Spot(t, j + 1)
    <3>1. CASE j < h
      <4>1. j < i /\ j + 1 < i /\ j \in 1..m /\ j + 1 \in 1..(m - 1) /\ j + 1 \in 1..m /\ j # i /\ j # h
        BY <1>1, <2>1, <3>1
      <4>2. t[j] = s[j] /\ Spot(t, j + 1) = s[j + 1] /\ Spot(s, j + 1) = s[j + 1]
        BY <1>4, <1>8, <1>9, <4>1
      <4>3. s[j] # s[i] /\ s[j] # s[h] /\ s[j] \in ListNodes
        BY <1>1, <1>2, <2>1, <4>1
      <4> QED
        BY <1>6, <2>3, <4>1, <4>2, <4>3
    <3>2. CASE j = h
      <4>1. t[j] = s[h] /\ j + 1 = i
        BY <1>4, <2>1, <3>2
      <4> QED
        BY <1>7, <2>3, <4>1
    <3>3. CASE j >= i
      <4>1. j + 1 # i
        BY <1>1, <3>3
      <4> QED
        BY <1>3, <2>3, <2>h, <3>3, <4>1
    <3>4. j < h \/ j = h \/ j >= i
      BY <1>1, <2>1
    <3> QED
      BY <3>1, <3>2, <3>3, <3>4
  <2> QED
    BY <1>4, <2>3, <2>4, <2>5 DEF Leads, t
<1> QED
  BY <1>10, <1>11

LEMMA DelVals ==
  ASSUME NEW s, Row(s), NEW i \in 1..Len(s), NEW V, NEW f \in [ListNodes -> V], NEW x
  PROVE  Vals([f EXCEPT ![s[i]] = x], Del(s, i)) = Del(Vals(f, s), i)
<1> DEFINE t == Del(s, i)
           m == Len(s)
           g == [f EXCEPT ![s[i]] = x]
           old == Vals(f, s)
           new == Del(old, i)
           u == Vals(g, t)
           W == V \cup {x}
<1>1. s \in Seq(ListNodes) /\ m \in Nat /\ (\A j \in 1..m : s[j] \in ListNodes) /\ i \in 1..m
  BY RowTyped
<1>2. \A j, k \in 1..m : s[j] = s[k] => j = k
  BY DEF Row
<1>3. g \in [ListNodes -> W] /\ \A y \in ListNodes : y # s[i] => g[y] = f[y]
  BY <1>1
<1>4. /\ t \in Seq(ListNodes) /\ Len(t) = m - 1
      /\ \A j \in 1..(m - 1) : (j < i => t[j] = s[j]) /\ (j >= i => t[j] = s[j + 1]) /\ j \in 1..m /\ j + 1 \in 1..m
  BY <1>1, DelIs
<1>5. Row(t)
  BY DelRow
<1>6. old \in Seq(V) /\ Len(old) = m /\ \A j \in 1..m : old[j] = f[s[j]]
  BY ValsTyped
<1>12. old \in Seq(W)
  <2> HIDE DEF old
  <2> QED
    BY <1>6
<1>7. u \in Seq(W) /\ Len(u) = m - 1 /\ \A j \in 1..(m - 1) : u[j] = g[t[j]]
  <2> HIDE DEF g, t, m, u, W
  <2>1. Vals(g, t) \in Seq(W) /\ Len(Vals(g, t)) = Len(t) /\ \A j \in 1..Len(t) : Vals(g, t)[j] = g[t[j]]
    BY <1>3, <1>5, ValsTyped
  <2> QED
    BY <1>4, <2>1 DEF u
<1> HIDE DEF t, m, g, old, u, W
<1>8. /\ new \in Seq(W) /\ Len(new) = m - 1
      /\ \A j \in 1..(m - 1) : (j < i => new[j] = old[j]) /\ (j >= i => new[j] = old[j + 1])
  <2>1. i \in 1..Len(old)
    BY <1>1, <1>6
  <2> QED
    BY <1>6, <1>12, <2>1, DelIs
<1> HIDE DEF new
<1>9. ASSUME NEW j \in 1..(m - 1) PROVE u[j] = new[j]
  <2>1. CASE j < i
    <3>1. t[j] = s[j] /\ j \in 1..m /\ j # i /\ s[j] # s[i] /\ s[j] \in ListNodes
      BY <1>1, <1>2, <1>4, <2>1
    <3> QED
      BY <1>3, <1>6, <1>7, <1>8, <2>1, <3>1
  <2>2. CASE j >= i
    <3> DEFINE q == j + 1
    <3>1. t[j] = s[q] /\ q \in 1..m /\ q # i /\ new[j] = old[q]
      BY <1>1, <1>4, <1>8, <2>2
    <3> HIDE DEF q
    <3>2. s[q] # s[i] /\ s[q] \in ListNodes
      BY <1>1, <1>2, <3>1
    <3> QED
      BY <1>3, <1>6, <1>7, <3>1, <3>2
  <2>3. j < i \/ j >= i
    BY <1>1
  <2> QED
    BY <2>1, <2>2, <2>3
<1>10. u = new
  BY <1>7, <1>8, <1>9, SameAll
<1> QED
  BY <1>10 DEF u, new, old, t, g

LEMMA DelBacks ==
  ASSUME NEW s, Row(s), s # <<>>, NEW f \in [ListNodes -> ListNodes \cup {Null}], Backs(f, s)
  PROVE  Backs([f EXCEPT ![s[Len(s)]] = Null], Del(s, Len(s)))
<1> DEFINE m == Len(s)
           t == Del(s, m)
           g == [f EXCEPT ![s[m]] = Null]
<1>1. s \in Seq(ListNodes) /\ m \in Nat /\ (\A j \in 1..m : s[j] \in ListNodes) /\ m \in 1..m
  <2>1. s \in Seq(ListNodes) /\ m \in Nat /\ (\A j \in 1..m : s[j] \in ListNodes)
    BY RowTyped
  <2>2. m # 0
    BY <2>1
  <2> QED
    BY <2>1, <2>2
<1>2. \A j, k \in 1..m : s[j] = s[k] => j = k
  BY DEF Row
<1>3. \A y \in ListNodes : y # s[m] => g[y] = f[y]
  OBVIOUS
<1>4. Len(t) = m - 1 /\ \A j \in 1..(m - 1) : (j < m => t[j] = s[j]) /\ j \in 1..m
  <2> HIDE DEF t
  <2>1. /\ Len(Del(s, m)) = Len(s) - 1
        /\ \A j \in 1..(Len(s) - 1) : (j < m => Del(s, m)[j] = s[j]) /\ j \in 1..Len(s)
    BY <1>1, DelIs
  <2> QED
    BY <2>1 DEF t
<1>5. (\A j : Spot(s, j) = IF j \in 1..m THEN s[j] ELSE Null) /\ (\A j : Spot(t, j) = IF j \in 1..(m - 1) THEN t[j] ELSE Null)
  BY <1>4 DEF Spot
<1>6. \A j \in 1..m : f[s[j]] = Spot(s, j - 1)
  BY DEF Backs
<1> HIDE DEF m, t, g
<1>7. ASSUME NEW j \in 1..(m - 1) PROVE g[t[j]] = Spot(t, j - 1)
  <2> DEFINE q == j - 1
  <2>1. j < m /\ j \in 1..m /\ j # m /\ (q \in 1..m <=> q \in 1..(m - 1)) /\ (q \in 1..(m - 1) => q < m)
    BY <1>1
  <2>2. s[j] # s[m] /\ s[j] \in ListNodes /\ t[j] = s[j] /\ f[s[j]] = Spot(s, q)
    BY <1>1, <1>2, <1>4, <1>6, <2>1
  <2> HIDE DEF q
  <2>3. Spot(t, q) = Spot(s, q)
    BY <1>4, <1>5, <2>1
  <2> QED
    BY <1>3, <2>2, <2>3 DEF q
<1> QED
  BY <1>4, <1>7 DEF Backs, g, t, m

\* In a sound list with pointers back, following those gives the row reversed.
LEMMA BackIs ==
  ASSUME Lst!ListsAssumption, NEW s, Row(s), NEW f, Backs(f, s)
  PROVE  Lst!Follow(f, Spot(s, Len(s))) = Lst!Reverse(s)
<1> DEFINE m == Len(s)
           r == Lst!Reverse(s)
<1>1. s \in Seq(ListNodes) /\ m \in Nat /\ (\A j \in 1..m : s[j] \in ListNodes)
  BY RowTyped
<1>2. \A j, k \in 1..m : s[j] = s[k] => j = k
  BY DEF Row
<1>3. r = [j \in 1..m |-> s[m - j + 1]]
  BY DEF Lst!Reverse
<1> HIDE DEF m, r
<1>4. \A j \in 1..m : m - j + 1 \in 1..m
  BY <1>1
<1>5. r \in [1..m -> ListNodes] /\ \A j \in 1..m : r[j] = s[m - j + 1]
  BY <1>1, <1>3, <1>4
<1>6. r \in Seq(ListNodes) /\ Len(r) = m
  BY <1>1, <1>5
<1>7. \A j, k \in 1..m : r[j] = r[k] => j = k
  <2> SUFFICES ASSUME NEW j \in 1..m, NEW k \in 1..m, r[j] = r[k] PROVE j = k
    OBVIOUS
  <2>1. m - j + 1 = m - k + 1
    BY <1>2, <1>4, <1>5
  <2> QED
    BY <1>1, <2>1
<1>8. Row(r)
  BY <1>6, <1>7 DEF Row
<1>9. (\A j : Spot(s, j) = IF j \in 1..m THEN s[j] ELSE Null) /\ (\A j : Spot(r, j) = IF j \in 1..m THEN r[j] ELSE Null)
  BY <1>6 DEF Spot, m
<1>10. \A j \in 1..m : f[s[j]] = Spot(s, j - 1)
  BY DEF Backs, m
<1>11. Spot(s, m) = Spot(r, 1)
  <2>1. (m \in 1..m <=> 1 \in 1..m) /\ m - 1 + 1 = m
    BY <1>1
  <2> QED
    BY <1>5, <1>9, <2>1
<1>12. ASSUME NEW j \in 1..m PROVE f[r[j]] = Spot(r, j + 1)
  <2> DEFINE k == m - j + 1
             q == k - 1
  <2>1. k \in 1..m /\ (q \in 1..m <=> j + 1 \in 1..m) /\ m - (j + 1) + 1 = q /\ r[j] = s[k]
    BY <1>1, <1>5
  <2>2. f[s[k]] = Spot(s, q)
    BY <1>10, <2>1
  <2> HIDE DEF k, q
  <2>3. Spot(s, q) = Spot(r, j + 1)
    BY <1>5, <1>9, <2>1
  <2> QED
    BY <2>1, <2>2, <2>3
<1>13. Leads(f, Spot(s, m), r)
  BY <1>6, <1>11, <1>12 DEF Leads
<1> QED
  BY <1>8, <1>13, FollowIs DEF r, m

-----------------------------------------------------------------------------
\* The state of a list whose row is s: p is its program, a its first node and z its last,
\* f and b are the pointers on and back, k is the count and set what is allocated.
InShape(s, p, a, z, f, b, k, set) ==
  /\ Row(s) /\ Leads(f, a, s) /\ set = InRow(s)
  /\ p = "stack" => z = Spot(s, Len(s))
  /\ p \in {"stack", "doubly"} => Backs(b, s)
  /\ p = "counted" => k = Len(s)

Shaped(s) == InShape(s, lprogram, lroot, ltail, lnext, lprev, lcount, lalive)

\* The memory of the nodes.
Pointers == [ListNodes -> ListNodes \cup {Null}]
CellsTyped == lnext \in Pointers /\ lprev \in Pointers /\ lvalue = [n \in ListNodes |-> lvalue[n]]

LEMMA ChainIs ==
  ASSUME Lst!ListsAssumption, NEW s, Row(s), Leads(lnext, lroot, s)
  PROVE  Lst!Chain = s /\ Lst!Contents = Vals(lvalue, s)
<1>1. Lst!Follow(lnext, lroot) = s
  BY FollowIs
<1> QED
  BY <1>1 DEF Lst!Chain, Lst!Contents, Lst!ValuesOf, Vals

LEMMA NextChainIs ==
  ASSUME Lst!ListsAssumption, NEW s, Row(s), Leads(lnext', lroot', s)
  PROVE  Lst!Contents' = Vals(lvalue', s)
<1>1. Lst!Follow(lnext', lroot') = s
  BY FollowIs
<1> QED
  BY <1>1 DEF Lst!Chain, Lst!Contents, Lst!ValuesOf, Vals

\* The values a list holds, of what kind ever they are.
Kinds == {lvalue[n] : n \in ListNodes}

LEMMA HeldTyped ==
  ASSUME CellsTyped, NEW s, Row(s)
  PROVE  /\ lvalue \in [ListNodes -> Kinds]
         /\ Vals(lvalue, s) \in Seq(Kinds) /\ Len(Vals(lvalue, s)) = Len(s) /\ Len(s) \in Nat
         /\ \A j \in 1..Len(s) : Vals(lvalue, s)[j] = lvalue[s[j]] /\ s[j] \in ListNodes
<1>1. lvalue \in [ListNodes -> Kinds]
  <2>1. \A n \in ListNodes : lvalue[n] \in Kinds
    BY DEF Kinds
  <2>2. lvalue = [n \in ListNodes |-> lvalue[n]]
    BY DEF CellsTyped
  <2> QED
    BY <2>1, <2>2
<1>2. Len(s) \in Nat /\ \A j \in 1..Len(s) : s[j] \in ListNodes
  BY RowTyped
<1> QED
  BY <1>1, <1>2, ValsTyped

LEMMA FreshIs ==
  ASSUME NEW s, Row(s), lalive = InRow(s), lalive # ListNodes
  PROVE  Lst!Fresh \in ListNodes /\ Lst!Fresh \notin InRow(s)
<1>1. InRow(s) \subseteq ListNodes
  BY RowTyped DEF InRow
<1>2. \E n \in ListNodes : n \notin lalive
  BY <1>1
<1> QED
  BY <1>2 DEF Lst!Fresh

\* A node linked in: the row and the values have one more, at its place.
LEMMA LinkAtIs ==
  ASSUME Lst!ListsAssumption, CellsTyped, NEW s, Row(s), Leads(lnext, lroot, s), lalive = InRow(s), lalive # ListNodes,
         NEW v, NEW i \in 0..Len(s), Lst!LinkAt(v, i)
  PROVE  /\ Lst!Fresh \in ListNodes /\ Lst!Fresh \notin InRow(s) /\ Len(s) \in Nat
         /\ Row(Ins(s, i + 1, Lst!Fresh)) /\ Leads(lnext', lroot', Ins(s, i + 1, Lst!Fresh))
         /\ lalive' = InRow(Ins(s, i + 1, Lst!Fresh)) /\ lnext' \in Pointers /\ lvalue' = [n \in ListNodes |-> lvalue'[n]]
         /\ Len(Ins(s, i + 1, Lst!Fresh)) = Len(s) + 1
         /\ Lst!Contents' = Lst!InsertAt(Lst!Contents, i + 1, v)
         /\ i = Len(s) => Lst!Contents' = Append(Lst!Contents, v)
         /\ i = 0 => Lst!Contents' = <<v>> \o Lst!Contents
<1> DEFINE n == Lst!Fresh
           o == i + 1
           t == Ins(s, o, n)
           V == Kinds \cup {v}
<1>1. n \in ListNodes /\ n \notin InRow(s)
  BY FreshIs
<1>2. Null \notin ListNodes
  BY NodesFinite
<1>3. Lst!Chain = s /\ Lst!Contents = Vals(lvalue, s)
  BY ChainIs
<1>4. s \in Seq(ListNodes) /\ Len(s) \in Nat /\ (\A j \in 1..Len(s) : s[j] \in ListNodes) /\ o \in 1..(Len(s) + 1)
  BY RowTyped
<1>5. /\ lalive' = lalive \cup {n} /\ lvalue' = [lvalue EXCEPT ![n] = v]
      /\ IF i = 0 THEN lroot' = n /\ lnext' = [lnext EXCEPT ![n] = lroot]
         ELSE lroot' = lroot /\ lnext' = [lnext EXCEPT ![n] = lnext[s[i]], ![s[i]] = n]
  BY <1>3 DEF Lst!LinkAt
<1>6. lnext \in [ListNodes -> ListNodes \cup {Null}]
  BY DEF CellsTyped, Pointers
<1> HIDE DEF n
<1>7. Leads(lnext', lroot', t) /\ lnext' \in Pointers
  <2>1. Leads(lnext', lroot', Ins(s, i + 1, n)) /\ lnext' \in [ListNodes -> ListNodes \cup {Null}]
    <3>1. Row(s) /\ Leads(lnext, lroot, s) /\ i \in 0..Len(s)
      OBVIOUS
    <3> QED
      BY ONLY <1>1, <1>2, <1>5, <1>6, <3>1, InsLeads
  <2> QED
    BY <2>1 DEF Pointers
<1>8. Row(t) /\ InRow(t) = InRow(s) \cup {n}
  <2> HIDE DEF o
  <2> QED
    BY <1>1, <1>4, InsRow
<1>9. Len(t) = Len(s) + 1
  <2> HIDE DEF o
  <2> QED
    BY <1>1, <1>4, InsIs
<1>10. lvalue \in [ListNodes -> V]
  BY HeldTyped
<1>11. lvalue' \in [ListNodes -> V] /\ lvalue' = [m \in ListNodes |-> lvalue'[m]]
  BY <1>1, <1>5, <1>10
<1>12. Vals(lvalue, s) \in Seq(V) /\ Len(Vals(lvalue, s)) = Len(s) /\ v \in V
  <2> HIDE DEF V
  <2> QED
    BY <1>10, ValsTyped DEF V
<1> HIDE DEF t, V, o
<1>13. Lst!Contents' = Vals(lvalue', t)
  BY <1>7, <1>8, NextChainIs
<1>14. Vals(lvalue', t) = Ins(Vals(lvalue, s), o, v)
  <2>1. Row(s) /\ n \in ListNodes /\ n \notin InRow(s) /\ o \in 1..(Len(s) + 1) /\ v \in V
    BY <1>1, <1>4, <1>12
  <2>2. lvalue = [m \in ListNodes |-> lvalue[m]]
    BY DEF CellsTyped
  <2>3. Vals([lvalue EXCEPT ![n] = v], Ins(s, o, n)) = Ins(Vals(lvalue, s), o, v)
    BY ONLY <2>1, <2>2, InsVals
  <2> QED
    BY <1>5, <2>3 DEF t
<1>15. Lst!InsertAt(Vals(lvalue, s), o, v) = Ins(Vals(lvalue, s), o, v)
  <2> DEFINE u == Vals(lvalue, s)
  <2>1. u \in Seq(V) /\ o \in 1..(Len(u) + 1) /\ v \in V
    BY <1>4, <1>12
  <2> HIDE DEF u
  <2>2. Lst!InsertAt(u, o, v) = Ins(u, o, v)
    BY <2>1, InsertAtIs
  <2> QED
    BY <2>2 DEF u
<1>16. i = Len(s) => Ins(Vals(lvalue, s), o, v) = Append(Vals(lvalue, s), v)
  <2> DEFINE u == Vals(lvalue, s)
  <2>1. u \in Seq(V) /\ v \in V /\ (i = Len(s) => o = Len(u) + 1)
    BY <1>12 DEF o
  <2> HIDE DEF u
  <2>2. Append(u, v) = Ins(u, Len(u) + 1, v)
    BY <2>1, InsAtEnd
  <2> QED
    BY <2>1, <2>2 DEF u
<1>17. i = 0 => Ins(Vals(lvalue, s), o, v) = <<v>> \o Vals(lvalue, s)
  <2> DEFINE u == Vals(lvalue, s)
  <2>1. u \in Seq(V) /\ v \in V /\ (i = 0 => o = 1)
    BY <1>12 DEF o
  <2> HIDE DEF u
  <2>2. <<v>> \o u = Ins(u, 1, v)
    BY <2>1, InsInFront
  <2> QED
    BY <2>1, <2>2 DEF u
<1>18. lalive' = InRow(t)
  BY <1>5, <1>8
<1>19. Lst!Contents' = Ins(Lst!Contents, o, v)
  BY <1>3, <1>13, <1>14
<1>20. /\ Lst!InsertAt(Lst!Contents, o, v) = Ins(Lst!Contents, o, v)
       /\ i = Len(s) => Ins(Lst!Contents, o, v) = Append(Lst!Contents, v)
       /\ i = 0 => Ins(Lst!Contents, o, v) = <<v>> \o Lst!Contents
  BY <1>3, <1>15, <1>16, <1>17
<1>21. /\ Lst!Contents' = Lst!InsertAt(Lst!Contents, o, v)
       /\ i = Len(s) => Lst!Contents' = Append(Lst!Contents, v)
       /\ i = 0 => Lst!Contents' = <<v>> \o Lst!Contents
  BY <1>19, <1>20
<1> QED
  BY <1>1, <1>4, <1>7, <1>8, <1>9, <1>11, <1>18, <1>21 DEF t, o, n

\* A node taken out: the row and the values are without it.
LEMMA UnlinkAtIs ==
  ASSUME Lst!ListsAssumption, CellsTyped, NEW s, Row(s), Leads(lnext, lroot, s), lalive = InRow(s),
         NEW i \in 1..Len(s), Lst!UnlinkAt(i)
  PROVE  /\ Row(Del(s, i)) /\ Leads(lnext', lroot', Del(s, i))
         /\ lalive' = InRow(Del(s, i)) /\ lnext' \in Pointers /\ lvalue' = [n \in ListNodes |-> lvalue'[n]]
         /\ Len(Del(s, i)) = Len(s) - 1 /\ Len(s) \in Nat
         /\ Lst!Contents' = Del(Lst!Contents, i) /\ Lst!Contents' = Lst!RemoveAt(Lst!Contents, i)
<1> DEFINE t == Del(s, i)
           n == s[i]
<1>1. s \in Seq(ListNodes) /\ Len(s) \in Nat /\ (\A j \in 1..Len(s) : s[j] \in ListNodes) /\ n \in ListNodes
  BY RowTyped
<1>2. Null \notin ListNodes
  BY NodesFinite
<1>3. Lst!Chain = s /\ Lst!Contents = Vals(lvalue, s)
  BY ChainIs
<1>4. /\ lalive' = lalive \ {s[i]} /\ lvalue' = [lvalue EXCEPT ![s[i]] = 0]
      /\ IF i = 1 THEN lroot' = lnext[s[i]] /\ lnext' = [lnext EXCEPT ![s[i]] = Null]
         ELSE lroot' = lroot /\ lnext' = [lnext EXCEPT ![s[i - 1]] = lnext[s[i]], ![s[i]] = Null]
  BY <1>3 DEF Lst!UnlinkAt
<1>5. lnext \in [ListNodes -> ListNodes \cup {Null}]
  BY DEF CellsTyped, Pointers
<1>6. Leads(lnext', lroot', t) /\ lnext' \in Pointers
  BY <1>2, <1>4, <1>5, DelLeads DEF Pointers
<1>7. Row(t) /\ InRow(t) = InRow(s) \ {s[i]}
  BY DelRow
<1>8. Len(t) = Len(s) - 1
  BY <1>1, DelIs
<1>9. lvalue \in [ListNodes -> Kinds] /\ Vals(lvalue, s) \in Seq(Kinds) /\ Len(Vals(lvalue, s)) = Len(s)
  BY HeldTyped
<1>10. lvalue' = [m \in ListNodes |-> lvalue'[m]]
  BY <1>4, <1>9
<1> HIDE DEF t
<1>11. Lst!Contents' = Vals(lvalue', t)
  BY <1>6, <1>7, NextChainIs
<1>12. Vals(lvalue', t) = Del(Vals(lvalue, s), i)
  <2>1. Vals([lvalue EXCEPT ![s[i]] = 0], Del(s, i)) = Del(Vals(lvalue, s), i)
    BY <1>9, DelVals
  <2> QED
    BY <1>4, <2>1 DEF t
<1>13. Lst!RemoveAt(Vals(lvalue, s), i) = Del(Vals(lvalue, s), i)
  <2> DEFINE u == Vals(lvalue, s)
  <2>1. u \in Seq(Kinds) /\ i \in 1..Len(u)
    BY <1>9
  <2> HIDE DEF u
  <2>2. Lst!RemoveAt(u, i) = Del(u, i)
    BY <2>1, RemoveAtIs
  <2> QED
    BY <2>2 DEF u
<1>14. lalive' = InRow(t)
  BY <1>4, <1>7
<1>15. Lst!Contents' = Del(Lst!Contents, i) /\ Lst!Contents' = Lst!RemoveAt(Lst!Contents, i)
  BY <1>3, <1>11, <1>12, <1>13
<1> QED
  BY <1>1, <1>6, <1>7, <1>8, <1>10, <1>14, <1>15 DEF t

\* What leaves the list alone leaves what it holds.
LEMMA SameIs ==
  ASSUME Lst!Same, UNCHANGED lprogram, CellsTyped, NEW s, Shaped(s)
  PROVE  CellsTyped' /\ InShape(s, lprogram', lroot', ltail', lnext', lprev', lcount', lalive') /\ Lst!Contents' = Lst!Contents
<1>1. /\ lroot' = lroot /\ ltail' = ltail /\ lnext' = lnext /\ lprev' = lprev /\ lvalue' = lvalue
      /\ lcount' = lcount /\ lalive' = lalive /\ lprogram' = lprogram
  BY DEF Lst!Same
<1>2. CellsTyped'
  BY <1>1 DEF CellsTyped
<1>3. InShape(s, lprogram', lroot', ltail', lnext', lprev', lcount', lalive')
  BY <1>1 DEF Shaped
<1>4. Lst!Contents' = Lst!Contents
  BY <1>1 DEF Lst!Contents, Lst!ValuesOf, Lst!Chain
<1> QED
  BY <1>2, <1>3, <1>4

-----------------------------------------------------------------------------
\* What CallRight says of a call c of program p on a list that held what held lists, and
\* holds what then lists after it.
Gone(c, i, had, then) == IF i \in 1..Len(had) THEN c.ok /\ then = Lst!RemoveAt(had, i) ELSE ~c.ok /\ then = had
FirstAt(c, had) == Lst!SelectInSeq(had, LAMBDA x : x = c.v)
Right(c, had, then, p) ==
  /\ c.op = "free" => then = <<>>
  /\ ~c.ok => then = had
  /\ c.ok =>
       /\ c.op \in {"push", "add"} => then = Append(had, c.v)
       /\ c.op = "insert" => then = IF p = "counted" THEN <<c.v>> \o had ELSE Append(had, c.v)
       /\ c.op = "insert_at" => c.i \in 0..Len(had) /\ then = Lst!InsertAt(had, c.i + 1, c.v)
       /\ c.op = "pop" => had = Append(then, c.out[1])
  /\ c.op = "remove" => Gone(c, FirstAt(c, had), had, then)
  /\ c.op = "remove_at" => Gone(c, c.i + 1, had, then)
  /\ c.op = "sort" => Lst!Ascending(then) /\ Lst!SameValues(had, then)
  /\ c.op = "find" => then = had /\ (c.ok <=> FirstAt(c, had) # 0)
  /\ c.op = "print" =>
       /\ then = had
       /\ c.out = CASE p = "stack" -> Lst!Reverse(had)
                    [] p = "doubly" -> had \o Lst!Reverse(had)
                    [] OTHER -> had

LEMMA RightIs == Lst!CallRight <=> Right(lcall', Lst!Contents, Lst!Contents', lprogram)
BY DEF Lst!CallRight, Right, Gone, FirstAt

LEMMA LinkRight ==
  ASSUME NEW c, NEW had, NEW then, NEW p, c.ok,
         \/ c.op \in {"push", "add"} /\ then = Append(had, c.v)
         \/ c.op = "insert" /\ then = IF p = "counted" THEN <<c.v>> \o had ELSE Append(had, c.v)
         \/ c.op = "insert_at" /\ c.i \in 0..Len(had) /\ then = Lst!InsertAt(had, c.i + 1, c.v)
  PROVE  Right(c, had, then, p)
<1>1. CASE c.op \in {"push", "add"} /\ then = Append(had, c.v)
  BY <1>1 DEF Right
<1>2. CASE c.op = "insert" /\ then = IF p = "counted" THEN <<c.v>> \o had ELSE Append(had, c.v)
  BY <1>2 DEF Right
<1>3. CASE c.op = "insert_at" /\ c.i \in 0..Len(had) /\ then = Lst!InsertAt(had, c.i + 1, c.v)
  BY <1>3 DEF Right
<1> QED
  BY <1>1, <1>2, <1>3

LEMMA UnlinkRight ==
  ASSUME NEW c, NEW had, NEW then, NEW p, NEW i \in 1..Len(had), c.ok, then = Lst!RemoveAt(had, i),
         \/ c.op = "remove" /\ i = FirstAt(c, had)
         \/ c.op = "remove_at" /\ i = c.i + 1
  PROVE  Right(c, had, then, p)
<1>1. Gone(c, i, had, then)
  BY DEF Gone
<1>2. CASE c.op = "remove" /\ i = FirstAt(c, had)
  <2>1. Gone(c, FirstAt(c, had), had, then)
    BY <1>1, <1>2
  <2> QED
    BY <1>2, <2>1 DEF Right
<1>3. CASE c.op = "remove_at" /\ i = c.i + 1
  <2>1. Gone(c, c.i + 1, had, then)
    BY <1>1, <1>3
  <2> QED
    BY <1>3, <2>1 DEF Right
<1> QED
  BY <1>2, <1>3

LEMMA AnswerIs ==
  ASSUME NEW c, NEW ok, NEW out, Lst!Answer(c, ok, out)
  PROVE  lcall'.op = c.op /\ lcall'.v = c.v /\ lcall'.i = c.i /\ lcall'.ok = ok /\ lcall'.out = out
BY DEF Lst!Answer

FourLists == {"stack", "counted", "indexed", "doubly"}

LEMMA WhoAsks ==
  ASSUME NEW p \in FourLists, NEW op \in Lst!Operations(p)
  PROVE  /\ op \in {"push", "pop"} => p = "stack"
         /\ op = "find" => p = "doubly"
         /\ op \in {"add", "insert_at", "remove", "remove_at", "sort"} => p = "indexed"
<1>1. CASE p = "stack"
  BY <1>1 DEF Lst!Operations
<1>2. CASE p = "counted"
  BY <1>2 DEF Lst!Operations
<1>3. CASE p = "indexed"
  BY <1>3 DEF Lst!Operations
<1>4. CASE p = "doubly"
  BY <1>4 DEF Lst!Operations
<1> QED
  BY <1>1, <1>2, <1>3, <1>4 DEF FourLists

\* The list as a call c finds it, and as a call leaves it.
Ready(s, c) ==
  /\ Lst!ListsAssumption /\ CellsTyped /\ Shaped(s)
  /\ lprogram \in FourLists /\ c.op \in Lst!Operations(lprogram) /\ lprogram' = lprogram

NextShaped(s) == InShape(s, lprogram, lroot', ltail', lnext', lprev', lcount', lalive')
Good(c) == CellsTyped' /\ (c.op # "free" => \E s : NextShaped(s)) /\ Lst!CallRight

LEMMA RowIs ==
  ASSUME NEW s, NEW c, Ready(s, c)
  PROVE  /\ Row(s) /\ Leads(lnext, lroot, s) /\ lalive = InRow(s) /\ s \in Seq(ListNodes) /\ Len(s) \in Nat
         /\ \A j \in 1..Len(s) : s[j] \in ListNodes
         /\ Lst!Chain = s /\ Lst!Contents = Vals(lvalue, s) /\ Len(Lst!Contents) = Len(s)
         /\ Lst!Contents \in Seq(Kinds)
         /\ lroot = Spot(s, 1) /\ (lroot = Null <=> Len(s) = 0) /\ Null \notin ListNodes
         /\ Spot(s, Len(s)) = IF lroot = Null THEN Null ELSE s[Len(s)]
         /\ lprogram = "stack" => ltail = Spot(s, Len(s)) /\ Backs(lprev, s)
         /\ lprogram = "doubly" => Backs(lprev, s)
         /\ lprogram = "counted" => lcount = Len(s)
<1>1. /\ Row(s) /\ Leads(lnext, lroot, s) /\ lalive = InRow(s)
      /\ lprogram = "stack" => ltail = Spot(s, Len(s)) /\ Backs(lprev, s)
      /\ lprogram = "doubly" => Backs(lprev, s)
      /\ lprogram = "counted" => lcount = Len(s)
  BY DEF Ready, Shaped, InShape
<1>2. CellsTyped /\ Lst!ListsAssumption
  BY DEF Ready
<1>3. s \in Seq(ListNodes) /\ Len(s) \in Nat /\ \A j \in 1..Len(s) : s[j] \in ListNodes
  BY <1>1, RowTyped
<1>4. Lst!Chain = s /\ Lst!Contents = Vals(lvalue, s)
  BY <1>1, <1>2, ChainIs
<1>5. Len(Vals(lvalue, s)) = Len(s) /\ Vals(lvalue, s) \in Seq(Kinds)
  BY <1>1, <1>2, HeldTyped
<1>6. lroot = Spot(s, 1) /\ Null \notin ListNodes
  BY <1>1, <1>2, NodesFinite DEF Leads
<1>7. lroot = Null <=> Len(s) = 0
  BY <1>3, <1>6 DEF Spot
<1>8. Spot(s, Len(s)) = IF lroot = Null THEN Null ELSE s[Len(s)]
  BY <1>3, <1>7 DEF Spot
<1> QED
  BY <1>1, <1>3, <1>4, <1>5, <1>6, <1>7, <1>8

\* A call that fails and leaves everything as it was.
LEMMA FailsIs ==
  ASSUME NEW s, NEW c, Ready(s, c), NEW out, Lst!Answer(c, FALSE, out), Lst!Same,
         c.op \notin {"free", "sort", "print"},
         c.op = "find" => FirstAt(c, Lst!Contents) = 0,
         c.op = "remove" => FirstAt(c, Lst!Contents) \notin 1..Len(Lst!Contents),
         c.op = "remove_at" => c.i + 1 \notin 1..Len(Lst!Contents)
  PROVE  Good(c)
<1>1. lcall'.op = c.op /\ lcall'.v = c.v /\ lcall'.i = c.i /\ lcall'.ok = FALSE
  BY AnswerIs
<1>2. CellsTyped' /\ NextShaped(s) /\ Lst!Contents' = Lst!Contents
  BY SameIs DEF Ready, NextShaped
<1>3. FirstAt(lcall', Lst!Contents) = FirstAt(c, Lst!Contents)
  BY <1>1 DEF FirstAt
<1>4. Right(lcall', Lst!Contents, Lst!Contents', lprogram)
  BY <1>1, <1>2, <1>3 DEF Right, Gone
<1> QED
  BY <1>2, <1>4, RightIs DEF Good

\* A node more, at its place.
LEMMA LinkedGood ==
  ASSUME NEW s, NEW c, Ready(s, c), lalive # ListNodes, NEW i \in 0..Len(s), Lst!LinkAt(c.v, i), Lst!Answer(c, TRUE, <<>>), lprev' \in Pointers,
         \/ c.op \in {"push", "add"} /\ i = Len(s)
         \/ c.op = "insert" /\ i = IF lprogram = "counted" THEN 0 ELSE Len(s)
         \/ c.op = "insert_at" /\ i = c.i,
         lprogram = "stack" => ltail' = Lst!Fresh /\ i = Len(s),
         lprogram \in {"stack", "doubly"} => i = Len(s) /\ lprev' = [lprev EXCEPT ![Lst!Fresh] = Spot(s, Len(s))],
         lprogram = "counted" => lcount' = lcount + 1
  PROVE  Good(c)
<1> DEFINE n == Lst!Fresh
           t == Ins(s, i + 1, n)
<1>0. lalive # ListNodes /\ c.op \in {"push", "add", "insert", "insert_at"}
  OBVIOUS
<1>1. CellsTyped /\ Lst!ListsAssumption
  BY DEF Ready
<1>2. /\ Row(s) /\ Leads(lnext, lroot, s) /\ lalive = InRow(s) /\ Len(Lst!Contents) = Len(s)
      /\ lprogram \in {"stack", "doubly"} => Backs(lprev, s)
      /\ lprogram = "counted" => lcount = Len(s)
  BY RowIs
<1>3. /\ n \in ListNodes /\ n \notin InRow(s) /\ Len(s) \in Nat
      /\ Row(t) /\ Leads(lnext', lroot', t)
      /\ lalive' = InRow(t) /\ lnext' \in Pointers /\ lvalue' = [m \in ListNodes |-> lvalue'[m]]
      /\ Len(t) = Len(s) + 1
      /\ Lst!Contents' = Lst!InsertAt(Lst!Contents, i + 1, c.v)
      /\ i = Len(s) => Lst!Contents' = Append(Lst!Contents, c.v)
      /\ i = 0 => Lst!Contents' = <<c.v>> \o Lst!Contents
  BY <1>0, <1>1, <1>2, LinkAtIs
<1>4. CellsTyped'
  BY <1>3 DEF CellsTyped
<1>5. lprogram = "stack" => ltail' = Spot(t, Len(t))
  <2> SUFFICES ASSUME lprogram = "stack" PROVE ltail' = Spot(t, Len(t))
    OBVIOUS
  <2>1. i = Len(s) /\ Row(s) /\ n \in ListNodes /\ Len(s) + 1 \in 1..(Len(s) + 1) /\ s \in Seq(ListNodes)
    BY <1>2, <1>3, RowTyped
  <2>2. Ins(s, Len(s) + 1, n)[Len(s) + 1] = n
    BY ONLY <2>1, InsIs
  <2>3. t[Len(t)] = n /\ Len(t) \in 1..Len(t)
    BY <1>3, <2>1, <2>2
  <2> QED
    BY <2>3 DEF Spot
<1>6. lprogram \in {"stack", "doubly"} => Backs(lprev', t)
  <2> SUFFICES ASSUME lprogram \in {"stack", "doubly"} PROVE Backs(lprev', t)
    OBVIOUS
  <2>1. i = Len(s) /\ lprev' = [lprev EXCEPT ![n] = Spot(s, Len(s))]
    OBVIOUS
  <2>2. lprev \in [ListNodes -> ListNodes \cup {Null}] /\ Backs(lprev, s)
    BY <1>1, <1>2 DEF CellsTyped, Pointers
  <2> HIDE DEF n
  <2>3. Backs([lprev EXCEPT ![n] = Spot(s, Len(s))], Ins(s, Len(s) + 1, n))
    BY <1>2, <1>3, <2>2, InsBacks
  <2> QED
    BY <2>1, <2>3
<1>7. lprogram = "counted" => lcount' = Len(t)
  BY <1>2, <1>3
<1>8. NextShaped(t)
  BY <1>3, <1>5, <1>6, <1>7 DEF NextShaped, InShape
<1>9. lcall'.op = c.op /\ lcall'.v = c.v /\ lcall'.i = c.i /\ lcall'.ok = TRUE
  BY AnswerIs
<1>10. lprogram \in FourLists /\ c.op \in Lst!Operations(lprogram)
  BY DEF Ready
<1>11. Right(lcall', Lst!Contents, Lst!Contents', lprogram)
  <2> DEFINE had == Lst!Contents
             then == Lst!Contents'
  <2>1. /\ then = Lst!InsertAt(had, i + 1, c.v) /\ (i = Len(s) => then = Append(had, c.v)) /\ (i = 0 => then = <<c.v>> \o had)
        /\ i \in 0..Len(had)
    BY <1>2, <1>3
  <2> HIDE DEF had, then
  <2>2. lcall'.ok
    BY ONLY <1>9
  <2>3. \/ c.op \in {"push", "add"} /\ i = Len(s)
        \/ c.op = "insert" /\ i = IF lprogram = "counted" THEN 0 ELSE Len(s)
        \/ c.op = "insert_at" /\ i = c.i
    OBVIOUS
  <2>4. \/ lcall'.op \in {"push", "add"} /\ then = Append(had, lcall'.v)
        \/ lcall'.op = "insert" /\ then = IF lprogram = "counted" THEN <<lcall'.v>> \o had ELSE Append(had, lcall'.v)
        \/ lcall'.op = "insert_at" /\ lcall'.i \in 0..Len(had) /\ then = Lst!InsertAt(had, lcall'.i + 1, lcall'.v)
    BY ONLY <1>9, <2>1, <2>3
  <2> DEFINE a == lcall'
  <2> HIDE DEF a
  <2>5. Right(a, had, then, lprogram)
    <3>1. a.ok
      BY <2>2 DEF a
    <3>2. \/ a.op \in {"push", "add"} /\ then = Append(had, a.v)
          \/ a.op = "insert" /\ then = IF lprogram = "counted" THEN <<a.v>> \o had ELSE Append(had, a.v)
          \/ a.op = "insert_at" /\ a.i \in 0..Len(had) /\ then = Lst!InsertAt(had, a.i + 1, a.v)
      BY ONLY <2>4 DEF a
    <3> QED
      BY ONLY <3>1, <3>2, LinkRight
  <2> QED
    BY <2>5 DEF had, then, a
<1> QED
  BY <1>4, <1>8, <1>11, RightIs DEF Good

LEMMA PushGood ==
  ASSUME NEW s, NEW c, Ready(s, c), lalive # ListNodes, Lst!Push(c)
  PROVE  Good(c)
<1> DEFINE n == Lst!Fresh
           m == Len(s)
<1>1. c.op = "push" /\ lprogram = "stack" /\ lalive # ListNodes /\ CellsTyped
  BY WhoAsks DEF Ready, Lst!Push
<1>2. /\ Row(s) /\ Leads(lnext, lroot, s) /\ lalive = InRow(s) /\ Len(s) \in Nat /\ Lst!Chain = s
      /\ (\A j \in 1..Len(s) : s[j] \in ListNodes)
      /\ (lroot = Null <=> Len(s) = 0) /\ Null \notin ListNodes
      /\ ltail = Spot(s, Len(s)) /\ Spot(s, Len(s)) = IF lroot = Null THEN Null ELSE s[Len(s)]
  BY <1>1, RowIs
<1>3. n \in ListNodes /\ n \notin InRow(s)
  BY <1>1, <1>2, FreshIs
<1>4. /\ lalive' = lalive \cup {n} /\ lvalue' = [lvalue EXCEPT ![n] = c.v]
      /\ lprev' = [lprev EXCEPT ![n] = ltail]
      /\ IF ltail # Null THEN lnext' = [lnext EXCEPT ![n] = Null, ![ltail] = n] /\ lroot' = lroot
         ELSE lnext' = [lnext EXCEPT ![n] = Null] /\ lroot' = n
      /\ ltail' = n /\ Lst!Answer(c, TRUE, <<>>)
  BY DEF Lst!Push
<1>5. lnext \in Pointers /\ lprev \in Pointers
  BY <1>1 DEF CellsTyped
<1> HIDE DEF n
<1>6. Lst!LinkAt(c.v, m)
  <2>1. CASE m = 0
    <3>1. lroot = Null /\ ltail = Null
      BY <1>2, <2>1
    <3>2. lroot' = n /\ lnext' = [lnext EXCEPT ![n] = lroot]
      BY <1>4, <3>1
    <3> QED
      BY <1>4, <2>1, <3>2 DEF Lst!LinkAt, n
  <2>2. CASE m # 0
    <3>1. lroot # Null /\ ltail = s[m] /\ m \in 1..m
      BY <1>2, <2>2
    <3>2. ltail # Null
      BY <1>2, <3>1
    <3>3. lnext[s[m]] = Null
      <4>1. lnext[s[m]] = Spot(s, m + 1) /\ m + 1 \notin 1..m
        BY <1>2, <3>1 DEF Leads
      <4> QED
        BY <4>1 DEF Spot
    <3>4. lroot' = lroot /\ lnext' = [lnext EXCEPT ![n] = lnext[s[m]], ![s[m]] = n]
      BY <1>4, <3>1, <3>2, <3>3
    <3>5. Lst!Chain[m] = s[m]
      BY <1>2
    <3> QED
      BY <1>4, <2>2, <3>4, <3>5 DEF Lst!LinkAt, n
  <2> QED
    BY <2>1, <2>2
<1>7. m \in 0..Len(s) /\ lprev' = [lprev EXCEPT ![n] = Spot(s, Len(s))]
  <2>1. m \in 0..Len(s)
    BY ONLY <1>2
  <2>2. lprev' = [lprev EXCEPT ![n] = ltail] /\ ltail = Spot(s, Len(s))
    BY ONLY <1>2, <1>4
  <2>3. lprev' = [lprev EXCEPT ![n] = Spot(s, Len(s))]
    BY ONLY <2>2
  <2> QED
    BY ONLY <2>1, <2>3
<1>8. lprev' \in Pointers
  BY <1>2, <1>3, <1>5, <1>7 DEF Pointers, Spot
<1> QED
  BY <1>1, <1>4, <1>6, <1>7, <1>8, LinkedGood DEF n

LEMMA InsertGood ==
  ASSUME NEW s, NEW c, Ready(s, c), lalive # ListNodes, Lst!Insert(c)
  PROVE  Good(c)
<1>1. c.op = "insert" /\ lprogram = "counted" /\ CellsTyped
  BY DEF Ready, Lst!Insert
<1>2. Lst!LinkAt(c.v, 0) /\ lcount' = lcount + 1 /\ Lst!Answer(c, TRUE, <<>>) /\ lprev' = lprev
  BY DEF Lst!Insert
<1>3. 0 \in 0..Len(s)
  BY RowIs
<1>4. lprev' \in Pointers
  BY <1>1, <1>2 DEF CellsTyped
<1> QED
  BY <1>1, <1>2, <1>3, <1>4, LinkedGood

LEMMA InsertNodeGood ==
  ASSUME NEW s, NEW c, Ready(s, c), lalive # ListNodes, Lst!InsertNode(c)
  PROVE  Good(c)
<1>1. c.op = "insert" /\ lprogram = "doubly" /\ CellsTyped /\ lalive # ListNodes
  BY DEF Ready, Lst!InsertNode
<1>2. /\ Row(s) /\ lalive = InRow(s) /\ Len(s) \in Nat /\ Lst!Chain = s /\ \A j \in 1..Len(s) : s[j] \in ListNodes
      /\ Spot(s, Len(s)) = IF lroot = Null THEN Null ELSE s[Len(s)]
  BY RowIs
<1>3. /\ Lst!LinkAt(c.v, Len(s)) /\ Lst!Answer(c, TRUE, <<>>)
      /\ lprev' = [lprev EXCEPT ![Lst!Fresh] = IF lroot = Null THEN Null ELSE s[Len(s)]]
  BY <1>2 DEF Lst!InsertNode
<1>4. lprev' = [lprev EXCEPT ![Lst!Fresh] = Spot(s, Len(s))]
  BY ONLY <1>2, <1>3
<1>5. Spot(s, Len(s)) \in ListNodes \cup {Null}
  BY <1>2 DEF Spot
<1>6. lprev' \in Pointers
  BY <1>1, <1>4, <1>5 DEF CellsTyped, Pointers
<1>7. Len(s) \in 0..Len(s)
  BY <1>2
<1> QED
  BY <1>1, <1>3, <1>4, <1>6, <1>7, LinkedGood

LEMMA AddItemGood ==
  ASSUME NEW s, NEW c, Ready(s, c), lalive # ListNodes, Lst!AddItem(c)
  PROVE  Good(c)
<1>1. c.op = "add" /\ lprogram = "indexed" /\ CellsTyped
  BY WhoAsks DEF Ready, Lst!AddItem
<1>2. Len(s) \in Nat /\ Lst!Chain = s
  BY RowIs
<1>3. Lst!LinkAt(c.v, Len(s)) /\ Lst!Answer(c, TRUE, <<>>) /\ lprev' = lprev
  BY <1>2 DEF Lst!AddItem
<1>4. lprev' \in Pointers /\ Len(s) \in 0..Len(s)
  BY <1>1, <1>2, <1>3 DEF CellsTyped
<1> QED
  BY <1>1, <1>3, <1>4, LinkedGood

LEMMA InsertAtIndexGood ==
  ASSUME NEW s, NEW c, Ready(s, c), lalive # ListNodes, Lst!InsertAtIndex(c)
  PROVE  Good(c)
<1>1. c.op = "insert_at" /\ lprogram = "indexed" /\ CellsTyped
  BY WhoAsks DEF Ready, Lst!InsertAtIndex
<1>2. Len(s) \in Nat /\ Lst!Chain = s
  BY RowIs
<1>3. CASE c.i \in 0..Len(s)
  <2>1. Lst!LinkAt(c.v, c.i) /\ Lst!Answer(c, TRUE, <<>>) /\ lprev' = lprev
    BY <1>2, <1>3 DEF Lst!InsertAtIndex
  <2>2. lprev' \in Pointers
    BY <1>1, <2>1 DEF CellsTyped
  <2> QED
    BY <1>1, <1>3, <2>1, <2>2, LinkedGood
<1>4. CASE c.i \notin 0..Len(s)
  <2>1. Lst!Answer(c, FALSE, <<>>) /\ Lst!Same
    BY <1>2, <1>4 DEF Lst!InsertAtIndex
  <2> QED
    BY <1>1, <2>1, FailsIs
<1> QED
  BY <1>3, <1>4

\* A node less, from its place.
LEMMA UnlinkedGood ==
  ASSUME NEW s, NEW c, Ready(s, c), NEW i \in 1..Len(s), Lst!UnlinkAt(i), lprogram = "indexed",
         Lst!Answer(c, TRUE, <<>>), lprev' = lprev,
         \/ c.op = "remove" /\ i = FirstAt(c, Lst!Contents)
         \/ c.op = "remove_at" /\ i = c.i + 1
  PROVE  Good(c)
<1> DEFINE t == Del(s, i)
<1>1. CellsTyped /\ Lst!ListsAssumption
  BY DEF Ready
<1>2. Row(s) /\ Leads(lnext, lroot, s) /\ lalive = InRow(s) /\ Len(Lst!Contents) = Len(s)
  BY RowIs
<1>3. /\ Row(t) /\ Leads(lnext', lroot', t)
      /\ lalive' = InRow(t) /\ lnext' \in Pointers /\ lvalue' = [m \in ListNodes |-> lvalue'[m]]
      /\ Lst!Contents' = Lst!RemoveAt(Lst!Contents, i)
  BY <1>1, <1>2, UnlinkAtIs
<1>4. CellsTyped'
  BY <1>1, <1>3 DEF CellsTyped
<1>5. NextShaped(t)
  BY <1>3 DEF NextShaped, InShape
<1>6. lcall'.op = c.op /\ lcall'.v = c.v /\ lcall'.i = c.i /\ lcall'.ok = TRUE
  BY AnswerIs
<1>7. FirstAt(lcall', Lst!Contents) = FirstAt(c, Lst!Contents)
  BY <1>6 DEF FirstAt
<1> DEFINE had == Lst!Contents
           then == Lst!Contents'
           a == lcall'
<1>8. /\ a.ok /\ then = Lst!RemoveAt(had, i) /\ i \in 1..Len(had)
      /\ \/ a.op = "remove" /\ i = FirstAt(a, had)
         \/ a.op = "remove_at" /\ i = a.i + 1
  BY ONLY <1>2, <1>3, <1>6, <1>7, i \in 1..Len(s),
     \/ c.op = "remove" /\ i = FirstAt(c, Lst!Contents)
     \/ c.op = "remove_at" /\ i = c.i + 1
<1> HIDE DEF had, then, a
<1>11. Right(a, had, then, lprogram)
  BY ONLY <1>8, UnlinkRight
<1> QED
  BY <1>4, <1>5, <1>11, RightIs DEF Good, a, had, then

\* What is found in the nodes is found in the values.
LEMMA FirstIs ==
  ASSUME NEW s, NEW c, Ready(s, c)
  PROVE  /\ Lst!FirstWith(c.v) = FirstAt(c, Lst!Contents)
         /\ FirstAt(c, Lst!Contents) # 0 => FirstAt(c, Lst!Contents) \in 1..Len(s) /\ Lst!Contents[FirstAt(c, Lst!Contents)] = c.v
<1> DEFINE had == Lst!Contents
           I == {i \in 1..Len(had) : had[i] = c.v}
           J == {i \in 1..Len(s) : lvalue[s[i]] = c.v}
<1>1. Lst!Chain = s /\ had = Vals(lvalue, s) /\ Len(had) = Len(s) /\ Len(s) \in Nat /\ CellsTyped /\ Row(s)
  BY RowIs DEF Ready
<1>2. \A j \in 1..Len(s) : had[j] = lvalue[s[j]]
  BY <1>1, HeldTyped
<1>3. I = J
  BY <1>1, <1>2
<1>4. Lst!FirstWith(c.v) = IF J # {} THEN Lst!Min(J) ELSE 0
  BY <1>1 DEF Lst!FirstWith, Lst!SelectInSeq
<1>5. FirstAt(c, had) = IF I # {} THEN Lst!Min(I) ELSE 0
  BY DEF FirstAt, Lst!SelectInSeq
<1>6. Lst!FirstWith(c.v) = FirstAt(c, had)
  <2> HIDE DEF I, J
  <2> QED
    BY ONLY <1>3, <1>4, <1>5
<1>7. ASSUME FirstAt(c, had) # 0 PROVE FirstAt(c, had) \in I
  <2>1. I # {} /\ FirstAt(c, had) = Lst!Min(I)
    BY <1>5, <1>7
  <2>2. I \subseteq Nat
    BY <1>1
  <2> HIDE DEF I
  <2>3. \E p \in I : \A q \in I : p <= q
    BY <2>1, <2>2, Least
  <2>4. Lst!Min(I) \in I
    BY <2>3 DEF Lst!Min
  <2> QED
    BY <2>1, <2>4
<1> QED
  BY <1>1, <1>6, <1>7

LEMMA RemoveItemGood ==
  ASSUME NEW s, NEW c, Ready(s, c), Lst!RemoveItem(c)
  PROVE  Good(c)
<1> DEFINE i == Lst!FirstWith(c.v)
<1>1. c.op = "remove" /\ lprogram = "indexed" /\ Lst!Drop(c, i)
  BY WhoAsks DEF Ready, Lst!RemoveItem
<1>2. i = FirstAt(c, Lst!Contents) /\ (FirstAt(c, Lst!Contents) # 0 => FirstAt(c, Lst!Contents) \in 1..Len(s)) /\ Len(Lst!Contents) = Len(s)
      /\ Len(s) \in Nat
  BY FirstIs, RowIs
<1> HIDE DEF i
<1>3. CASE i = 0
  <2>1. Lst!Answer(c, FALSE, <<>>) /\ Lst!Same
    BY <1>1, <1>3 DEF Lst!Drop
  <2>2. FirstAt(c, Lst!Contents) \notin 1..Len(Lst!Contents)
    BY <1>2, <1>3
  <2> QED
    BY <1>1, <2>1, <2>2, FailsIs
<1>4. CASE i # 0
  <2>1. Lst!UnlinkAt(i) /\ Lst!Answer(c, TRUE, <<>>) /\ lprev' = lprev
    BY <1>1, <1>4 DEF Lst!Drop
  <2> QED
    BY <1>1, <1>2, <1>4, <2>1, UnlinkedGood
<1> QED
  BY <1>3, <1>4

LEMMA RemoveIndexGood ==
  ASSUME NEW s, NEW c, Ready(s, c), Lst!RemoveIndex(c)
  PROVE  Good(c)
<1> DEFINE i == c.i + 1
<1>1. Lst!Chain = s /\ Len(Lst!Contents) = Len(s) /\ Len(s) \in Nat
  BY RowIs
<1>2. c.op = "remove_at" /\ lprogram = "indexed" /\ Lst!Drop(c, IF i \in 1..Len(s) THEN i ELSE 0)
  BY <1>1, WhoAsks DEF Ready, Lst!RemoveIndex
<1> HIDE DEF i
<1>3. CASE i \notin 1..Len(s)
  <2>1. Lst!Answer(c, FALSE, <<>>) /\ Lst!Same
    BY <1>2, <1>3 DEF Lst!Drop
  <2>2. c.i + 1 \notin 1..Len(Lst!Contents)
    BY <1>1, <1>3 DEF i
  <2> QED
    BY <1>2, <2>1, <2>2, FailsIs
<1>4. CASE i \in 1..Len(s)
  <2>1. i # 0
    BY <1>1, <1>4
  <2>2. Lst!UnlinkAt(i) /\ Lst!Answer(c, TRUE, <<>>) /\ lprev' = lprev
    BY <1>2, <1>4, <2>1 DEF Lst!Drop
  <2> QED
    BY <1>2, <1>4, <2>2, UnlinkedGood DEF i
<1> QED
  BY <1>3, <1>4

\* Without its last element a row is what was before it.
LEMMA DelAtEnd == ASSUME NEW S, NEW s \in Seq(S), s # <<>> PROVE s = Append(Del(s, Len(s)), s[Len(s)])
<1> DEFINE m == Len(s)
           t == Del(s, m)
           u == Append(t, s[m])
<1>1. m \in Nat /\ m \in 1..m /\ \A j \in 1..m : s[j] \in S
  <2>1. m \in Nat /\ m # 0
    OBVIOUS
  <2> QED
    BY <2>1
<1>2. t \in Seq(S) /\ Len(t) = m - 1 /\ \A j \in 1..(m - 1) : j < m => t[j] = s[j]
  <2>1. m \in 1..Len(s)
    BY <1>1
  <2> HIDE DEF m
  <2>2. /\ Del(s, m) \in Seq(S) /\ Len(Del(s, m)) = Len(s) - 1
        /\ \A j \in 1..(Len(s) - 1) : j < m => Del(s, m)[j] = s[j]
    BY <2>1, DelIs
  <2> QED
    BY <2>2 DEF m
<1> HIDE DEF t
<1>3. u \in Seq(S) /\ Len(u) = m /\ u[m] = s[m] /\ \A j \in 1..(m - 1) : u[j] = t[j]
  <2> HIDE DEF m
  <2>1. s[m] \in S /\ t \in Seq(S) /\ Len(t) + 1 = m /\ Len(t) = m - 1
    BY <1>1, <1>2
  <2> QED
    BY <2>1
<1> HIDE DEF u
<1>4. \A j \in 1..m : s[j] = u[j]
  <2> HIDE DEF m
  <2>1. \A j \in 1..m : j = m \/ (j \in 1..(m - 1) /\ j < m)
    BY <1>1
  <2> QED
    BY <1>2, <1>3, <2>1
<1>5. s = u
  BY <1>3, <1>4, SameAll
<1> QED
  BY <1>5 DEF u, t, m

LEMMA PopGood ==
  ASSUME NEW s, NEW c, Ready(s, c), Lst!Pop(c)
  PROVE  Good(c)
<1> DEFINE m == Len(s)
           t == Del(s, m)
<1>1. c.op = "pop" /\ lprogram = "stack" /\ CellsTyped /\ Lst!ListsAssumption
  BY WhoAsks DEF Ready, Lst!Pop
<1>2. /\ Row(s) /\ Leads(lnext, lroot, s) /\ lalive = InRow(s) /\ m \in Nat /\ Lst!Chain = s /\ s \in Seq(ListNodes)
      /\ Lst!Contents = Vals(lvalue, s) /\ Lst!Contents \in Seq(Kinds) /\ Len(Lst!Contents) = m
      /\ (\A j \in 1..m : s[j] \in ListNodes) /\ (lroot = Null <=> m = 0) /\ Null \notin ListNodes
      /\ ltail = Spot(s, m) /\ Spot(s, m) = (IF lroot = Null THEN Null ELSE s[m]) /\ Backs(lprev, s)
  BY <1>1, RowIs
<1>3. CASE m = 0
  <2>1. Lst!Answer(c, FALSE, <<>>) /\ Lst!Same
    BY <1>2, <1>3 DEF Lst!Pop
  <2> QED
    BY <1>1, <2>1, FailsIs
<1>4. CASE m # 0
  <2> DEFINE p == Spot(s, m - 1)
  <2>1. ltail = s[m] /\ m \in 1..m /\ ltail # Null /\ s[m] \in ListNodes
    BY <1>2, <1>4
  <2>2. lprev[s[m]] = p
    BY <1>2, <2>1 DEF Backs
  <2>3. /\ IF p # Null THEN lnext' = [lnext EXCEPT ![p] = Null] /\ lroot' = lroot ELSE lnext' = lnext /\ lroot' = Null
        /\ ltail' = p /\ lalive' = lalive \ {s[m]}
        /\ lprev' = [lprev EXCEPT ![s[m]] = Null] /\ lvalue' = [lvalue EXCEPT ![s[m]] = 0]
        /\ Lst!Answer(c, TRUE, <<lvalue[s[m]]>>)
    BY <2>1, <2>2 DEF Lst!Pop
  <2>4. lnext[s[m]] = Null
    <3>1. lnext[s[m]] = Spot(s, m + 1) /\ m + 1 \notin 1..m
      BY <1>2, <2>1 DEF Leads
    <3> QED
      BY <3>1 DEF Spot
  <2>5. lnext \in [ListNodes -> ListNodes \cup {Null}] /\ lprev \in [ListNodes -> ListNodes \cup {Null}]
    BY <1>1 DEF CellsTyped, Pointers
  <2>6. Lst!UnlinkAt(m)
    <3>1. CASE m = 1
      <4>1. p = Null
        BY <3>1 DEF Spot
      <4>2. lroot' = lnext[s[m]] /\ lnext' = lnext
        BY <2>3, <2>4, <4>1
      <4>3. lnext = [lnext EXCEPT ![s[m]] = Null]
        BY <2>1, <2>4, <2>5
      <4> QED
        BY <1>2, <2>3, <3>1, <4>2, <4>3 DEF Lst!UnlinkAt
    <3>2. CASE m # 1
      <4> DEFINE q == m - 1
      <4>1. q \in 1..m /\ q # m /\ p = s[q] /\ s[q] \in ListNodes /\ s[q] # Null
        BY <1>2, <1>4, <3>2 DEF Spot
      <4>2. s[q] # s[m]
        BY <1>2, <2>1, <4>1 DEF Row
      <4>3. lroot' = lroot /\ lnext' = [lnext EXCEPT ![s[q]] = Null]
        BY <2>3, <4>1
      <4> HIDE DEF q
      <4>4. [lnext EXCEPT ![s[q]] = Null] = [lnext EXCEPT ![s[q]] = lnext[s[m]], ![s[m]] = Null]
        BY <2>1, <2>4, <2>5, <4>1, <4>2
      <4>5. lnext' = [lnext EXCEPT ![s[q]] = lnext[s[m]], ![s[m]] = Null]
        BY <4>3, <4>4
      <4> QED
        BY <1>2, <2>3, <3>2, <4>3, <4>5 DEF Lst!UnlinkAt, q
    <3> QED
      BY <3>1, <3>2
  <2>7. /\ Row(t) /\ Leads(lnext', lroot', t)
        /\ lalive' = InRow(t) /\ lnext' \in Pointers /\ lvalue' = [n \in ListNodes |-> lvalue'[n]]
        /\ Len(t) = m - 1 /\ Lst!Contents' = Del(Lst!Contents, m)
    BY <1>1, <1>2, <2>1, <2>6, UnlinkAtIs
  <2>8. lprev' \in Pointers
    BY <2>3, <2>5 DEF Pointers
  <2>9. CellsTyped'
    BY <2>7, <2>8 DEF CellsTyped
  <2>10. Backs(lprev', t)
    <3>1. s # <<>>
      BY <1>4
    <3>2. Backs([lprev EXCEPT ![s[Len(s)]] = Null], Del(s, Len(s)))
      BY <1>2, <2>5, <3>1, DelBacks
    <3> QED
      BY <2>3, <3>2
  <2>11. ltail' = Spot(t, Len(t))
    <3> DEFINE q == m - 1
    <3>1. q \in Nat /\ (q \in 1..m <=> q \in 1..q) /\ (q \in 1..q => q \in 1..(Len(s) - 1) /\ q < m) /\ Len(t) = q
      BY <1>2, <1>4, <2>7
    <3>2. m \in 1..Len(s)
      BY <2>1
    <3>3. \A j \in 1..(Len(s) - 1) : j < m => t[j] = s[j]
      <4>1. s \in Seq(ListNodes)
        BY <1>2
      <4>2. \A j \in 1..(Len(s) - 1) : j < m => Del(s, m)[j] = s[j]
        <5> HIDE DEF m
        <5> QED
          BY ONLY <3>2, <4>1, DelIs
      <4> QED
        BY <4>2
    <3> HIDE DEF q
    <3>4. Spot(t, q) = Spot(s, q)
      BY <3>1, <3>3 DEF Spot
    <3> QED
      BY <2>3, <3>1, <3>4 DEF q
  <2>12. NextShaped(t)
    BY <1>1, <2>7, <2>10, <2>11 DEF NextShaped, InShape
  <2>13. lcall'.op = "pop" /\ lcall'.ok = TRUE /\ lcall'.out = <<lvalue[s[m]]>>
    BY <1>1, <2>3, AnswerIs
  <2>14. Lst!Contents = Append(Lst!Contents', lvalue[s[m]])
    <3> DEFINE had == Lst!Contents
    <3>1. had \in Seq(Kinds) /\ Len(had) = m /\ had # <<>>
      BY <1>2, <1>4
    <3>2. had[m] = lvalue[s[m]]
      BY <1>1, <1>2, <2>1, HeldTyped
    <3> HIDE DEF had
    <3>3. had = Append(Del(had, Len(had)), had[Len(had)])
      BY <3>1, DelAtEnd
    <3> QED
      BY <2>7, <3>1, <3>2, <3>3 DEF had
  <2> DEFINE a == lcall'
             had == Lst!Contents
             then == Lst!Contents'
  <2>15. a.op = "pop" /\ a.ok /\ had = Append(then, a.out[1])
    BY ONLY <2>13, <2>14
  <2> HIDE DEF a, had, then
  <2>16. Right(a, had, then, lprogram)
    BY ONLY <2>15 DEF Right
  <2> QED
    BY <2>9, <2>12, <2>16, RightIs DEF Good, a, had, then
<1> QED
  BY <1>3, <1>4

LEMMA FindGood ==
  ASSUME NEW s, NEW c, Ready(s, c), Lst!FindNode(c)
  PROVE  Good(c)
<1> DEFINE i == Lst!FirstWith(c.v)
           had == Lst!Contents
           then == Lst!Contents'
           a == lcall'
<1>1. c.op = "find" /\ Lst!Same
  BY DEF Lst!FindNode
<1>2. i = FirstAt(c, had)
  BY FirstIs
<1>3. a.op = c.op /\ a.v = c.v /\ (a.ok <=> i # 0)
  <2>1. Lst!Answer(c, i # 0, IF i = 0 THEN <<>> ELSE <<lvalue[Lst!Chain[i]]>>)
    BY DEF Lst!FindNode
  <2> HIDE DEF i
  <2>2. a.op = c.op /\ a.v = c.v /\ a.ok = (i # 0)
    BY <2>1, AnswerIs
  <2> QED
    BY <2>2
<1>4. CellsTyped' /\ NextShaped(s) /\ then = had
  BY <1>1, SameIs DEF Ready, NextShaped
<1> HIDE DEF i, had, then, a
<1>5. FirstAt(a, had) = FirstAt(c, had)
  BY ONLY <1>3 DEF FirstAt
<1>6. a.op = "find" /\ then = had /\ (a.ok <=> FirstAt(a, had) # 0)
  BY ONLY <1>1, <1>2, <1>3, <1>4, <1>5
<1>7. Right(a, had, then, lprogram)
  BY ONLY <1>6 DEF Right
<1> QED
  BY <1>4, <1>7, RightIs DEF Good, a, had, then

LEMMA ReverseVals ==
  ASSUME NEW s, Row(s), NEW f
  PROVE  Vals(f, Lst!Reverse(s)) = Lst!Reverse(Vals(f, s))
<1> DEFINE m == Len(s)
           r == Lst!Reverse(s)
           h == Vals(f, s)
<1>1. m \in Nat
  BY RowTyped
<1>2. r = [j \in 1..m |-> s[m - j + 1]]
  BY DEF Lst!Reverse
<1>3. h = [j \in 1..m |-> f[s[j]]]
  BY DEF Vals
<1> HIDE DEF m, r, h
<1>4. Len(r) = m /\ Len(h) = m
  BY <1>1, <1>2, <1>3
<1>5. Vals(f, r) = [j \in 1..m |-> f[r[j]]]
  BY <1>4 DEF Vals
<1>6. Lst!Reverse(h) = [j \in 1..m |-> h[m - j + 1]]
  BY <1>4 DEF Lst!Reverse
<1>7. \A j \in 1..m : f[r[j]] = h[m - j + 1]
  <2> TAKE j \in 1..m
  <2> DEFINE k == m - j + 1
  <2>1. k \in 1..m /\ r[j] = s[k]
    BY <1>1, <1>2
  <2> HIDE DEF k
  <2>2. h[k] = f[s[k]]
    BY <1>3, <2>1
  <2> QED
    BY <2>1, <2>2 DEF k
<1>8. Vals(f, r) = Lst!Reverse(h)
  BY <1>5, <1>6, <1>7
<1> QED
  BY <1>8 DEF r, h

LEMMA PrintedIs ==
  ASSUME NEW s, NEW c, Ready(s, c)
  PROVE  Lst!Printed = CASE lprogram = "stack" -> Lst!Reverse(Lst!Contents)
                         [] lprogram = "doubly" -> Lst!Contents \o Lst!Reverse(Lst!Contents)
                         [] OTHER -> Lst!Contents
<1>1. /\ Lst!ListsAssumption /\ Row(s) /\ Lst!Chain = s /\ Lst!Contents = Vals(lvalue, s)
      /\ Spot(s, Len(s)) = (IF lroot = Null THEN Null ELSE s[Len(s)])
      /\ lprogram = "stack" => ltail = Spot(s, Len(s)) /\ Backs(lprev, s)
      /\ lprogram = "doubly" => Backs(lprev, s)
  BY RowIs DEF Ready
<1>2. \A r : Lst!ValuesOf(r) = Vals(lvalue, r)
  BY DEF Lst!ValuesOf, Vals
<1>3. ASSUME Backs(lprev, s) PROVE Lst!ValuesOf(Lst!BackFrom(Spot(s, Len(s)))) = Lst!Reverse(Lst!Contents)
  <2>1. Lst!BackFrom(Spot(s, Len(s))) = Lst!Reverse(s)
    BY <1>1, <1>3, BackIs DEF Lst!BackFrom
  <2>2. Vals(lvalue, Lst!Reverse(s)) = Lst!Reverse(Vals(lvalue, s))
    BY <1>1, ReverseVals
  <2> QED
    BY <1>1, <1>2, <2>1, <2>2
<1>4. CASE lprogram = "stack"
  <2>1. Lst!Printed = Lst!ValuesOf(Lst!BackFrom(ltail))
    BY <1>4 DEF Lst!Printed
  <2> QED
    BY <1>1, <1>3, <1>4, <2>1
<1>5. CASE lprogram = "doubly"
  <2>1. Lst!Printed = Lst!ValuesOf(Lst!Chain) \o Lst!ValuesOf(Lst!BackFrom(IF lroot = Null THEN Null ELSE Lst!Chain[Len(Lst!Chain)]))
    BY <1>5 DEF Lst!Printed
  <2>2. (IF lroot = Null THEN Null ELSE Lst!Chain[Len(Lst!Chain)]) = Spot(s, Len(s))
    BY <1>1
  <2>3. Lst!Printed = Lst!ValuesOf(s) \o Lst!ValuesOf(Lst!BackFrom(Spot(s, Len(s))))
    BY <1>1, <2>1, <2>2
  <2>4. Lst!Printed = Lst!Contents \o Lst!Reverse(Lst!Contents)
    BY <1>1, <1>2, <1>3, <1>5, <2>3
  <2> QED
    BY ONLY <1>5, <2>4
<1>6. CASE lprogram # "stack" /\ lprogram # "doubly"
  <2>1. Lst!Printed = Lst!ValuesOf(Lst!Chain)
    BY <1>6 DEF Lst!Printed
  <2>2. Lst!Printed = Lst!Contents
    BY <1>1, <1>2, <2>1
  <2> QED
    BY ONLY <1>6, <2>2
<1> QED
  BY <1>4, <1>5, <1>6

LEMMA PrintGood ==
  ASSUME NEW s, NEW c, Ready(s, c), Lst!PrintAll(c)
  PROVE  Good(c)
<1> DEFINE had == Lst!Contents
           then == Lst!Contents'
           a == lcall'
           out == CASE lprogram = "stack" -> Lst!Reverse(had)
                    [] lprogram = "doubly" -> had \o Lst!Reverse(had)
                    [] OTHER -> had
<1>1. c.op = "print" /\ Lst!Same /\ Lst!Answer(c, TRUE, Lst!Printed)
  BY DEF Lst!PrintAll
<1>2. a.op = "print" /\ a.out = Lst!Printed
  BY <1>1, AnswerIs
<1>3. Lst!Printed = out
  BY PrintedIs
<1>4. CellsTyped' /\ NextShaped(s) /\ then = had
  BY <1>1, SameIs DEF Ready, NextShaped
<1> HIDE DEF a, then, had
<1>5. a.op = "print" /\ then = had /\ a.out = out
  <2> HIDE DEF out
  <2> QED
    BY ONLY <1>2, <1>3, <1>4
<1>6. Right(a, had, then, lprogram)
  BY ONLY <1>5 DEF Right
<1> QED
  BY <1>4, <1>6, RightIs DEF Good, a, had, then

\* Values put into other places are the same values, as often.
LEMMA SameValuesIs ==
  ASSUME NEW m \in Nat, NEW S, NEW h \in Seq(S), Len(h) = m, NEW places \in Lst!Shuffles(1..m),
         NEW r, r = [j \in 1..m |-> h[places[j]]]
  PROVE  Lst!SameValues(h, r)
<1>1. /\ places \in [1..m -> 1..m] /\ (\A a, b \in 1..m : places[a] = places[b] => a = b)
      /\ \A t \in 1..m : \E j \in 1..m : places[j] = t
  BY DEF Lst!Shuffles
<1>2. DOMAIN h = 1..m /\ DOMAIN r = 1..m /\ \A j \in 1..m : r[j] = h[places[j]]
  OBVIOUS
<1>3. ASSUME NEW v
      PROVE  Lst!Cardinality({j \in DOMAIN h : h[j] = v}) = Lst!Cardinality({j \in DOMAIN r : r[j] = v})
  <2> DEFINE C == {j \in 1..m : h[j] = v}
             D == {j \in 1..m : r[j] = v}
             g == [j \in D |-> places[j]]
  <2>1. \A j \in D : places[j] \in C
    BY ONLY <1>1, <1>2
  <2>2. \A j \in C : \E k \in D : places[k] = j
    BY ONLY <1>1, <1>2
  <2>3. \A j, k \in D : places[j] = places[k] => j = k
    BY ONLY <1>1
  <2>4. IsFiniteSet(D)
    <3>1. IsFiniteSet(1..m)
      <4>1. 1 \in Int /\ m \in Int
        OBVIOUS
      <4> QED
        BY ONLY <4>1, FS_Interval
    <3>2. D \in SUBSET (1..m)
      OBVIOUS
    <3> HIDE DEF D
    <3> QED
      BY ONLY <3>1, <3>2, FS_Subset
  <2> HIDE DEF C, D
  <2>5. g \in [D -> C] /\ (\A j, k \in D : g[j] = g[k] => j = k) /\ \A j \in C : \E k \in D : g[k] = j
    BY ONLY <2>1, <2>2, <2>3
  <2> HIDE DEF g
  <2>6. g \in Bijection(D, C)
    BY ONLY <2>5, Fun_IsBij
  <2>7. ExistsBijection(D, C)
    BY ONLY <2>6, Fun_ExistsBij
  <2>8. Cardinality(C) = Cardinality(D)
    BY ONLY <2>4, <2>7, FS_Bijection
  <2>9. Lst!Cardinality(C) = Lst!Cardinality(D)
    BY ONLY <2>8, ListsCardinality
  <2> QED
    BY <1>2, <2>9 DEF C, D
<1> QED
  BY <1>3 DEF Lst!SameValues

LEMMA SortGood ==
  ASSUME NEW s, NEW c, Ready(s, c), Lst!SortList(c)
  PROVE  Good(c)
<1> DEFINE m == Len(s)
           had == Lst!Contents
           then == Lst!Contents'
           a == lcall'
<1>1. c.op = "sort" /\ lprogram = "indexed" /\ CellsTyped /\ Lst!ListsAssumption
  BY WhoAsks DEF Ready, Lst!SortList
<1>2. /\ Row(s) /\ Leads(lnext, lroot, s) /\ lalive = InRow(s) /\ m \in Nat /\ Lst!Chain = s /\ s \in Seq(ListNodes)
      /\ had = Vals(lvalue, s) /\ had \in Seq(Kinds) /\ Len(had) = m /\ \A j \in 1..m : s[j] \in ListNodes
  BY RowIs
<1>3. DOMAIN s = 1..m /\ Lst!ValuesOf(s) = Vals(lvalue, s)
  BY <1>2 DEF Lst!ValuesOf, Vals
<1>4. PICK places \in Lst!Shuffles(1..m) :
        Lst!Ascending(Lst!Moved(had, places)) /\ lvalue' = Lst!Placed(s, Lst!Moved(had, places))
  <2>1. Lst!Chain = s
    BY <1>2
  <2>2. \E q \in Lst!Shuffles(DOMAIN s) :
          Lst!Ascending(Lst!Moved(Lst!ValuesOf(s), q)) /\ lvalue' = Lst!Placed(s, Lst!Moved(Lst!ValuesOf(s), q))
    BY ONLY <2>1, Lst!SortList(c) DEF Lst!SortList
  <2>3. DOMAIN s = 1..m /\ Lst!ValuesOf(s) = had
    BY ONLY <1>2, <1>3
  <2> HIDE DEF had, m
  <2> QED
    BY ONLY <2>2, <2>3
<1> DEFINE r == Lst!Moved(had, places)
<1>5. Lst!Answer(c, TRUE, <<>>) /\ lroot' = lroot /\ ltail' = ltail /\ lnext' = lnext /\ lprev' = lprev /\ lcount' = lcount /\ lalive' = lalive
  BY DEF Lst!SortList
<1> HIDE DEF m, had, then, a, r
<1>6. CellsTyped'
  <2>1. lvalue' = Lst!Placed(s, r)
    BY <1>4 DEF r
  <2>2. lvalue' = [n \in ListNodes |-> lvalue'[n]]
    BY <2>1 DEF Lst!Placed
  <2> QED
    BY <1>1, <1>5, <2>2 DEF CellsTyped
<1>r. r = [j \in 1..m |-> had[places[j]]]
  BY <1>2 DEF r, Lst!Moved
<1>7. NextShaped(s)
  <2>1. Shaped(s)
    BY DEF Ready
  <2> QED
    BY <1>5, <2>1 DEF NextShaped, Shaped
<1>8. then = Vals(lvalue', s)
  BY <1>1, <1>2, <1>5, NextChainIs DEF then
<1>9. \A j \in 1..m : lvalue'[s[j]] = r[j]
  <2> TAKE j \in 1..m
  <2>1. s[j] \in ListNodes /\ s[j] \in Lst!ToSet(s)
    BY <1>2, <1>3 DEF Lst!ToSet
  <2>2. (CHOOSE k \in 1..m : s[k] = s[j]) = j
    BY <1>2 DEF Row, m
  <2>3. lvalue'[s[j]] = r[CHOOSE k \in 1..m : s[k] = s[j]]
    BY <1>3, <1>4, <2>1 DEF r, Lst!Placed
  <2> QED
    BY <2>2, <2>3
<1>10. then = r
  <2>1. then = [j \in 1..m |-> lvalue'[s[j]]]
    BY <1>8 DEF Vals, m
  <2> QED
    BY ONLY <1>9, <1>r, <2>1
<1>11. Lst!SameValues(had, r)
  BY ONLY <1>2, <1>r, places \in Lst!Shuffles(1..m), SameValuesIs
<1>12. Lst!Ascending(r)
  BY <1>4 DEF r
<1>13. a.op = "sort" /\ a.ok
  BY <1>1, <1>5, AnswerIs DEF a
<1>14. Right(a, had, then, lprogram)
  BY ONLY <1>10, <1>11, <1>12, <1>13 DEF Right
<1> QED
  BY <1>6, <1>7, <1>14, RightIs DEF Good, a, had, then

LEMMA EmptyRow == Row(<<>>) /\ \A f : Leads(f, Null, <<>>) /\ Vals(f, <<>>) = <<>>
<1>1. <<>> \in Seq(ListNodes) /\ Len(<<>>) = 0 /\ 1..0 = {}
  OBVIOUS
<1> QED
  BY <1>1 DEF Row, Leads, Spot, Vals

LEMMA FreeGood ==
  ASSUME NEW s, NEW c, Ready(s, c), Lst!Free(c)
  PROVE  Good(c)
<1> DEFINE had == Lst!Contents
           then == Lst!Contents'
           a == lcall'
<1>1. c.op = "free" /\ CellsTyped /\ Lst!ListsAssumption
  BY DEF Ready, Lst!Free
<1>2. lroot' = Null /\ lnext' = lnext /\ lprev' = lprev /\ lvalue' = lvalue /\ Lst!Answer(c, TRUE, <<>>)
  BY DEF Lst!Free
<1>3. CellsTyped'
  BY <1>1, <1>2 DEF CellsTyped
<1>4. then = <<>>
  <2>1. Row(<<>>) /\ Leads(lnext', lroot', <<>>) /\ Vals(lvalue', <<>>) = <<>>
    BY <1>2, EmptyRow
  <2> QED
    BY <1>1, <2>1, NextChainIs
<1>5. a.op = "free" /\ a.ok
  BY <1>1, <1>2, AnswerIs
<1> HIDE DEF had, then, a
<1>6. Right(a, had, then, lprogram)
  BY ONLY <1>4, <1>5 DEF Right
<1> QED
  BY <1>1, <1>3, <1>6, RightIs DEF Good, a, had, then

LEMMA NoMemoryGood ==
  ASSUME NEW s, NEW c, Ready(s, c), Lst!NoMemory(c)
  PROVE  Good(c)
<1>1. c.op \in {"push", "pop", "insert", "add", "insert_at"} /\ Lst!Answer(c, FALSE, <<>>) /\ Lst!Same
  BY DEF Lst!NoMemory, Lst!Allocates
<1> QED
  BY <1>1, FailsIs

LEMMA DoGood ==
  ASSUME NEW s, NEW c, Ready(s, c), Lst!Do(c)
  PROVE  Good(c)
<1>1. CASE /\ c.op \in Lst!Takes => lalive # ListNodes
           /\ \/ Lst!Push(c) \/ Lst!Pop(c) \/ Lst!Insert(c) \/ Lst!InsertNode(c) \/ Lst!AddItem(c) \/ Lst!InsertAtIndex(c)
              \/ Lst!RemoveItem(c) \/ Lst!RemoveIndex(c) \/ Lst!SortList(c) \/ Lst!FindNode(c) \/ Lst!PrintAll(c)
              \/ Lst!Free(c)
  <2>1. CASE Lst!Push(c)
    <3>1. lalive # ListNodes
      BY <1>1, <2>1 DEF Lst!Push, Lst!Takes
    <3> QED
      BY <2>1, <3>1, PushGood
  <2>2. CASE Lst!Insert(c)
    <3>1. lalive # ListNodes
      BY <1>1, <2>2 DEF Lst!Insert, Lst!Takes
    <3> QED
      BY <2>2, <3>1, InsertGood
  <2>3. CASE Lst!InsertNode(c)
    <3>1. lalive # ListNodes
      BY <1>1, <2>3 DEF Lst!InsertNode, Lst!Takes
    <3> QED
      BY <2>3, <3>1, InsertNodeGood
  <2>4. CASE Lst!AddItem(c)
    <3>1. lalive # ListNodes
      BY <1>1, <2>4 DEF Lst!AddItem, Lst!Takes
    <3> QED
      BY <2>4, <3>1, AddItemGood
  <2>5. CASE Lst!InsertAtIndex(c)
    <3>1. lalive # ListNodes
      BY <1>1, <2>5 DEF Lst!InsertAtIndex, Lst!Takes
    <3> QED
      BY <2>5, <3>1, InsertAtIndexGood
  <2>6. CASE Lst!Pop(c)
    BY <2>6, PopGood
  <2>7. CASE Lst!RemoveItem(c)
    BY <2>7, RemoveItemGood
  <2>8. CASE Lst!RemoveIndex(c)
    BY <2>8, RemoveIndexGood
  <2>9. CASE Lst!SortList(c)
    BY <2>9, SortGood
  <2>10. CASE Lst!FindNode(c)
    BY <2>10, FindGood
  <2>11. CASE Lst!PrintAll(c)
    BY <2>11, PrintGood
  <2>12. CASE Lst!Free(c)
    BY <2>12, FreeGood
  <2> QED
    BY <1>1, <2>1, <2>2, <2>3, <2>4, <2>5, <2>6, <2>7, <2>8, <2>9, <2>10, <2>11, <2>12
<1>2. CASE Lst!NoMemory(c)
  BY <1>2, NoMemoryGood
<1> QED
  BY <1>1, <1>2 DEF Lst!Do

\* Calls yet to make are calls of the program.
Asks(p) == [op : Lst!Operations(p), v : Int, i : Int]

LEMMA AskIs == ASSUME NEW p, NEW op \in Lst!Operations(p), NEW v \in Int, NEW i \in Int PROVE Lst!Ask(op, v, i) \in Asks(p)
BY DEF Lst!Ask, Asks

LEMMA MainsTyped ==
  ASSUME Lst!ListsAssumption, NEW p \in FourLists
  PROVE  Lst!Mains(p) \subseteq Seq(Asks(p))
<1>0. ListTurns \in Nat
  BY NodesFinite
<1>1. CASE p = "stack"
  <2>1. {"push", "pop", "print", "free"} \subseteq Lst!Operations(p)
    BY <1>1 DEF Lst!Operations
  <2> DEFINE a == <<Lst!Ask("push", 255, 0), Lst!Ask("push", 100, 0), Lst!Ask("print", 0, 0), Lst!Ask("pop", 0, 0)>>
             b == [j \in 1..ListTurns |-> Lst!Ask("push", j, 0)]
             d == <<Lst!Ask("print", 0, 0), Lst!Ask("free", 0, 0)>>
  <2>2. a \in Seq(Asks(p)) /\ d \in Seq(Asks(p))
    <3>1. /\ Lst!Ask("push", 255, 0) \in Asks(p) /\ Lst!Ask("push", 100, 0) \in Asks(p)
          /\ Lst!Ask("print", 0, 0) \in Asks(p) /\ Lst!Ask("pop", 0, 0) \in Asks(p) /\ Lst!Ask("free", 0, 0) \in Asks(p)
      BY <2>1, AskIs
    <3> QED
      BY ONLY <3>1
  <2>3. b \in Seq(Asks(p))
    <3>1. \A j \in 1..ListTurns : Lst!Ask("push", j, 0) \in Asks(p)
      BY <2>1, AskIs
    <3> QED
      BY ONLY <1>0, <3>1
  <2> HIDE DEF a, b, d
  <2>4. a \o b \o d \in Seq(Asks(p))
    BY ONLY <2>2, <2>3
  <2>5. Lst!Mains(p) = {a \o b \o d}
    BY <1>1 DEF Lst!Mains, Lst!StackMain, a, b, d
  <2> QED
    BY ONLY <2>4, <2>5
<1>2. CASE p = "counted"
  <2>1. {"insert", "print", "free"} \subseteq Lst!Operations(p)
    BY <1>2 DEF Lst!Operations
  <2> DEFINE b == [j \in 1..ListTurns |-> Lst!Ask("insert", 0 + j, 0)]
             d == <<Lst!Ask("print", 0, 0), Lst!Ask("free", 0, 0)>>
  <2>2. d \in Seq(Asks(p))
    <3>1. Lst!Ask("print", 0, 0) \in Asks(p) /\ Lst!Ask("free", 0, 0) \in Asks(p)
      BY <2>1, AskIs
    <3> QED
      BY ONLY <3>1
  <2>3. b \in Seq(Asks(p))
    <3>1. \A j \in 1..ListTurns : 0 + j \in Int
      BY <1>0
    <3>2. \A j \in 1..ListTurns : Lst!Ask("insert", 0 + j, 0) \in Asks(p)
      BY <2>1, <3>1, AskIs
    <3> QED
      BY ONLY <1>0, <3>2
  <2> HIDE DEF b, d
  <2>4. b \o d \in Seq(Asks(p))
    BY ONLY <2>2, <2>3
  <2>5. Lst!Mains(p) = {b \o d}
    BY <1>2 DEF Lst!Mains, Lst!CountedMain, Lst!Repeated, b, d
  <2> QED
    BY ONLY <2>4, <2>5
<1>3. CASE p = "indexed"
  <2>1. {"add", "insert_at", "remove", "remove_at", "sort", "print", "free"} \subseteq Lst!Operations(p)
    BY <1>3 DEF Lst!Operations
  <2>2. Lst!IndexedMain \in Seq(Asks(p))
    <3>1. /\ Lst!Ask("add", 10, 0) \in Asks(p) /\ Lst!Ask("add", 20, 0) \in Asks(p) /\ Lst!Ask("add", 30, 0) \in Asks(p)
          /\ Lst!Ask("print", 0, 0) \in Asks(p) /\ Lst!Ask("insert_at", 10, 1) \in Asks(p)
          /\ Lst!Ask("remove", 20, 0) \in Asks(p) /\ Lst!Ask("remove_at", 0, 1) \in Asks(p)
      BY <2>1, AskIs
    <3> QED
      BY ONLY <3>1 DEF Lst!IndexedMain
  <2> DEFINE d == <<Lst!Ask("add", 10, 0), Lst!Ask("add", -1, 0), Lst!Ask("add", 5, 0), Lst!Ask("sort", 0, 0),
                    Lst!Ask("print", 0, 0), Lst!Ask("free", 0, 0)>>
             e == <<Lst!Ask("free", 0, 0)>>
  <2>3. d \in Seq(Asks(p)) /\ e \in Seq(Asks(p))
    <3>1. /\ Lst!Ask("add", 10, 0) \in Asks(p) /\ Lst!Ask("add", -1, 0) \in Asks(p) /\ Lst!Ask("add", 5, 0) \in Asks(p)
          /\ Lst!Ask("sort", 0, 0) \in Asks(p) /\ Lst!Ask("print", 0, 0) \in Asks(p) /\ Lst!Ask("free", 0, 0) \in Asks(p)
      BY <2>1, AskIs
    <3> QED
      BY ONLY <3>1
  <2> HIDE DEF d, e
  <2>4. Lst!IndexedMain \o e \in Seq(Asks(p)) /\ Lst!IndexedMain \o d \in Seq(Asks(p))
    BY ONLY <2>2, <2>3
  <2>5. Lst!Mains(p) = {Lst!IndexedMain \o e, Lst!IndexedMain \o d}
    BY <1>3 DEF Lst!Mains, Lst!SortMain, d, e
  <2> QED
    BY ONLY <2>4, <2>5
<1>4. CASE p = "doubly"
  <2>1. {"insert", "find", "print", "free"} \subseteq Lst!Operations(p)
    BY <1>4 DEF Lst!Operations
  <2>2. Lst!DoublyMain \in Seq(Asks(p))
    <3>1. /\ Lst!Ask("insert", 1, 0) \in Asks(p) /\ Lst!Ask("insert", 2, 0) \in Asks(p) /\ Lst!Ask("insert", 3, 0) \in Asks(p)
          /\ Lst!Ask("print", 0, 0) \in Asks(p) /\ Lst!Ask("find", 1, 0) \in Asks(p) /\ Lst!Ask("free", 0, 0) \in Asks(p)
      BY <2>1, AskIs
    <3> QED
      BY ONLY <3>1 DEF Lst!DoublyMain
  <2>3. Lst!Mains(p) = {Lst!DoublyMain}
    BY <1>4 DEF Lst!Mains
  <2> QED
    BY <2>2, <2>3
<1> QED
  BY <1>1, <1>2, <1>3, <1>4 DEF FourLists

ListsInv ==
  /\ lprogram \in FourLists /\ ltodo \in Seq(Asks(lprogram)) /\ CellsTyped
  /\ lpc # "done" => \E s : Shaped(s)

LEMMA ListsInit == ASSUME Lst!ListsAssumption, Lst!Init PROVE ListsInv
<1>1. lprogram \in FourLists
  BY DEF Lst!Init, Lst!ListsAssumption, FourLists
<1>2. ltodo \in Seq(Asks(lprogram))
  <2>1. ltodo \in Lst!Mains(lprogram) \/ ltodo = <<>>
    BY DEF Lst!Init
  <2>2. Lst!Mains(lprogram) \subseteq Seq(Asks(lprogram))
    BY <1>1, MainsTyped
  <2>3. <<>> \in Seq(Asks(lprogram))
    OBVIOUS
  <2> QED
    BY ONLY <2>1, <2>2, <2>3
<1>3. CellsTyped
  BY DEF Lst!Init, CellsTyped, Pointers
<1>4. Shaped(<<>>)
  <2>1. lroot = Null /\ ltail = Null /\ lcount = 0 /\ lalive = {}
    BY DEF Lst!Init
  <2>2. Row(<<>>) /\ Leads(lnext, Null, <<>>)
    BY EmptyRow
  <2>3. Len(<<>>) = 0 /\ 1..0 = {}
    OBVIOUS
  <2>4. InRow(<<>>) = {} /\ Spot(<<>>, Len(<<>>)) = Null /\ Backs(lprev, <<>>)
    BY <2>3 DEF InRow, Spot, Backs
  <2> QED
    BY <2>1, <2>2, <2>3, <2>4 DEF Shaped, InShape
<1> QED
  BY <1>1, <1>2, <1>3, <1>4 DEF ListsInv

\* What follows a good call.
LEMMA AfterCall ==
  ASSUME Lst!ListsAssumption, ListsInv, lpc # "done", NEW c, c.op \in Lst!Operations(lprogram), lprogram' = lprogram,
         Lst!Do(c), lpc' = IF Lst!Exits(c) THEN "done" ELSE lpc, ltodo' \in Seq(Asks(lprogram))
  PROVE  ListsInv' /\ Lst!CallRight
<1>1. PICK s : Shaped(s)
  BY DEF ListsInv
<1>2. Ready(s, c)
  BY <1>1 DEF Ready, ListsInv
<1>3. CellsTyped' /\ (c.op # "free" => \E t : NextShaped(t)) /\ Lst!CallRight
  BY <1>2, DoGood DEF Good
<1>4. lpc' # "done" => c.op # "free"
  BY DEF Lst!Exits
<1>5. lpc' # "done" => \E t : InShape(t, lprogram', lroot', ltail', lnext', lprev', lcount', lalive')
  BY <1>3, <1>4 DEF NextShaped
<1> QED
  BY <1>3, <1>5 DEF ListsInv, Shaped

LEMMA ListsStep == ASSUME Lst!ListsAssumption, ListsInv, Lst!Next PROVE ListsInv' /\ Lst!CallRight
<1>0. lprogram \in FourLists /\ ltodo \in Seq(Asks(lprogram))
  BY DEF ListsInv
<1>1. CASE Lst!MainCalls
  <2> DEFINE c == Head(ltodo)
  <2>1. /\ lpc = "main" /\ ltodo # <<>> /\ Lst!Do(c) /\ lpc' = (IF Lst!Exits(c) THEN "done" ELSE lpc) /\ lprogram' = lprogram
        /\ ltodo' = IF lprogram = "stack" /\ ~lcall'.ok THEN <<Lst!Ask("free", 0, 0)>> ELSE Tail(ltodo)
    BY <1>1 DEF Lst!MainCalls
  <2>2. c \in Asks(lprogram) /\ Tail(ltodo) \in Seq(Asks(lprogram))
    BY <1>0, <2>1
  <2>3. c.op \in Lst!Operations(lprogram)
    <3> HIDE DEF c
    <3> QED
      BY <2>2 DEF Asks
  <2>4. lprogram = "stack" => <<Lst!Ask("free", 0, 0)>> \in Seq(Asks(lprogram))
    <3> SUFFICES ASSUME lprogram = "stack" PROVE <<Lst!Ask("free", 0, 0)>> \in Seq(Asks(lprogram))
      OBVIOUS
    <3>1. "free" \in Lst!Operations(lprogram)
      BY DEF Lst!Operations
    <3>2. Lst!Ask("free", 0, 0) \in Asks(lprogram)
      BY <3>1, AskIs
    <3> QED
      BY <3>2
  <2>5. ltodo' \in Seq(Asks(lprogram))
    BY ONLY <2>1, <2>2, <2>4
  <2> HIDE DEF c
  <2> QED
    BY <2>1, <2>3, <2>5, AfterCall
<1>2. CASE Lst!CallerCalls
  <2>1. lpc = "caller" /\ lprogram' = lprogram /\ ltodo' = ltodo
    BY <1>2 DEF Lst!CallerCalls
  <2>2. PICK op \in Lst!Operations(lprogram), v \in Values, i \in -1..Room :
          Lst!Do(Lst!Ask(op, v, i)) /\ lpc' = IF Lst!Exits(Lst!Ask(op, v, i)) THEN "done" ELSE lpc
    BY <1>2 DEF Lst!CallerCalls
  <2> DEFINE c == Lst!Ask(op, v, i)
  <2>3. c.op \in Lst!Operations(lprogram)
    BY DEF Lst!Ask
  <2> HIDE DEF c
  <2>4. Lst!Do(c) /\ lpc' = IF Lst!Exits(c) THEN "done" ELSE lpc
    BY <2>2 DEF c
  <2>5. ltodo' \in Seq(Asks(lprogram))
    BY <1>0, <2>1
  <2> QED
    BY <2>1, <2>3, <2>4, <2>5, AfterCall
<1> QED
  BY <1>1, <1>2 DEF Lst!Next

LEMMA ListsStays == ListsInv /\ UNCHANGED Lst!vars => ListsInv'
BY DEF ListsInv, CellsTyped, Shaped, Lst!vars

\* In every such state the pointers reach what is allocated, from both ends.
LEMMA ListsSound == ASSUME Lst!ListsAssumption, ListsInv PROVE Lst!ChainSound
<1> SUFFICES ASSUME lpc # "done"
             PROVE  /\ Len(Lst!Chain) <= Lst!Cardinality(ListNodes) /\ lalive = Lst!ToSet(Lst!Chain)
                    /\ (lprogram \in {"stack", "doubly"} /\ lroot # Null
                          => Lst!BackFrom(Lst!Chain[Len(Lst!Chain)]) = Lst!Reverse(Lst!Chain))
                    /\ (lprogram = "stack" => ltail = IF lroot = Null THEN Null ELSE Lst!Chain[Len(Lst!Chain)])
                    /\ (lprogram = "counted" => lcount = Len(Lst!Chain))
  BY DEF Lst!ChainSound
<1>1. PICK s : Shaped(s)
  BY DEF ListsInv
<1>2. /\ Row(s) /\ Leads(lnext, lroot, s) /\ lalive = InRow(s)
      /\ lprogram = "stack" => ltail = Spot(s, Len(s))
      /\ lprogram \in {"stack", "doubly"} => Backs(lprev, s)
      /\ lprogram = "counted" => lcount = Len(s)
  BY <1>1 DEF Shaped, InShape
<1>3. Lst!Chain = s
  BY <1>2, ChainIs
<1>4. Len(s) <= Lst!Cardinality(ListNodes)
  <2>1. Len(s) <= Cardinality(ListNodes)
    BY <1>2, RowLength
  <2>2. Lst!Cardinality(ListNodes) = Cardinality(ListNodes)
    BY ListsCardinality
  <2> QED
    BY <2>1, <2>2
<1>5. DOMAIN s = 1..Len(s) /\ Len(s) \in Nat /\ (\A j \in 1..Len(s) : s[j] \in ListNodes) /\ Null \notin ListNodes
  BY <1>2, RowTyped, NodesFinite
<1>6. lalive = Lst!ToSet(s)
  BY <1>2, <1>5 DEF Lst!ToSet, InRow
<1>7. lroot = Null <=> Len(s) = 0
  BY <1>2, <1>5 DEF Leads, Spot
<1>8. Spot(s, Len(s)) = IF lroot = Null THEN Null ELSE s[Len(s)]
  BY <1>5, <1>7 DEF Spot
<1>9. lprogram \in {"stack", "doubly"} => Lst!BackFrom(Spot(s, Len(s))) = Lst!Reverse(s)
  BY <1>2, BackIs DEF Lst!BackFrom
<1>10. lprogram \in {"stack", "doubly"} /\ lroot # Null => Lst!BackFrom(s[Len(s)]) = Lst!Reverse(s)
  BY <1>8, <1>9
<1>11. lprogram = "stack" => ltail = IF lroot = Null THEN Null ELSE s[Len(s)]
  BY <1>2, <1>8
<1> QED
  BY <1>2, <1>3, <1>4, <1>6, <1>10, <1>11

\* Whatever is called on a stack or a list, and whichever malloc fails, its pointers lead to
\* what is allocated and to nothing else, from the last node back too where there are
\* pointers back, and the counted list counts its nodes.
THEOREM ChainsKept == ASSUME Lst!ListsAssumption PROVE Lst!Spec => []Lst!ChainSound
<1>1. Lst!Init => ListsInv
  BY ListsInit
<1>2. ListsInv /\ [Lst!Next]_(Lst!vars) => ListsInv'
  BY ListsStep, ListsStays
<1>3. ListsInv => Lst!ChainSound
  BY ListsSound
<1> QED
  BY <1>1, <1>2, <1>3, PTL DEF Lst!Spec

\* Every call does to the values of a stack or a list what the list promises, and nothing if
\* it fails: push and pop at the end, an index names its place, remove takes the first of its
\* kind, a sort orders the same values, and print and find tell what is there.
THEOREM CallsRight == ASSUME Lst!ListsAssumption PROVE Lst!Spec => Lst!ListsRight
<1>1. Lst!Init => ListsInv
  BY ListsInit
<1>2. ListsInv /\ [Lst!Next]_(Lst!vars) => ListsInv'
  BY ListsStep, ListsStays
<1>3. ListsInv /\ [Lst!Next]_(Lst!vars) => [Lst!CallRight]_(Lst!vars)
  BY ListsStep
<1> QED
  BY <1>1, <1>2, <1>3, PTL DEF Lst!Spec, Lst!ListsRight
==============================================================================
