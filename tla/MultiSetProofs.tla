---------------------------- MODULE MultiSetProofs ----------------------------
(***************************************************************************)
(* Proofs about MultiSet for any sets of items and handles and any bound   *)
(* on the counts.  What the walks do to one list of nodes is stated first, *)
(* of sequences alone.                                                     *)
(***************************************************************************)
EXTENDS MultiSet, FiniteSetTheorems, FunctionTheorems, SequenceTheorems, TLAPS

MembersOf(s) == {s[i].item : i \in DOMAIN s}
PlacesOf(s, x) == {i \in DOMAIN s : s[i].item = x}
CountIn(s, x) == IF PlacesOf(s, x) = {} THEN 0 ELSE s[CHOOSE i \in PlacesOf(s, x) : TRUE].count
NoDup(s) == \A i, j \in DOMAIN s : s[i].item = s[j].item => i = j

\* In a list without duplicates the count of an item is that of its node.
LEMMA CountOfNode ==
  ASSUME NEW s \in Seq(Node), NoDup(s)
  PROVE  /\ \A i \in DOMAIN s : CountIn(s, s[i].item) = s[i].count
         /\ \A x : x \notin MembersOf(s) => CountIn(s, x) = 0
<1>1. ASSUME NEW i \in DOMAIN s PROVE CountIn(s, s[i].item) = s[i].count
  <2>1. PlacesOf(s, s[i].item) = {i}
    BY DEF PlacesOf, NoDup
  <2> QED
    BY <2>1 DEF CountIn
<1>2. ASSUME NEW x, x \notin MembersOf(s) PROVE CountIn(s, x) = 0
  BY <1>2 DEF CountIn, PlacesOf, MembersOf
<1> QED
  BY <1>1, <1>2

\* A count is a number, and positive for the members.
LEMMA CountsPositive ==
  ASSUME NEW s \in Seq(Node), NoDup(s), SetAssumption
  PROVE  \A x : CountIn(s, x) \in 0..MaxCount /\ (CountIn(s, x) > 0 <=> x \in MembersOf(s))
<1> TAKE x
<1>1. CASE x \in MembersOf(s)
  <2>1. PICK i \in DOMAIN s : s[i].item = x
    BY <1>1 DEF MembersOf
  <2>2. CountIn(s, x) = s[i].count
    BY <2>1, CountOfNode
  <2>3. s[i] \in Node
    BY <2>1
  <2>4. s[i].count \in 1..MaxCount
    BY <2>3 DEF Node
  <2> QED
    BY <1>1, <2>2, <2>4, SetAssumption DEF SetAssumption
<1>2. CASE x \notin MembersOf(s)
  BY <1>2, CountOfNode, SetAssumption DEF SetAssumption
<1> QED
  BY <1>1, <1>2

\* A new node in front of a list that has no node of its item.
InFront(t, r, s) == Len(t) = Len(s) + 1 /\ t[1] = r /\ \A i \in 1..Len(s) : t[i+1] = s[i]

LEMMA Fronted ==
  ASSUME NEW s \in Seq(Node), NoDup(s), NEW r \in Node, r.item \notin MembersOf(s),
         NEW t \in Seq(Node), InFront(t, r, s)
  PROVE  /\ NoDup(t)
         /\ MembersOf(t) = MembersOf(s) \cup {r.item}
         /\ \A y : CountIn(t, y) = IF y = r.item THEN r.count ELSE CountIn(s, y)
<1> DEFINE x == r.item
           n == r.count
<1>2. /\ t \in Seq(Node) /\ Len(t) = Len(s) + 1
      /\ t[1] = r
      /\ \A i \in 1..Len(s) : t[i+1] = s[i]
  BY DEF InFront
<1>3. /\ DOMAIN t = 1..(Len(s) + 1) /\ DOMAIN s = 1..Len(s) /\ Len(s) \in Nat
      /\ \A i \in DOMAIN t : i = 1 \/ (i - 1 \in DOMAIN s /\ t[i] = s[i-1])
  BY <1>2
<1>4. \A i \in DOMAIN s : s[i].item # x
  BY DEF MembersOf
<1>5. NoDup(t)
  <2> SUFFICES ASSUME NEW i \in DOMAIN t, NEW j \in DOMAIN t, t[i].item = t[j].item PROVE i = j
    BY DEF NoDup
  <2>1. CASE i = 1 \/ j = 1
    BY <2>1, <1>2, <1>3, <1>4
  <2>2. CASE i # 1 /\ j # 1
    <3>1. i - 1 \in DOMAIN s /\ j - 1 \in DOMAIN s /\ s[i-1].item = s[j-1].item
      BY <2>2, <1>3
    <3>2. i - 1 = j - 1
      BY <3>1 DEF NoDup
    <3> QED
      BY <3>2, <1>3
  <2> QED
    BY <2>1, <2>2
<1>6. MembersOf(t) = MembersOf(s) \cup {x}
  <2>1. \A y \in MembersOf(t) : y \in MembersOf(s) \cup {x}
    BY <1>2, <1>3 DEF MembersOf
  <2>2. ASSUME NEW y \in MembersOf(s) PROVE y \in MembersOf(t)
    <3>1. PICK i \in DOMAIN s : s[i].item = y
      BY DEF MembersOf
    <3>2. i + 1 \in DOMAIN t /\ t[i+1].item = y
      BY <3>1, <1>2, <1>3
    <3> QED
      BY <3>2 DEF MembersOf
  <2>3. 1 \in DOMAIN t /\ t[1].item = x
    BY <1>2, <1>3
  <2>4. x \in MembersOf(t)
    BY <2>3 DEF MembersOf
  <2> QED
    BY <2>1, <2>2, <2>4
<1>7. ASSUME NEW y PROVE CountIn(t, y) = IF y = x THEN n ELSE CountIn(s, y)
  <2>1. CASE y = x
    <3>1. 1 \in DOMAIN t /\ t[1].item = x /\ t[1].count = n
      BY <1>2, <1>3
    <3> QED
      BY <2>1, <3>1, <1>2, <1>5, CountOfNode
  <2>2. CASE y \in MembersOf(s) /\ y # x
    <3>1. PICK i \in DOMAIN s : s[i].item = y
      BY <2>2 DEF MembersOf
    <3>2. i + 1 \in DOMAIN t /\ t[i+1] = s[i]
      BY <3>1, <1>2, <1>3
    <3>3. CountIn(s, y) = s[i].count
      BY <3>1, CountOfNode
    <3>4. CountIn(t, t[i+1].item) = t[i+1].count
      BY <3>2, <1>2, <1>5, CountOfNode
    <3> QED
      BY <2>2, <3>1, <3>2, <3>3, <3>4
  <2>3. CASE y \notin MembersOf(s) /\ y # x
    <3>1. y \notin MembersOf(t)
      BY <2>3, <1>6
    <3> QED
      BY <2>3, <3>1, <1>2, <1>5, CountOfNode
  <2> QED
    BY <2>1, <2>2, <2>3
<1> QED
  BY <1>2, <1>5, <1>6, <1>7

\* A node counted n times more.
LEMMA Bumped ==
  ASSUME NEW s \in Seq(Node), NoDup(s), SetAssumption, NEW x \in MembersOf(s), NEW n \in Nat,
         CountIn(s, x) + n <= MaxCount,
         NEW t, t = [i \in DOMAIN s |-> IF s[i].item = x THEN [s[i] EXCEPT !.count = @ + n] ELSE s[i]]
  PROVE  /\ t \in Seq(Node) /\ Len(t) = Len(s) /\ NoDup(t)
         /\ MembersOf(t) = MembersOf(s)
         /\ \A i \in DOMAIN s : t[i].item = s[i].item
         /\ \A y : CountIn(t, y) = IF y = x THEN CountIn(s, y) + n ELSE CountIn(s, y)
<1>1. /\ Len(s) \in Nat /\ DOMAIN s = 1..Len(s)
      /\ \A i \in DOMAIN s : s[i] \in Node
  OBVIOUS
<1>2. ASSUME NEW i \in DOMAIN s
      PROVE  /\ t[i] \in Node /\ t[i].item = s[i].item
             /\ t[i].count = IF s[i].item = x THEN s[i].count + n ELSE s[i].count
  <2>1. CASE s[i].item = x
    <3>1. s[i].count = CountIn(s, x)
      BY <2>1, CountOfNode
    <3>2. s[i].count + n \in 1..MaxCount /\ s[i] \in [item : Items, count : 1..MaxCount]
      BY <1>1, <3>1, SetAssumption DEF Node, SetAssumption
    <3>3. t[i] = [item |-> s[i].item, count |-> s[i].count + n]
      BY <2>1, <3>2
    <3> QED
      BY <2>1, <3>2, <3>3 DEF Node
  <2>2. CASE s[i].item # x
    BY <1>1, <2>2
  <2> QED
    BY <2>1, <2>2
<1>3. t \in Seq(Node) /\ Len(t) = Len(s) /\ DOMAIN t = DOMAIN s
  BY <1>1, <1>2
<1>4. NoDup(t)
  BY <1>2, <1>3 DEF NoDup
<1>5. MembersOf(t) = MembersOf(s)
  BY <1>2, <1>3 DEF MembersOf
<1>6. ASSUME NEW y PROVE CountIn(t, y) = IF y = x THEN CountIn(s, y) + n ELSE CountIn(s, y)
  <2>1. CASE y \in MembersOf(s)
    <3>1. PICK i \in DOMAIN s : s[i].item = y
      BY <2>1 DEF MembersOf
    <3>2. CountIn(s, s[i].item) = s[i].count
      BY CountOfNode
    <3>3. CountIn(t, t[i].item) = t[i].count
      BY <1>3, <1>4, CountOfNode
    <3> QED
      BY <1>2, <3>1, <3>2, <3>3
  <2>2. CASE y \notin MembersOf(s)
    BY <2>2, <1>3, <1>4, <1>5, CountOfNode
  <2> QED
    BY <2>1, <2>2
<1> QED
  BY <1>2, <1>3, <1>4, <1>5, <1>6

\* A list without its ith node.
LEMMA Without ==
  ASSUME NEW s \in Seq(Node), NEW i \in 1..Len(s)
  PROVE  /\ SubSeq(s, 1, i-1) \o SubSeq(s, i+1, Len(s)) \in Seq(Node)
         /\ Len(SubSeq(s, 1, i-1) \o SubSeq(s, i+1, Len(s))) = Len(s) - 1
         /\ \A j \in 1..(Len(s) - 1) :
              (SubSeq(s, 1, i-1) \o SubSeq(s, i+1, Len(s)))[j] = IF j < i THEN s[j] ELSE s[j+1]
<1> DEFINE n == Len(s)
           a == SubSeq(s, 1, i-1)
           b == SubSeq(s, i+1, n)
           t == a \o b
<1>1. n \in Nat /\ i \in 1..n
  OBVIOUS
<1>2. a \in Seq(Node) /\ Len(a) = i - 1 /\ \A j \in 1..(i-1) : a[j] = s[j]
  <2>1. \A j \in 1..(i-1) : s[j] \in Node
    BY <1>1
  <2> QED
    BY <1>1, <2>1, SubSeqProperties
<1>3. b \in Seq(Node) /\ Len(b) = n - i /\ \A j \in 1..(n - i) : b[j] = s[i+j]
  <2>1. \A j \in (i+1)..n : s[j] \in Node
    BY <1>1
  <2>2. /\ b \in Seq(Node) /\ Len(b) = (IF i+1 <= n THEN n - (i+1) + 1 ELSE 0)
        /\ \A j \in 1..(n - (i+1) + 1) : b[j] = s[(i+1) + j - 1]
    BY <1>1, <2>1, SubSeqProperties
  <2> QED
    BY <1>1, <2>2
<1>4. /\ t \in Seq(Node) /\ Len(t) = Len(a) + Len(b)
      /\ \A j \in 1..(Len(a) + Len(b)) : t[j] = IF j <= Len(a) THEN a[j] ELSE b[j - Len(a)]
  <2> HIDE DEF a, b
  <2> QED
    BY <1>2, <1>3, ConcatProperties
<1> SUFFICES t \in Seq(Node) /\ Len(t) = n - 1
             /\ \A j \in 1..(n - 1) : t[j] = IF j < i THEN s[j] ELSE s[j+1]
  OBVIOUS
<1> HIDE DEF a, b, t, n
<1>5. Len(a) + Len(b) = n - 1
  BY <1>1, <1>2, <1>3
<1>6. ASSUME NEW j \in 1..(n - 1) PROVE t[j] = IF j < i THEN s[j] ELSE s[j+1]
  <2>1. CASE j < i
    <3>1. j \in 1..(i-1) /\ j <= Len(a)
      BY <1>1, <1>2, <2>1
    <3>2. t[j] = a[j]
      BY <1>4, <1>5, <3>1
    <3> QED
      BY <1>2, <2>1, <3>1, <3>2
  <2>2. CASE ~(j < i)
    <3>1. j - (i-1) \in 1..(n - i) /\ i + (j - (i-1)) = j + 1 /\ ~(j <= Len(a))
      BY <1>1, <1>2, <2>2
    <3>2. t[j] = b[j - (i-1)]
      BY <1>2, <1>4, <1>5, <3>1
    <3>3. b[j - (i-1)] = s[i + (j - (i-1))]
      BY <1>3, <3>1
    <3> QED
      BY <2>2, <3>1, <3>2, <3>3
  <2> QED
    BY <2>1, <2>2
<1> QED
  BY <1>4, <1>5, <1>6

LEMMA Shortened ==
  ASSUME NEW s \in Seq(Node), NoDup(s), NEW i \in DOMAIN s,
         NEW t \in Seq(Node), Len(t) = Len(s) - 1,
         \A j \in 1..(Len(s) - 1) : t[j] = IF j < i THEN s[j] ELSE s[j+1]
  PROVE  NoDup(t)
<1> SUFFICES ASSUME NEW j \in DOMAIN t, NEW k \in DOMAIN t, t[j].item = t[k].item PROVE j = k
  BY DEF NoDup
<1> DEFINE At(m) == IF m < i THEN m ELSE m + 1
<1>1. Len(s) \in Nat /\ DOMAIN s = 1..Len(s) /\ DOMAIN t = 1..(Len(s) - 1)
  OBVIOUS
<1>2. At(j) \in DOMAIN s /\ At(k) \in DOMAIN s /\ t[j] = s[At(j)] /\ t[k] = s[At(k)]
  BY <1>1
<1>3. At(j) = At(k)
  BY <1>2 DEF NoDup
<1> QED
  BY <1>1, <1>3

\* A list without duplicates is as long as it has members.
LEMMA AsLongAsMembers ==
  ASSUME NEW s \in Seq(Node), NoDup(s)
  PROVE  IsFiniteSet(MembersOf(s)) /\ Cardinality(MembersOf(s)) = Len(s)
<1>1. Len(s) \in Nat /\ DOMAIN s = 1..Len(s)
  OBVIOUS
<1>2. IsFiniteSet(1..Len(s)) /\ Cardinality(1..Len(s)) = Len(s)
  BY <1>1, FS_Interval
<1> DEFINE f == [i \in 1..Len(s) |-> s[i].item]
<1>3. f \in Bijection(1..Len(s), MembersOf(s))
  <2>1. f \in [1..Len(s) -> MembersOf(s)]
    BY <1>1 DEF MembersOf
  <2>2. \A i, j \in 1..Len(s) : f[i] = f[j] => i = j
    BY <1>1 DEF NoDup
  <2>3. \A x \in MembersOf(s) : \E i \in 1..Len(s) : f[i] = x
    BY <1>1 DEF MembersOf
  <2> QED
    BY <2>1, <2>2, <2>3, Fun_IsBij
<1>4. ExistsBijection(1..Len(s), MembersOf(s))
  BY <1>3 DEF ExistsBijection
<1> QED
  BY <1>2, <1>4, FS_Bijection
-----------------------------------------------------------------------------
(***************************************************************************)
(* The state.                                                              *)
(***************************************************************************)
ListsOK ==
  /\ list \in [Handles -> Seq(Node)] /\ size \in [Handles -> Nat]
  /\ \A h \in Handles : NoDup(list[h]) /\ size[h] = Len(list[h])

LEMMA AsLists ==
  /\ NoDuplicates <=> \A h \in Handles : NoDup(list[h]) /\ size[h] = Len(list[h])
  /\ \A h : Members(h) = MembersOf(list[h])
  /\ \A h, x : Contains(h, x) <=> x \in MembersOf(list[h])
  /\ \A h, x : Count(h, x) = CountIn(list[h], x)
<1>1. NoDuplicates <=> \A h \in Handles : NoDup(list[h]) /\ size[h] = Len(list[h])
  BY DEF NoDuplicates, NoDup
<1>2. \A h : Members(h) = MembersOf(list[h])
  BY DEF Members, MembersOf
<1>3. \A h, x : Contains(h, x) <=> x \in MembersOf(list[h])
  BY DEF Contains, Index, MembersOf
<1>4. \A h, x : Count(h, x) = CountIn(list[h], x)
  BY DEF Count, Index, CountIn, PlacesOf
<1> QED
  BY <1>1, <1>2, <1>3, <1>4

LEMMA AsListsNext ==
  /\ NoDuplicates' <=> \A h \in Handles : NoDup(list'[h]) /\ size'[h] = Len(list'[h])
  /\ \A h : Members(h)' = MembersOf(list'[h])
  /\ \A h, x : Count(h, x)' = CountIn(list'[h], x)
<1>1. NoDuplicates' <=> \A h \in Handles : NoDup(list'[h]) /\ size'[h] = Len(list'[h])
  BY DEF NoDuplicates, NoDup
<1>2. \A h : Members(h)' = MembersOf(list'[h])
  BY DEF Members, MembersOf
<1>3. \A h, x : Count(h, x)' = CountIn(list'[h], x)
  BY DEF Count, Index, CountIn, PlacesOf
<1> QED
  BY <1>1, <1>2, <1>3

LEMMA SetInvLists == SetInv => ListsOK
BY AsLists DEF SetInv, TypeOK, ListsOK

\* A step that replaces the list of one set and its count field.
LEMMA StoreDoes ==
  ASSUME ListsOK, NEW h \in Handles, NEW t \in Seq(Node), NoDup(t),
         list' = [list EXCEPT ![h] = t], size' = [size EXCEPT ![h] = Len(t)]
  PROVE  /\ ListsOK' /\ list'[h] = t
         /\ \A g \in Handles \ {h} : list'[g] = list[g]
<1>1. Len(t) \in Nat
  OBVIOUS
<1>2. list' \in [Handles -> Seq(Node)] /\ size' \in [Handles -> Nat]
  BY <1>1 DEF ListsOK
<1>3. list'[h] = t /\ size'[h] = Len(t)
  BY DEF ListsOK
<1>4. \A g \in Handles \ {h} : list'[g] = list[g] /\ size'[g] = size[g]
  BY DEF ListsOK
<1>5. \A g \in Handles : NoDup(list'[g]) /\ size'[g] = Len(list'[g])
  BY <1>3, <1>4 DEF ListsOK
<1>6. ListsOK'
  BY <1>2, <1>5 DEF ListsOK, NoDup
<1> QED
  BY <1>3, <1>4, <1>6

\* What holds of the set that a step gave a new node, or a higher count.
LEMMA AddNodeDoes ==
  ASSUME ListsOK, NEW h \in Handles, NEW x \in Items, NEW n \in 1..MaxCount,
         x \notin MembersOf(list[h]), AddNode(h, x, n)
  PROVE  /\ ListsOK' /\ \A g \in Handles \ {h} : list'[g] = list[g]
         /\ MembersOf(list'[h]) = MembersOf(list[h]) \cup {x}
         /\ \A y : CountIn(list'[h], y) = IF y = x THEN n ELSE CountIn(list[h], y)
<1> DEFINE r == [item |-> x, count |-> n]
           t == <<r>> \o list[h]
<1>1. list[h] \in Seq(Node) /\ NoDup(list[h]) /\ size[h] = Len(list[h])
  BY DEF ListsOK
<1>2. /\ t \in Seq(Node) /\ Len(t) = Len(list[h]) + 1 /\ NoDup(t)
      /\ MembersOf(t) = MembersOf(list[h]) \cup {x}
      /\ \A y : CountIn(t, y) = IF y = x THEN n ELSE CountIn(list[h], y)
  <2>1. r \in Node /\ r.item = x /\ r.count = n /\ r.item \notin MembersOf(list[h])
    BY DEF Node
  <2>2. t \in Seq(Node) /\ Len(t) = Len(list[h]) + 1 /\ InFront(t, r, list[h])
    <3> HIDE DEF r
    <3> QED
      BY <1>1, <2>1 DEF InFront
  <2> HIDE DEF t, r
  <2>3. /\ NoDup(t)
        /\ MembersOf(t) = MembersOf(list[h]) \cup {r.item}
        /\ \A y : CountIn(t, y) = IF y = r.item THEN r.count ELSE CountIn(list[h], y)
    BY <1>1, <2>1, <2>2, Fronted
  <2> QED
    BY <2>1, <2>2, <2>3
<1>3. list' = [list EXCEPT ![h] = t] /\ size' = [size EXCEPT ![h] = Len(t)]
  BY <1>1, <1>2 DEF AddNode, Store
<1> HIDE DEF t
<1>4. ListsOK' /\ list'[h] = t /\ \A g \in Handles \ {h} : list'[g] = list[g]
  BY <1>2, <1>3, StoreDoes
<1> QED
  BY <1>2, <1>4

LEMMA BumpDoes ==
  ASSUME SetAssumption, ListsOK, NEW h \in Handles, NEW x \in MembersOf(list[h]), NEW n \in Nat,
         Count(h, x) + n <= MaxCount, Bump(h, x, n)
  PROVE  /\ ListsOK' /\ \A g \in Handles \ {h} : list'[g] = list[g]
         /\ Len(list'[h]) = Len(list[h])
         /\ \A i \in DOMAIN list[h] : list'[h][i].item = list[h][i].item
         /\ MembersOf(list'[h]) = MembersOf(list[h])
         /\ \A y : CountIn(list'[h], y) = IF y = x THEN CountIn(list[h], y) + n ELSE CountIn(list[h], y)
<1> DEFINE t == [i \in DOMAIN list[h] |->
                   IF list[h][i].item = x THEN [list[h][i] EXCEPT !.count = @ + n] ELSE list[h][i]]
<1>1. list[h] \in Seq(Node) /\ NoDup(list[h]) /\ size[h] = Len(list[h])
  BY DEF ListsOK
<1>2. CountIn(list[h], x) + n <= MaxCount
  BY AsLists
<1>3. /\ t \in Seq(Node) /\ Len(t) = Len(list[h]) /\ NoDup(t)
      /\ MembersOf(t) = MembersOf(list[h])
      /\ \A i \in DOMAIN list[h] : t[i].item = list[h][i].item
      /\ \A y : CountIn(t, y) = IF y = x THEN CountIn(list[h], y) + n ELSE CountIn(list[h], y)
  <2>1. t = [i \in DOMAIN list[h] |->
               IF list[h][i].item = x THEN [list[h][i] EXCEPT !.count = @ + n] ELSE list[h][i]]
    OBVIOUS
  <2> HIDE DEF t
  <2> QED
    BY <1>1, <1>2, <2>1, SetAssumption, Bumped
<1>4. list' = [list EXCEPT ![h] = t] /\ size' = size
  BY DEF Bump
<1> HIDE DEF t
<1>5. size' = [size EXCEPT ![h] = Len(t)]
  BY <1>1, <1>3, <1>4 DEF ListsOK
<1>6. ListsOK' /\ list'[h] = t /\ \A g \in Handles \ {h} : list'[g] = list[g]
  BY <1>3, <1>4, <1>5, StoreDoes
<1> QED
  BY <1>3, <1>6

LEMMA NextNode ==
  ASSUME NEW j \in Walks, NEW k, k = [j EXCEPT !.at = @ + 1]
  PROVE  /\ k \in Walks /\ k.at = j.at + 1
         /\ k.op = j.op /\ k.to = j.to /\ k.from = j.from /\ k.other = j.other /\ k.was = j.was
<1> DEFINE Was == [Handles -> [Items -> Nat]]
<1>1. j \in [op : {"concat", "multiconcat", "union", "union2", "intersection", "difference"},
             to : Handles, from : Handles, other : Handles, at : Nat, was : Was]
  BY DEF Walks
<1> HIDE DEF Was
<1>2. /\ k \in [op : {"concat", "multiconcat", "union", "union2", "intersection", "difference"},
               to : Handles, from : Handles, other : Handles, at : Nat, was : Was]
      /\ k.at = j.at + 1
      /\ k.op = j.op /\ k.to = j.to /\ k.from = j.from /\ k.other = j.other /\ k.was = j.was
  BY <1>1
<1> QED
  BY <1>2 DEF Walks, Was

\* The range of a walk, and that what it reads is counted as before the call.
LEMMA WalkTypes ==
  ASSUME SetInv, job # NoJob
  PROVE  /\ job \in Walks
         /\ job.to \in Handles /\ job.from \in Handles /\ job.other \in Handles
         /\ job.at \in 1..(Len(list[job.from]) + 1)
         /\ \A h \in Handles, x \in Items : job.was[h][x] \in Nat
<1>1. job \in Walks
  BY DEF SetInv, TypeOK
<1> QED
  BY <1>1 DEF SetInv, TypeOK, Walks

LEMMA WasMembers ==
  ASSUME SetAssumption, SetInv, job # NoJob, NEW h \in Handles \ {job.to}
  PROVE  Members(h) = Before(h)
<1>1. list[h] \in Seq(Node) /\ NoDup(list[h])
  BY SetInvLists DEF ListsOK
<1>2. \A x \in Items : CountIn(list[h], x) = job.was[h][x]
  BY AsLists DEF SetInv, WalkRight
<1>3. \A x \in Items : CountIn(list[h], x) > 0 <=> x \in MembersOf(list[h])
  BY <1>1, CountsPositive
<1>4. MembersOf(list[h]) \subseteq Items
  <2>1. \A i \in DOMAIN list[h] : list[h][i] \in Node
    BY <1>1
  <2> QED
    BY <2>1 DEF MembersOf, Node
<1> QED
  BY <1>2, <1>3, <1>4, AsLists DEF Before

\* At its end a walk has seen all of its set.
LEMMA SeenAll ==
  ASSUME SetInv, job # NoJob, ~Walking
  PROVE  Seen = Members(job.from)
<1>1. list[job.from] \in Seq(Node) /\ job.at \in 1..(Len(list[job.from]) + 1) /\ job.op # "none"
  BY WalkTypes, SetInvLists DEF ListsOK, Walks
<1>2. job.at - 1 = Len(list[job.from]) /\ DOMAIN list[job.from] = 1..Len(list[job.from])
  BY <1>1 DEF Walking
<1> QED
  BY <1>2 DEF Seen, Members

\* The node a walk is at: its item has not been seen, and its count is known.
LEMMA AtNode ==
  ASSUME SetAssumption, SetInv, Walking
  PROVE  /\ job # NoJob
         /\ job.at \in DOMAIN list[job.from] /\ list[job.from][job.at] \in Node
         /\ Item \in Items /\ Item \notin Seen /\ Item \in Members(job.from)
         /\ list[job.from][job.at].count = Count(job.from, Item)
<1>1. job # NoJob
  BY DEF Walking, NoJob
<1>2. list[job.from] \in Seq(Node) /\ NoDup(list[job.from])
  BY <1>1, WalkTypes, SetInvLists DEF ListsOK
<1>3. job.at \in DOMAIN list[job.from]
  BY <1>1, <1>2, WalkTypes DEF Walking
<1>4. list[job.from][job.at] \in Node
  BY <1>2, <1>3
<1>5. Item \in Items /\ Item \in Members(job.from)
  BY <1>3, <1>4 DEF Item, Node, Members
<1>6. Item \notin Seen
  <2> SUFFICES ASSUME NEW i \in 1..(job.at - 1), list[job.from][i].item = Item PROVE FALSE
    BY DEF Seen
  <2>1. i \in DOMAIN list[job.from] /\ i # job.at
    BY <1>2, <1>3
  <2> QED
    BY <1>2, <1>3, <2>1 DEF NoDup, Item
<1>7. list[job.from][job.at].count = Count(job.from, Item)
  <2>1. CountIn(list[job.from], list[job.from][job.at].item) = list[job.from][job.at].count
    BY <1>2, <1>3, CountOfNode
  <2> QED
    BY <2>1, AsLists DEF Item
<1> QED
  BY <1>1, <1>3, <1>4, <1>5, <1>6, <1>7

Onward ==
  /\ TypeOK' /\ NoDuplicates'
  /\ job' \in Walks /\ job'.op = job.op /\ job'.to = job.to /\ job'.from = job.from
  /\ job'.other = job.other /\ job'.was = job.was
  /\ Seen' = Seen \cup {Item}
  /\ \A h \in Handles \ {job.to}, x \in Items : Count(h, x)' = job.was[h][x]
  /\ Members(job.from)' = Before(job.from)
  /\ \A h : Before(h)' = Before(h)

\* One node further, whatever the walk: only the set it fills has changed, and of the set it
\* walks no item.
LEMMA WalkOn ==
  ASSUME SetAssumption, SetInv, Walking, job' = [job EXCEPT !.at = @ + 1], UNCHANGED live,
         ListsOK', \A h \in Handles \ {job.to} : list'[h] = list[h],
         Len(list'[job.from]) = Len(list[job.from]),
         \A i \in DOMAIN list[job.from] : list'[job.from][i].item = list[job.from][i].item
  PROVE  Onward
<1>1. job # NoJob /\ job \in Walks /\ job.from \in Handles /\ job.to \in Handles /\ job.other \in Handles
  BY AtNode, WalkTypes
<1>2. /\ job' \in Walks /\ job'.op = job.op /\ job'.to = job.to /\ job'.from = job.from
      /\ job'.other = job.other /\ job'.was = job.was /\ job'.at = job.at + 1
  BY <1>1, NextNode
<1>3. list[job.from] \in Seq(Node) /\ list'[job.from] \in Seq(Node)
  BY <1>1, SetInvLists DEF ListsOK
<1>4. DOMAIN list'[job.from] = DOMAIN list[job.from] /\ Len(list[job.from]) \in Nat
      /\ DOMAIN list[job.from] = 1..Len(list[job.from])
  BY <1>3
<1>5. job'.at \in 1..(Len(list'[job'.from]) + 1)
  BY <1>1, <1>2, <1>4, WalkTypes DEF Walking
<1>6. TypeOK'
  <2>1. live' \subseteq Handles /\ {job'.to, job'.from, job'.other} \subseteq live'
    BY <1>1, <1>2 DEF TypeOK, SetInv
  <2>2. list' \in [Handles -> Seq(Node)] /\ size' \in [Handles -> Nat]
    BY DEF ListsOK
  <2>3. job' \in Walks \cup {NoJob}
    BY <1>2
  <2> QED
    BY <1>5, <2>1, <2>2, <2>3 DEF TypeOK
<1>7. NoDuplicates'
  BY AsListsNext DEF ListsOK, NoDup
<1>8. Seen' = Seen \cup {Item}
  <2>1. job.at \in 1..Len(list[job.from])
    BY <1>4, AtNode
  <2>2. Seen' = {list[job.from][i].item : i \in 1..job.at}
    <3>1. job'.from = job.from /\ job'.at - 1 = job.at
      BY <1>2, <2>1
    <3>2. Seen' = {list'[job.from][i].item : i \in 1..job.at}
      BY <3>1 DEF Seen
    <3>3. \A i \in 1..job.at : list'[job.from][i].item = list[job.from][i].item
      BY <1>4, <2>1
    <3> QED
      BY <3>2, <3>3
  <2>3. 1..job.at = (1..(job.at - 1)) \cup {job.at}
    BY <2>1
  <2> QED
    BY ZenonT(60), <2>2, <2>3 DEF Seen, Item
<1>9. \A h \in Handles \ {job.to}, x \in Items : Count(h, x)' = job.was[h][x]
  BY <1>1, AsLists, AsListsNext DEF SetInv, WalkRight
<1>10. Members(job.from)' = Before(job.from)
  <2>1. MembersOf(list'[job.from]) = MembersOf(list[job.from])
    BY <1>4 DEF MembersOf
  <2>2. Members(job.from) = Before(job.from)
    BY <1>1 DEF SetInv, WalkRight
  <2>3. MembersOf(list'[job'.from]) = Before(job.from)
    BY <1>2, <2>1, <2>2, AsLists
  <2> QED
    BY <2>3 DEF Members, MembersOf
<1>11. \A h : Before(h)' = Before(h)
  BY <1>2 DEF Before
<1> QED
  BY <1>2, <1>6, <1>7, <1>8, <1>9, <1>10, <1>11 DEF Onward

\* If the set that is filled holds what the nodes up to this one give, the walk is right.
LEMMA OnwardRight ==
  ASSUME SetInv, job # NoJob, Onward, \A h \in Handles \ {job.to} : list'[h] = list[h],
         job.op = "concat" => MembersOf(list'[job.to]) = Before(job.to) \cup Seen \cup {Item},
         job.op = "multiconcat" =>
           \A x \in Items : CountIn(list'[job.to], x) =
             job.was[job.to][x] + IF x \in Seen \cup {Item} THEN job.was[job.from][x] ELSE 0,
         job.op = "union" => MembersOf(list'[job.to]) = Seen \cup {Item},
         job.op = "union2" => MembersOf(list'[job.to]) = Members(job.other) \cup Seen \cup {Item},
         job.op = "intersection" => MembersOf(list'[job.to]) = (Seen \cup {Item}) \cap Members(job.other),
         job.op = "difference" => MembersOf(list'[job.to]) = (Seen \cup {Item}) \ Members(job.other)
  PROVE  SetInv'
<1>1. /\ job'.op = job.op /\ job'.to = job.to /\ job'.from = job.from
      /\ job'.other = job.other /\ job'.was = job.was /\ Seen' = Seen \cup {Item}
  BY DEF Onward
<1>2. /\ Members(job.to)' = MembersOf(list'[job.to])
      /\ \A x : Count(job.to, x)' = CountIn(list'[job.to], x)
  BY <1>1, AsListsNext
<1>3. job.op \notin {"concat", "multiconcat"} =>
        job.to \notin {job.from, job.other} /\ Members(job.other)' = Members(job.other)
  <2> SUFFICES ASSUME job.op \notin {"concat", "multiconcat"}
               PROVE  job.to \notin {job.from, job.other} /\ Members(job.other)' = Members(job.other)
    OBVIOUS
  <2>1. job.to \notin {job.from, job.other}
    BY DEF SetInv, WalkRight
  <2>2. list'[job.other] = list[job.other]
    BY <2>1, WalkTypes
  <2> QED
    BY <1>1, <2>1, <2>2, AsLists, AsListsNext
<1>4. (\A h \in Handles \ {job.to}, x \in Items : Count(h, x) = job.was[h][x])'
  BY <1>1 DEF Onward
<1>5. (Members(job.from) = Before(job.from))'
  BY <1>1 DEF Onward
<1>6. (job.op = "concat" => Members(job.to) = Before(job.to) \cup Seen)'
  BY <1>1, <1>2 DEF Onward
<1>7. (job.op = "multiconcat" =>
         \A x \in Items :
           Count(job.to, x) = job.was[job.to][x] + IF x \in Seen THEN job.was[job.from][x] ELSE 0)'
  BY <1>1, <1>2
<1>8. (job.op = "union" => Members(job.to) = Seen)'
  BY <1>1, <1>2
<1>9. (job.op = "union2" => Members(job.to) = Members(job.other) \cup Seen)'
  BY <1>1, <1>2, <1>3
<1>10. (job.op = "intersection" => Members(job.to) = Seen \cap Members(job.other))'
  BY <1>1, <1>2, <1>3
<1>11. (job.op = "difference" => Members(job.to) = Seen \ Members(job.other))'
  BY <1>1, <1>2, <1>3
<1>12. (job.op \notin {"concat", "multiconcat"} => job.to \notin {job.from, job.other})'
  BY <1>1, <1>3
<1>13. WalkRight'
  BY <1>4, <1>5, <1>6, <1>7, <1>8, <1>9, <1>10, <1>11, <1>12 DEF WalkRight
<1> QED
  BY <1>13 DEF Onward, SetInv

\* The three things a walk may do at a node.
Steps == Walking /\ job' = [job EXCEPT !.at = @ + 1] /\ UNCHANGED live

LEMMA WalkAdds ==
  ASSUME SetAssumption, SetInv, Steps, NEW n \in 1..MaxCount, AddNode(job.to, Item, n),
         Item \notin Members(job.to)
  PROVE  /\ Onward /\ \A h \in Handles \ {job.to} : list'[h] = list[h]
         /\ MembersOf(list'[job.to]) = Members(job.to) \cup {Item}
         /\ \A y : CountIn(list'[job.to], y) = IF y = Item THEN n ELSE Count(job.to, y)
<1>1. /\ job # NoJob /\ job.to \in Handles /\ job.from \in Handles /\ Item \in Items
      /\ Item \notin MembersOf(list[job.to]) /\ job.to # job.from
  BY AtNode, WalkTypes, AsLists DEF Steps
<1>2. /\ ListsOK' /\ \A h \in Handles \ {job.to} : list'[h] = list[h]
      /\ MembersOf(list'[job.to]) = MembersOf(list[job.to]) \cup {Item}
      /\ \A y : CountIn(list'[job.to], y) = IF y = Item THEN n ELSE CountIn(list[job.to], y)
  BY <1>1, SetInvLists, AddNodeDoes
<1>3. list'[job.from] = list[job.from]
  BY <1>1, <1>2
<1>4. Onward
  BY <1>2, <1>3, WalkOn DEF Steps
<1> QED
  BY <1>2, <1>4, AsLists

LEMMA WalkSkips ==
  ASSUME SetAssumption, SetInv, Steps, UNCHANGED <<list, size>>
  PROVE  /\ Onward /\ \A h \in Handles \ {job.to} : list'[h] = list[h]
         /\ MembersOf(list'[job.to]) = Members(job.to)
         /\ \A y : CountIn(list'[job.to], y) = Count(job.to, y)
<1>1. ListsOK'
  BY SetInvLists DEF ListsOK, NoDup
<1>2. Onward
  BY <1>1, WalkOn DEF Steps
<1> QED
  BY <1>2, AsLists

LEMMA WalkBumps ==
  ASSUME SetAssumption, SetInv, Steps, NEW n \in Nat, Item \in Members(job.to),
         Count(job.to, Item) + n <= MaxCount, Bump(job.to, Item, n)
  PROVE  /\ Onward /\ \A h \in Handles \ {job.to} : list'[h] = list[h]
         /\ MembersOf(list'[job.to]) = Members(job.to)
         /\ \A y : CountIn(list'[job.to], y) =
                     IF y = Item THEN Count(job.to, y) + n ELSE Count(job.to, y)
<1>1. /\ job # NoJob /\ job.to \in Handles /\ job.from \in Handles
      /\ Item \in MembersOf(list[job.to])
  BY AtNode, WalkTypes, AsLists DEF Steps
<1>2. /\ ListsOK' /\ \A h \in Handles \ {job.to} : list'[h] = list[h]
      /\ Len(list'[job.to]) = Len(list[job.to])
      /\ \A i \in DOMAIN list[job.to] : list'[job.to][i].item = list[job.to][i].item
      /\ MembersOf(list'[job.to]) = MembersOf(list[job.to])
      /\ \A y : CountIn(list'[job.to], y) =
                  IF y = Item THEN CountIn(list[job.to], y) + n ELSE CountIn(list[job.to], y)
  BY ZenonT(60), <1>1, SetInvLists, SetAssumption, BumpDoes
<1>3. /\ Len(list'[job.from]) = Len(list[job.from])
      /\ \A i \in DOMAIN list[job.from] : list'[job.from][i].item = list[job.from][i].item
  <2>1. CASE job.from = job.to
    BY <1>2, <2>1
  <2>2. CASE job.from # job.to
    BY <1>1, <1>2, <2>2
  <2> QED
    BY <2>1, <2>2
<1>4. Onward
  BY <1>2, <1>3, WalkOn DEF Steps
<1> QED
  BY <1>2, <1>4, AsLists

LEMMA StepInv ==
  ASSUME SetAssumption, SetInv, Step
  PROVE  SetInv'
<1>1. /\ Steps /\ job # NoJob /\ job \in Walks /\ Item \in Items /\ Item \notin Seen
      /\ Fresh \in 1..MaxCount /\ \A x : Contains(job.other, x) <=> x \in Members(job.other)
  <2>1. Steps /\ job # NoJob /\ Item \in Items /\ Item \notin Seen
    BY AtNode DEF Step, Steps
  <2> QED
    BY <2>1, WalkTypes, SetAssumption, AsLists DEF SetAssumption, Fresh
<1>2. \A x : Contains(job.to, x) <=> x \in Members(job.to)
  BY AsLists
<1>3. job.op \in {"concat", "multiconcat", "union", "union2", "intersection", "difference"}
  BY <1>1 DEF Walks
<1>4. CASE job.op = "union"
  <2>1. AddNode(job.to, Item, Fresh) /\ Members(job.to) = Seen
    BY <1>1, <1>4 DEF Step, Visit, SetInv, WalkRight
  <2>2. /\ Onward /\ \A h \in Handles \ {job.to} : list'[h] = list[h]
        /\ MembersOf(list'[job.to]) = Members(job.to) \cup {Item}
    BY <1>1, <2>1, WalkAdds
  <2> QED
    BY <1>1, <1>4, <2>1, <2>2, OnwardRight
<1>5. CASE job.op = "union2"
  <2>1. Put(job.to, Item) /\ Members(job.to) = Members(job.other) \cup Seen
    BY <1>1, <1>5 DEF Step, Visit, SetInv, WalkRight
  <2>2. /\ Onward /\ \A h \in Handles \ {job.to} : list'[h] = list[h]
        /\ MembersOf(list'[job.to]) = Members(job.to) \cup {Item}
    BY <1>1, <1>2, <2>1, WalkAdds, WalkSkips DEF Put
  <2> QED
    BY <1>1, <1>5, <2>1, <2>2, OnwardRight
<1>6. CASE job.op = "concat"
  <2>1. Put(job.to, Item) /\ Members(job.to) = Before(job.to) \cup Seen
    BY <1>1, <1>6 DEF Step, Visit, SetInv, WalkRight
  <2>2. /\ Onward /\ \A h \in Handles \ {job.to} : list'[h] = list[h]
        /\ MembersOf(list'[job.to]) = Members(job.to) \cup {Item}
    BY <1>1, <1>2, <2>1, WalkAdds, WalkSkips DEF Put
  <2> QED
    BY <1>1, <1>6, <2>1, <2>2, OnwardRight
<1>7. CASE job.op = "intersection"
  <2>1. Members(job.to) = Seen \cap Members(job.other)
    BY <1>1, <1>7 DEF SetInv, WalkRight
  <2>2. CASE Item \in Members(job.other)
    <3>1. AddNode(job.to, Item, Fresh)
      BY <1>1, <1>7, <2>2 DEF Step, Visit
    <3>2. /\ Onward /\ \A h \in Handles \ {job.to} : list'[h] = list[h]
          /\ MembersOf(list'[job.to]) = Members(job.to) \cup {Item}
      BY <1>1, <2>1, <3>1, WalkAdds
    <3> QED
      BY <1>1, <1>7, <2>1, <2>2, <3>2, OnwardRight
  <2>3. CASE Item \notin Members(job.other)
    <3>1. UNCHANGED <<list, size>>
      BY <1>1, <1>7, <2>3 DEF Step, Visit
    <3>2. /\ Onward /\ \A h \in Handles \ {job.to} : list'[h] = list[h]
          /\ MembersOf(list'[job.to]) = Members(job.to)
      BY <1>1, <3>1, WalkSkips
    <3> QED
      BY <1>1, <1>7, <2>1, <2>3, <3>2, OnwardRight
  <2> QED
    BY <2>2, <2>3
<1>8. CASE job.op = "difference"
  <2>1. Members(job.to) = Seen \ Members(job.other)
    BY <1>1, <1>8 DEF SetInv, WalkRight
  <2>2. CASE Item \notin Members(job.other)
    <3>1. AddNode(job.to, Item, Fresh)
      BY <1>1, <1>8, <2>2 DEF Step, Visit
    <3>2. /\ Onward /\ \A h \in Handles \ {job.to} : list'[h] = list[h]
          /\ MembersOf(list'[job.to]) = Members(job.to) \cup {Item}
      BY <1>1, <2>1, <3>1, WalkAdds
    <3> QED
      BY <1>1, <1>8, <2>1, <2>2, <3>2, OnwardRight
  <2>3. CASE Item \in Members(job.other)
    <3>1. UNCHANGED <<list, size>>
      BY <1>1, <1>8, <2>3 DEF Step, Visit
    <3>2. /\ Onward /\ \A h \in Handles \ {job.to} : list'[h] = list[h]
          /\ MembersOf(list'[job.to]) = Members(job.to)
      BY <1>1, <3>1, WalkSkips
    <3> QED
      BY <1>1, <1>8, <2>1, <2>3, <3>2, OnwardRight
  <2> QED
    BY <2>2, <2>3
<1>9. CASE job.op = "multiconcat"
  <2> DEFINE n == list[job.from][job.at].count
  <2>1. /\ PutTimes(job.to, Item, n)
        /\ \A x \in Items : Count(job.to, x) =
             job.was[job.to][x] + IF x \in Seen THEN job.was[job.from][x] ELSE 0
    BY <1>1, <1>9 DEF Step, Visit, SetInv, WalkRight
  <2>2. n \in 1..MaxCount /\ n = Count(job.from, Item)
    BY <1>1, AtNode DEF Steps, Node
  <2>3. \A x \in Items : job.was[job.to][x] \in Nat /\ job.was[job.from][x] \in Nat
    BY <1>1, WalkTypes
  <2>4. n = job.was[job.from][Item]
    <3>1. CASE job.from = job.to
      BY <1>1, <2>1, <2>2, <2>3, <3>1
    <3>2. CASE job.from # job.to
      BY <1>1, <2>2, <3>2, WalkTypes DEF SetInv, WalkRight
    <3> QED
      BY <3>1, <3>2
  <2> HIDE DEF n
  <2>5. /\ Onward /\ \A h \in Handles \ {job.to} : list'[h] = list[h]
        /\ \A y : CountIn(list'[job.to], y) =
             IF y = Item THEN Count(job.to, y) + n ELSE Count(job.to, y)
    <3>1. CASE Item \in Members(job.to)
      <4>1. Count(job.to, Item) + n <= MaxCount /\ Bump(job.to, Item, n)
        BY <1>2, <2>1, <3>1 DEF PutTimes
      <4> QED
        BY <1>1, <2>2, <3>1, <4>1, WalkBumps
    <3>2. CASE Item \notin Members(job.to)
      <4>1. AddNode(job.to, Item, n)
        BY <1>2, <2>1, <3>2 DEF PutTimes
      <4>2. Count(job.to, Item) = 0
        <5>1. list[job.to] \in Seq(Node) /\ NoDup(list[job.to]) /\ Item \notin MembersOf(list[job.to])
          BY <1>1, <3>2, WalkTypes, SetInvLists, AsLists DEF ListsOK
        <5> QED
          BY <5>1, CountOfNode, AsLists
      <4>3. /\ Onward /\ \A h \in Handles \ {job.to} : list'[h] = list[h]
            /\ \A y : CountIn(list'[job.to], y) = IF y = Item THEN n ELSE Count(job.to, y)
        BY <1>1, <2>2, <3>2, <4>1, WalkAdds
      <4> QED
        BY <2>2, <4>2, <4>3
    <3> QED
      BY <3>1, <3>2
  <2>6. \A x \in Items : CountIn(list'[job.to], x) =
          job.was[job.to][x] + IF x \in Seen \cup {Item} THEN job.was[job.from][x] ELSE 0
    BY <1>1, <2>1, <2>3, <2>4, <2>5
  <2> QED
    BY <1>1, <1>9, <2>5, <2>6, OnwardRight
<1> QED
  BY <1>3, <1>4, <1>5, <1>6, <1>7, <1>8, <1>9
-----------------------------------------------------------------------------
(***************************************************************************)
(* The other steps.                                                        *)
(***************************************************************************)
\* Outside of walks the lists are all there is to say.
LEMMA IdleInv ==
  ASSUME ListsOK', live' \subseteq Handles, job' = NoJob
  PROVE  SetInv'
<1>1. TypeOK'
  BY DEF ListsOK, TypeOK
<1>2. NoDuplicates'
  BY AsListsNext DEF ListsOK, NoDup
<1>3. WalkRight'
  BY DEF WalkRight
<1> QED
  BY <1>1, <1>2, <1>3 DEF SetInv

LEMMA EmptyList == << >> \in Seq(Node) /\ Len(<< >>) = 0 /\ NoDup(<< >>) /\ MembersOf(<< >>) = {}
BY DEF NoDup, MembersOf

LEMMA StoreEmpty ==
  ASSUME ListsOK, NEW h \in Handles, Store(h, << >>, 0)
  PROVE  ListsOK' /\ list'[h] = << >> /\ \A g \in Handles \ {h} : list'[g] = list[g]
BY EmptyList, StoreDoes DEF Store

\* Insertions into a set outside of walks.
LEMMA PutDoes ==
  ASSUME SetAssumption, ListsOK, NEW h \in Handles, NEW x \in Items,
         Put(h, x) \/ PutTimes(h, x, 1)
  PROVE  ListsOK'
<1>1. 1 \in 1..MaxCount /\ Fresh \in 1..MaxCount /\ 1 \in Nat
  BY SetAssumption DEF SetAssumption, Fresh
<1>2. CASE UNCHANGED <<list, size>>
  BY <1>2 DEF ListsOK, NoDup
<1>3. CASE ~Contains(h, x) /\ \E n \in 1..MaxCount : AddNode(h, x, n)
  BY <1>3, AsLists, AddNodeDoes
<1>4. CASE Contains(h, x) /\ Count(h, x) + 1 <= MaxCount /\ Bump(h, x, 1)
  <2>1. x \in MembersOf(list[h])
    BY <1>4, AsLists
  <2> QED
    BY <1>1, <1>4, <2>1, SetAssumption, BumpDoes
<1> QED
  BY <1>1, <1>2, <1>3, <1>4 DEF Put, PutTimes

LEMMA RemoveDoes ==
  ASSUME ListsOK, NEW h \in Handles, NEW x \in Items, Contains(h, x), NEW i, i \in Index(h, x),
         Store(h, SubSeq(list[h], 1, i-1) \o SubSeq(list[h], i+1, Len(list[h])), size[h] - 1)
  PROVE  ListsOK'
<1> DEFINE t == SubSeq(list[h], 1, i-1) \o SubSeq(list[h], i+1, Len(list[h]))
<1>1. list[h] \in Seq(Node) /\ NoDup(list[h]) /\ size[h] = Len(list[h]) /\ i \in DOMAIN list[h]
      /\ i \in 1..Len(list[h])
  BY DEF ListsOK, Index
<1>2. /\ t \in Seq(Node) /\ Len(t) = Len(list[h]) - 1
      /\ \A j \in 1..(Len(list[h]) - 1) : t[j] = IF j < i THEN list[h][j] ELSE list[h][j+1]
  BY <1>1, Without
<1> HIDE DEF t
<1>3. NoDup(t)
  BY <1>1, <1>2, Shortened
<1>4. list' = [list EXCEPT ![h] = t] /\ size' = [size EXCEPT ![h] = Len(t)]
  BY <1>1, <1>2 DEF Store, t
<1> QED
  BY <1>2, <1>3, <1>4, StoreDoes

\* What the sets held before a call.
LEMMA BagsAre ==
  ASSUME SetAssumption, ListsOK
  PROVE  /\ Bags \in [Handles -> [Items -> Nat]]
         /\ \A h \in Handles, x \in Items : Bags[h][x] = Count(h, x) /\ (Count(h, x) > 0 <=> x \in Members(h))
         /\ \A h \in Handles : Members(h) \subseteq Items
<1>1. ASSUME NEW h \in Handles, NEW x \in Items
      PROVE  Count(h, x) \in Nat /\ (Count(h, x) > 0 <=> x \in Members(h))
  <2>1. list[h] \in Seq(Node) /\ NoDup(list[h])
    BY DEF ListsOK
  <2>2. CountIn(list[h], x) \in 0..MaxCount /\ (CountIn(list[h], x) > 0 <=> x \in MembersOf(list[h]))
    BY <2>1, SetAssumption, CountsPositive
  <2> QED
    BY <2>2, AsLists, SetAssumption DEF SetAssumption
<1>2. ASSUME NEW h \in Handles PROVE Members(h) \subseteq Items
  <2>1. \A i \in DOMAIN list[h] : list[h][i] \in Node
    BY DEF ListsOK
  <2> QED
    BY <2>1 DEF Members, Node
<1> QED
  BY <1>1, <1>2 DEF Bags

\* A walk that begins has seen nothing.
LEMMA WalkBegins ==
  ASSUME SetAssumption, ListsOK, ListsOK', live' \subseteq Handles,
         NEW op \in {"concat", "multiconcat", "union", "intersection", "difference"},
         NEW to \in live', NEW from \in live', NEW other \in live', Walk(op, to, from, other),
         \A h \in Handles \ {to} : list'[h] = list[h],
         IF op \in {"concat", "multiconcat"} THEN list'[to] = list[to]
         ELSE list'[to] = << >> /\ to \notin {from, other}
  PROVE  SetInv'
<1>1. /\ job' = [op |-> op, to |-> to, from |-> from, other |-> other, at |-> 1, was |-> Bags]
      /\ to \in Handles /\ from \in Handles /\ other \in Handles
  BY DEF Walk
<1>2. job' \in Walks
  BY <1>1, BagsAre DEF Walks
<1>3. Seen' = {}
  BY <1>1 DEF Seen
<1>4. list'[from] \in Seq(Node) /\ list'[from] = list[from]
  BY <1>1 DEF ListsOK
<1>5. TypeOK'
  <2>1. job'.at \in 1..(Len(list'[job'.from]) + 1)
    BY <1>1, <1>4
  <2>2. {job'.to, job'.from, job'.other} \subseteq live'
    BY <1>1
  <2>3. list' \in [Handles -> Seq(Node)] /\ size' \in [Handles -> Nat] /\ live' \subseteq Handles
    BY DEF ListsOK
  <2> QED
    BY <1>2, <2>1, <2>2, <2>3 DEF TypeOK
<1>6. NoDuplicates'
  BY AsListsNext DEF ListsOK, NoDup
<1>7. \A h \in Handles \ {to} :
        Members(h)' = Members(h) /\ \A x : Count(h, x)' = Count(h, x)
  BY AsLists, AsListsNext
<1>8. \A h : Before(h)' = {x \in Items : Bags[h][x] > 0}
  BY <1>1 DEF Before
<1>9. op \in {"concat", "multiconcat"} =>
        Members(to)' = Members(to) /\ \A x : Count(to, x)' = Count(to, x)
  BY AsLists, AsListsNext
<1>10. op \notin {"concat", "multiconcat"} => Members(to)' = {} /\ to \notin {from, other}
  BY AsListsNext, EmptyList
<1>11. \A h \in Handles : {x \in Items : Bags[h][x] > 0} = Members(h)
  BY BagsAre
<1>12. (\A h \in Handles \ {job.to}, x \in Items : Count(h, x) = job.was[h][x])'
  BY <1>1, <1>7, BagsAre
<1>13. (Members(job.from) = Before(job.from))'
  <2>1. Members(from)' = Members(from)
    BY <1>1, <1>4, AsLists, AsListsNext
  <2> QED
    BY <1>1, <1>8, <1>11, <2>1 DEF Members
<1>14. (job.op = "concat" => Members(job.to) = Before(job.to) \cup Seen)'
  BY <1>1, <1>3, <1>8, <1>9, <1>11 DEF Members
<1>15. (job.op = "multiconcat" =>
         \A x \in Items :
           Count(job.to, x) = job.was[job.to][x] + IF x \in Seen THEN job.was[job.from][x] ELSE 0)'
  <2> SUFFICES ASSUME op = "multiconcat", NEW x \in Items
               PROVE  Count(to, x)' = Bags[to][x] + IF x \in Seen' THEN Bags[from][x] ELSE 0
    BY <1>1 DEF Count, Index
  <2>1. Bags[to][x] \in Nat /\ Bags[to][x] = Count(to, x)
    BY <1>1, BagsAre
  <2> QED
    BY <1>3, <1>9, <2>1
<1>16. (job.op = "union" => Members(job.to) = Seen)'
  BY <1>1, <1>3, <1>10 DEF Members
<1>17. (job.op = "union2" => Members(job.to) = Members(job.other) \cup Seen)'
  BY <1>1
<1>18. (job.op = "intersection" => Members(job.to) = Seen \cap Members(job.other))'
  BY <1>1, <1>3, <1>10 DEF Members
<1>19. (job.op = "difference" => Members(job.to) = Seen \ Members(job.other))'
  BY <1>1, <1>3, <1>10 DEF Members
<1>20. (job.op \notin {"concat", "multiconcat"} => job.to \notin {job.from, job.other})'
  BY <1>1, <1>10
<1>21. WalkRight'
  BY <1>12, <1>13, <1>14, <1>15, <1>16, <1>17, <1>18, <1>19, <1>20 DEF WalkRight
<1> QED
  BY <1>5, <1>6, <1>21 DEF SetInv

\* set_union at the end of its first set.
LEMMA SecondInv ==
  ASSUME SetAssumption, SetInv, Second
  PROVE  SetInv'
<1>1. /\ job \in Walks /\ job # NoJob /\ job.op = "union" /\ ~Walking
      /\ job.to \in Handles /\ job.from \in Handles /\ job.other \in Handles
  <2>1. job # NoJob
    BY DEF Second, NoJob
  <2> QED
    BY <2>1, WalkTypes DEF Second
<1>2. /\ job'.op = "union2" /\ job'.to = job.to /\ job'.from = job.other /\ job'.other = job.from
      /\ job'.at = 1 /\ job'.was = job.was /\ job' \in Walks /\ UNCHANGED <<live, list, size>>
  <2> DEFINE Was == [Handles -> [Items -> Nat]]
  <2>1. job \in [op : {"concat", "multiconcat", "union", "union2", "intersection", "difference"},
                 to : Handles, from : Handles, other : Handles, at : Nat, was : Was]
    BY <1>1 DEF Walks
  <2> HIDE DEF Was
  <2>2. /\ job'.op = "union2" /\ job'.to = job.to /\ job'.from = job.other /\ job'.other = job.from
        /\ job'.at = 1 /\ job'.was = job.was
        /\ job' \in [op : {"concat", "multiconcat", "union", "union2", "intersection", "difference"},
                     to : Handles, from : Handles, other : Handles, at : Nat, was : Was]
    BY <2>1 DEF Second
  <2> QED
    BY <2>2 DEF Second, Walks, Was
<1>3. Seen' = {} /\ Seen = Members(job.from)
  BY <1>1, <1>2, SeenAll DEF Seen
<1>4. job.to # job.from /\ job.to # job.other /\ Members(job.to) = Seen
  BY <1>1 DEF SetInv, WalkRight
<1>5. \A h : Members(h)' = Members(h) /\ \A x : Count(h, x)' = Count(h, x)
  BY <1>2, AsLists, AsListsNext
<1>6. TypeOK'
  <2>1. list[job.other] \in Seq(Node)
    BY <1>1 DEF SetInv, TypeOK
  <2>2. job'.at \in 1..(Len(list'[job'.from]) + 1)
    BY <1>2, <2>1
  <2> QED
    BY <1>1, <1>2, <2>2 DEF SetInv, TypeOK
<1>7. NoDuplicates'
  BY <1>2 DEF SetInv, NoDuplicates
<1>8. (\A h \in Handles \ {job.to}, x \in Items : Count(h, x) = job.was[h][x])'
  BY <1>1, <1>2, <1>5 DEF SetInv, WalkRight
<1>9. (Members(job.from) = Before(job.from))'
  <2>1. Members(job.other) = Before(job.other)
    BY <1>1, <1>4, WasMembers
  <2>2. Before(job.from)' = Before(job.other)
    BY <1>2 DEF Before
  <2>3. Members(job.from)' = Members(job.other)
    BY <1>2 DEF Members
  <2> QED
    BY <2>1, <2>2, <2>3
<1>10. (job.op = "union2" => Members(job.to) = Members(job.other) \cup Seen)'
  <2>1. Members(job.to)' = Members(job.to) /\ Members(job.other)' = Members(job.from)
    BY <1>2 DEF Members
  <2> QED
    BY <1>3, <1>4, <2>1
<1>11. (job.op \notin {"concat", "multiconcat"} => job.to \notin {job.from, job.other})'
  BY <1>2, <1>4
<1>12. WalkRight'
  BY <1>2, <1>8, <1>9, <1>10, <1>11 DEF WalkRight
<1> QED
  BY <1>6, <1>7, <1>12 DEF SetInv

LEMMA NextInv ==
  ASSUME SetAssumption, SetInv, [Next]_vars
  PROVE  SetInv'
<1>1. ListsOK /\ live \subseteq Handles
  BY SetInvLists DEF SetInv, TypeOK
<1>2. CASE UNCHANGED vars
  <2>1. UNCHANGED <<live, list, size, job>>
    BY <1>2 DEF vars
  <2>2. TypeOK' /\ NoDuplicates'
    BY <2>1 DEF SetInv, TypeOK, NoDuplicates
  <2>3. /\ \A h, x : Count(h, x)' = Count(h, x)
        /\ Members(job.from)' = Members(job.from) /\ Members(job.to)' = Members(job.to)
        /\ Members(job.other)' = Members(job.other) /\ Seen' = Seen
        /\ Before(job.from)' = Before(job.from) /\ Before(job.to)' = Before(job.to)
    BY <2>1, AsLists, AsListsNext DEF Members, Seen, Before
  <2>4. WalkRight'
    BY <2>1, <2>3 DEF SetInv, WalkRight
  <2> QED
    BY <2>2, <2>4 DEF SetInv
<1>3. CASE Step
  BY <1>3, SetAssumption, StepInv
<1>4. CASE StepFails
  <2>1. job # NoJob
    BY <1>4 DEF StepFails, Walking, NoJob
  <2>2. job' = NoJob /\ live' \subseteq Handles
    BY <1>1, <1>4 DEF StepFails
  <2>3. ListsOK'
    <3>1. CASE UNCHANGED <<list, size>>
      BY <1>1, <3>1 DEF ListsOK, NoDup
    <3>2. CASE Store(job.to, << >>, 0)
      BY <1>1, <2>1, <3>2, WalkTypes, StoreEmpty
    <3> QED
      BY <1>4, <3>1, <3>2 DEF StepFails
  <2> QED
    BY <2>2, <2>3, IdleInv
<1>5. CASE Second
  BY <1>5, SetAssumption, SecondInv
<1>6. CASE Finish
  <2>1. ListsOK' /\ live' \subseteq Handles /\ job' = NoJob
    BY <1>1, <1>6 DEF Finish, ListsOK, NoDup
  <2> QED
    BY <2>1, IdleInv
<1>7. ASSUME NEW h \in Handles, New(h) \/ Free(h)
      PROVE  SetInv'
  <2>1. ListsOK' /\ live' \subseteq Handles /\ job' = NoJob
    BY <1>1, <1>7, StoreEmpty DEF New, Free, Idle
  <2> QED
    BY <2>1, IdleInv
<1>8. ASSUME NEW h \in Handles, NEW x \in Items, Insert(h, x) \/ MultiInsert(h, x)
      PROVE  SetInv'
  <2>1. ListsOK' /\ live' \subseteq Handles /\ job' = NoJob
    BY <1>1, <1>8, SetAssumption, PutDoes DEF Insert, MultiInsert, Idle
  <2> QED
    BY <2>1, IdleInv
<1>9. ASSUME NEW h \in Handles, NEW x \in Items, Remove(h, x)
      PROVE  SetInv'
  <2>1. live' \subseteq Handles /\ job' = NoJob
    BY <1>1, <1>9 DEF Remove, Idle
  <2>2. CASE Contains(h, x)
    <3> DEFINE i == CHOOSE i \in Index(h, x) : TRUE
    <3>1. i \in Index(h, x)
      BY <2>2 DEF Contains
    <3>2. Store(h, SubSeq(list[h], 1, i-1) \o SubSeq(list[h], i+1, Len(list[h])), size[h] - 1)
      BY <1>9, <2>2 DEF Remove
    <3> HIDE DEF i
    <3>3. ListsOK'
      BY <1>1, <2>2, <3>1, <3>2, RemoveDoes
    <3> QED
      BY <2>1, <3>3, IdleInv
  <2>3. CASE ~Contains(h, x)
    <3>1. ListsOK'
      BY <1>1, <1>9, <2>3 DEF Remove, ListsOK, NoDup
    <3> QED
      BY <2>1, <3>1, IdleInv
  <2> QED
    BY <2>2, <2>3
<1>10. ASSUME NEW h \in Handles, NEW g \in Handles, Concat(h, g)
       PROVE  SetInv'
  <2>1. PICK op \in {"concat", "multiconcat"} : Walk(op, h, g, g)
    BY <1>10 DEF Concat
  <2>2. h \in live' /\ g \in live' /\ live' \subseteq Handles /\ UNCHANGED <<live, list, size>>
    BY <1>1, <1>10 DEF Concat
  <2>3. ListsOK'
    BY <1>1, <2>2 DEF ListsOK, NoDup
  <2> QED
    BY <1>1, <2>1, <2>2, <2>3, SetAssumption, WalkBegins
<1>11. ASSUME NEW h \in Handles, NEW g \in Handles, NEW t \in Handles, Combine(t, g, h)
       PROVE  SetInv'
  <2>1. PICK op \in {"union", "intersection", "difference"} : Walk(op, t, g, h)
    BY <1>11 DEF Combine
  <2>2. /\ t \in live' /\ g \in live' /\ h \in live' /\ live' \subseteq Handles
        /\ t \notin {g, h} /\ Store(t, << >>, 0)
    BY <1>1, <1>11 DEF Combine
  <2>3. ListsOK' /\ list'[t] = << >> /\ \A o \in Handles \ {t} : list'[o] = list[o]
    BY <1>1, <2>2, StoreEmpty
  <2> QED
    BY <1>1, <2>1, <2>2, <2>3, SetAssumption, WalkBegins
<1> QED
  BY <1>2, <1>3, <1>4, <1>5, <1>6, <1>7, <1>8, <1>9, <1>10, <1>11 DEF Next

LEMMA InitInv == SetAssumption /\ Init => SetInv
<1> SUFFICES ASSUME Init PROVE SetInv
  OBVIOUS
<1>1. live = {} /\ list = [h \in Handles |-> << >>] /\ size = [h \in Handles |-> 0] /\ job = NoJob
  BY DEF Init
<1>2. TypeOK
  BY <1>1 DEF TypeOK
<1>3. NoDuplicates
  BY <1>1 DEF NoDuplicates
<1>4. WalkRight
  BY <1>1 DEF WalkRight
<1> QED
  BY <1>2, <1>3, <1>4 DEF SetInv

\* No set holds an item twice, its count field is the number of its nodes, and a walk has at
\* every node done to the set it fills what the nodes so far ask for, and nothing to another.
THEOREM SetsSound == Spec => []SetInv
<1>1. Init => SetInv
  BY InitInv, SetAssumption
<1>2. SetInv /\ [Next]_vars => SetInv'
  BY NextInv, SetAssumption
<1> QED
  BY <1>1, <1>2, PTL DEF Spec

-----------------------------------------------------------------------------
(***************************************************************************)
(* The answers.                                                            *)
(***************************************************************************)
\* What the walks have made when they are done follows from what they do at each node.
LEMMA ResultsFollow == SetAssumption /\ SetInv => ResultsRight
<1> SUFFICES ASSUME SetAssumption, SetInv, job # NoJob
             PROVE  /\ job.op \in {"concat", "multiconcat"} =>
                         /\ Before(job.to) \subseteq Members(job.to)
                         /\ Members(job.to) \subseteq Before(job.to) \cup Before(job.from)
                    /\ ~Walking =>
                         CASE job.op = "union2" -> Members(job.to) = Before(job.from) \cup Before(job.other)
                           [] job.op = "intersection" -> Members(job.to) = Before(job.from) \cap Before(job.other)
                           [] job.op = "difference" -> Members(job.to) = Before(job.from) \ Before(job.other)
                           [] job.op = "concat" -> Members(job.to) = Before(job.to) \cup Before(job.from)
                           [] job.op = "multiconcat" ->
                                \A x \in Items :
                                  Count(job.to, x) = job.was[job.to][x] + job.was[job.from][x]
                           [] OTHER -> TRUE
  BY DEF ResultsRight
<1>1. /\ job \in Walks /\ job.to \in Handles /\ job.from \in Handles /\ job.other \in Handles
      /\ \A h \in Handles, x \in Items : job.was[h][x] \in Nat
  BY WalkTypes
<1>2. Members(job.from) = Before(job.from)
  BY DEF SetInv, WalkRight
<1>3. job.op \notin {"concat", "multiconcat"} => Members(job.other) = Before(job.other)
  BY <1>1, WasMembers DEF SetInv, WalkRight
<1>4. Seen \subseteq Members(job.from)
  <2>1. list[job.from] \in Seq(Node) /\ job.at \in 1..(Len(list[job.from]) + 1)
    BY <1>1, WalkTypes, SetInvLists DEF ListsOK
  <2>2. \A i \in 1..(job.at - 1) : i \in DOMAIN list[job.from]
    BY <2>1
  <2> QED
    BY <2>2 DEF Seen, Members
<1>5. \A x \in Members(job.to) : x \in Items /\ Count(job.to, x) > 0
  BY <1>1, SetInvLists, BagsAre
<1>6. \A x \in Items : Count(job.to, x) > 0 => x \in Members(job.to)
  BY <1>1, SetInvLists, BagsAre
<1>7. job.op \in {"concat", "multiconcat"} =>
        /\ Before(job.to) \subseteq Members(job.to)
        /\ Members(job.to) \subseteq Before(job.to) \cup Before(job.from)
  <2>1. CASE job.op = "concat"
    BY <1>2, <1>4, <2>1 DEF SetInv, WalkRight
  <2>2. CASE job.op = "multiconcat"
    <3>1. \A x \in Items : Count(job.to, x) =
            job.was[job.to][x] + IF x \in Seen THEN job.was[job.from][x] ELSE 0
      BY <2>2 DEF SetInv, WalkRight
    <3>2. ASSUME NEW x \in Before(job.to) PROVE x \in Members(job.to)
      <4>1. x \in Items /\ job.was[job.to][x] > 0
        BY DEF Before
      <4>2. Count(job.to, x) > 0
        BY <1>1, <3>1, <4>1
      <4> QED
        BY <1>6, <4>1, <4>2
    <3>3. ASSUME NEW x \in Members(job.to) PROVE x \in Before(job.to) \cup Before(job.from)
      <4>1. x \in Items /\ Count(job.to, x) > 0
        BY <1>5
      <4>2. CASE x \in Seen
        BY <1>2, <1>4, <4>2
      <4>3. CASE x \notin Seen
        BY <1>1, <3>1, <4>1, <4>3 DEF Before
      <4> QED
        BY <4>2, <4>3
    <3> QED
      BY <3>2, <3>3
  <2> QED
    BY <2>1, <2>2
<1>8. ASSUME ~Walking
      PROVE  CASE job.op = "union2" -> Members(job.to) = Before(job.from) \cup Before(job.other)
               [] job.op = "intersection" -> Members(job.to) = Before(job.from) \cap Before(job.other)
               [] job.op = "difference" -> Members(job.to) = Before(job.from) \ Before(job.other)
               [] job.op = "concat" -> Members(job.to) = Before(job.to) \cup Before(job.from)
               [] job.op = "multiconcat" ->
                    \A x \in Items : Count(job.to, x) = job.was[job.to][x] + job.was[job.from][x]
               [] OTHER -> TRUE
  <2>1. Seen = Before(job.from)
    BY <1>2, <1>8, SeenAll
  <2>2. CASE job.op = "union2"
    BY <1>3, <2>1, <2>2 DEF SetInv, WalkRight
  <2>3. CASE job.op = "intersection"
    BY <1>3, <2>1, <2>3 DEF SetInv, WalkRight
  <2>4. CASE job.op = "difference"
    BY <1>3, <2>1, <2>4 DEF SetInv, WalkRight
  <2>5. CASE job.op = "concat"
    BY <2>1, <2>5 DEF SetInv, WalkRight
  <2>6. CASE job.op = "multiconcat"
    <3>1. ASSUME NEW x \in Items
          PROVE  Count(job.to, x) = job.was[job.to][x] + job.was[job.from][x]
      <4>1. Count(job.to, x) = job.was[job.to][x] + IF x \in Seen THEN job.was[job.from][x] ELSE 0
        BY <2>6 DEF SetInv, WalkRight
      <4>2. x \notin Seen => job.was[job.from][x] = 0
        BY <1>1, <2>1 DEF Before
      <4> QED
        BY <1>1, <4>1, <4>2
    <3> QED
      BY <2>6, <3>1
  <2>7. CASE job.op = "union"
    BY <2>7
  <2> QED
    BY <1>1, <2>2, <2>3, <2>4, <2>5, <2>6, <2>7 DEF Walks
<1> QED
  BY <1>7, <1>8

\* A comparison that looks at the count fields first is right, because they are the numbers of
\* different items.
LEMMA ComparisonsFollow == SetInv => ComparisonsRight
<1> SUFFICES ASSUME SetInv, NEW g \in live, NEW h \in live
             PROVE  /\ Subset(g, h) <=> Members(g) \subseteq Members(h)
                    /\ Equal(g, h) <=> Members(g) = Members(h)
  BY DEF ComparisonsRight
<1>1. /\ list[g] \in Seq(Node) /\ NoDup(list[g]) /\ size[g] = Len(list[g])
      /\ list[h] \in Seq(Node) /\ NoDup(list[h]) /\ size[h] = Len(list[h])
  BY SetInvLists DEF SetInv, TypeOK, ListsOK
<1>2. /\ IsFiniteSet(Members(g)) /\ Cardinality(Members(g)) = size[g] /\ size[g] \in Nat
      /\ IsFiniteSet(Members(h)) /\ Cardinality(Members(h)) = size[h] /\ size[h] \in Nat
  BY <1>1, AsLongAsMembers, AsLists
<1>3. AllIn(g, h) <=> Members(g) \subseteq Members(h)
  BY ZenonT(60), AsLists DEF AllIn, Members
<1>4. Members(g) \subseteq Members(h) => size[g] <= size[h]
  BY <1>2, FS_Subset
<1>5. size[g] = 0 <=> Members(g) = {}
  BY <1>2, FS_EmptySet
<1>6. size[h] = 0 <=> Members(h) = {}
  BY <1>2, FS_EmptySet
<1>7. Subset(g, h) <=> Members(g) \subseteq Members(h)
  BY <1>3, <1>4, <1>5 DEF Subset
<1>8. (size[g] = size[h] /\ Members(g) \subseteq Members(h)) => Members(g) = Members(h)
  BY <1>2, FS_Subset
<1>9. (list[g] # << >> <=> size[g] # 0) /\ (list[h] # << >> <=> size[h] # 0)
  BY <1>1
<1>10. Equal(g, h) <=> Members(g) = Members(h)
  <2>1. ASSUME Equal(g, h) PROVE Members(g) = Members(h)
    BY <1>5, <1>6, <1>7, <1>8, <2>1 DEF Equal
  <2>2. ASSUME Members(g) = Members(h) PROVE Equal(g, h)
    BY <1>2, <1>5, <1>6, <1>7, <1>9, <2>2 DEF Equal
  <2> QED
    BY <2>1, <2>2
<1> QED
  BY <1>7, <1>10

\* Sets are sets, and concat, union, intersection, difference and the comparisons compute what
\* set theory says of them, whichever allocation fails.
THEOREM SetsCompute == Spec => []SetsRight
<1>1. SetInv => SetsRight
  BY SetAssumption, ResultsFollow, ComparisonsFollow DEF SetsRight, AnswersRight
<1> QED
  BY <1>1, SetsSound, PTL
=============================================================================
