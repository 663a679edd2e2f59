------------------------------ MODULE MultiSet -------------------------------
(***************************************************************************)
(* The sets and multisets of src/set/set.c: a list of nodes, each with an  *)
(* item and how often it was inserted, new nodes at the front.  The calls  *)
(* that walk one set while they fill another (concat, union, intersection, *)
(* difference) take one step per node walked, so that an allocation may    *)
(* fail at each; the other calls are one step.                             *)
(*                                                                         *)
(* Items are compared with the one comparison function all sets share.     *)
(***************************************************************************)
EXTENDS Naturals, Sequences, FiniteSets, TLC

CONSTANTS
  Items,     \* data, up to the comparison
  Handles,   \* the Set* variables of the program
  MaxCount   \* bound on a node's count

ASSUME SetAssumption == MaxCount \in Nat \ {0}

VARIABLES
  live,     \* handles that point to a set
  list,     \* list[h]: its nodes, from top on
  size,     \* size[h]: its count field
  job       \* the walk in progress

vars == <<live, list, size, job>>

NoJob == [op |-> "none"]

\* The items of a set, and how often one is in it.
Members(h) == {list[h][i].item : i \in DOMAIN list[h]}
Index(h, x) == {i \in DOMAIN list[h] : list[h][i].item = x}
Count(h, x) == IF Index(h, x) = {} THEN 0 ELSE list[h][CHOOSE i \in Index(h, x) : TRUE].count

Init ==
  /\ live = {}
  /\ list = [h \in Handles |-> <<>>]
  /\ size = [h \in Handles |-> 0]
  /\ job = NoJob

\* set_contains: the walk from top meets an equal item.
Contains(h, x) == Index(h, x) # {}

Store(h, s, n) ==
  /\ list' = [list EXCEPT ![h] = s]
  /\ size' = [size EXCEPT ![h] = n]

\* The count set_node_create gives a node.
Uncounted == 0
Fresh == 1

\* _multiset_insert_no_check: a new node at the front.
AddNode(h, x, n) == Store(h, <<[item |-> x, count |-> n]>> \o list[h], size[h] + 1)

\* The node of x is counted n times more.
Bump(h, x, n) ==
  /\ list' = [list EXCEPT ![h] =
                [i \in DOMAIN list[h] |->
                   IF list[h][i].item = x THEN [list[h][i] EXCEPT !.count = @ + n] ELSE list[h][i]]]
  /\ UNCHANGED size

\* set_insert and _multiset_insert, if memory does not run out.
PutAlways(h, x) == AddNode(h, x, Fresh)
Put(h, x) == IF Contains(h, x) THEN UNCHANGED <<list, size>> ELSE AddNode(h, x, Fresh)
PutOnce(h, x, n) ==
  IF Contains(h, x) THEN Count(h, x) + 1 <= MaxCount /\ Bump(h, x, 1) ELSE AddNode(h, x, n)
PutTimes(h, x, n) ==
  IF Contains(h, x) THEN Count(h, x) + n <= MaxCount /\ Bump(h, x, n) ELSE AddNode(h, x, n)

-----------------------------------------------------------------------------
(***************************************************************************)
(* Calls of one step.                                                      *)
(***************************************************************************)
Idle == job = NoJob

New(h) ==
  /\ Idle /\ h \notin live
  /\ live' = live \cup {h}
  /\ Store(h, <<>>, 0)
  /\ UNCHANGED job

\* Without memory for a new node insertions change nothing.
Insert(h, x) ==
  /\ Idle /\ h \in live
  /\ Put(h, x)
  /\ UNCHANGED <<live, job>>

MultiInsert(h, x) ==
  /\ Idle /\ h \in live
  /\ PutTimes(h, x, 1)
  /\ UNCHANGED <<live, job>>

Remove(h, x) ==
  /\ Idle /\ h \in live
  /\ IF Contains(h, x)
     THEN LET i == CHOOSE i \in Index(h, x) : TRUE
          IN  Store(h, SubSeq(list[h], 1, i-1) \o SubSeq(list[h], i+1, Len(list[h])), size[h] - 1)
     ELSE UNCHANGED <<list, size>>
  /\ UNCHANGED <<live, job>>

Free(h) ==
  /\ Idle /\ h \in live
  /\ live' = live \ {h}
  /\ Store(h, <<>>, 0)
  /\ UNCHANGED job

\* set_is_subset and set_is_equal, with their comparisons of the count fields.
AllIn(g, h) == \A i \in DOMAIN list[g] : Contains(h, list[g][i].item)
Subset(g, h) == size[g] = 0 \/ (size[g] <= size[h] /\ AllIn(g, h))
Equal(g, h) ==
  \/ size[g] = 0 /\ size[h] = 0
  \/ list[g] # <<>> /\ list[h] # <<>> /\ size[g] = size[h] /\ Subset(g, h)

-----------------------------------------------------------------------------
(***************************************************************************)
(* Calls that walk a set.  job.at is the next node of list[job.from];      *)
(* insertions at the front of another list do not move it.  was records    *)
(* the sets before the call, for the properties.                           *)
(***************************************************************************)
Bags == [h \in Handles |-> [x \in Items |-> Count(h, x)]]

Walk(op, to, from, other) ==
  /\ job' = [op |-> op, to |-> to, from |-> from, other |-> other, at |-> 1, was |-> Bags]

\* set_concat and multiset_concat; the set may be appended to itself.
Concat(h, g) ==
  /\ Idle /\ h \in live /\ g \in live
  /\ \E op \in {"concat", "multiconcat"} : Walk(op, h, g, g)
  /\ UNCHANGED <<live, list, size>>

\* set_union, set_intersection and set_difference start with set_init.
Combine(t, g, h) ==
  /\ Idle /\ t \notin live /\ g \in live /\ h \in live
  /\ live' = live \cup {t}
  /\ Store(t, <<>>, 0)
  /\ \E op \in {"union", "intersection", "difference"} : Walk(op, t, g, h)

WalkingShort == job.op # "none" /\ job.at < Len(list[job.from])
Walking == job.op # "none" /\ job.at <= Len(list[job.from])
Item == list[job.from][job.at].item

\* What the walk does with the node it is at.
Visit ==
  CASE job.op = "union" -> AddNode(job.to, Item, Fresh)
    [] job.op \in {"union2", "concat"} -> Put(job.to, Item)
    [] job.op = "multiconcat" -> PutTimes(job.to, Item, list[job.from][job.at].count)
    [] job.op = "intersection" ->
         IF Contains(job.other, Item) THEN AddNode(job.to, Item, Fresh) ELSE UNCHANGED <<list, size>>
    [] job.op = "difference"   ->
         IF Contains(job.other, Item) THEN UNCHANGED <<list, size>> ELSE AddNode(job.to, Item, Fresh)

Step ==
  /\ Walking
  /\ Visit
  /\ job' = [job EXCEPT !.at = @ + 1]
  /\ UNCHANGED live

\* Memory runs out in Visit: concat leaves what it has done, the others free their set.
StepFails ==
  /\ Walking
  /\ CASE job.op = "union" -> TRUE
       [] job.op = "intersection" -> Contains(job.other, Item)
       [] job.op = "difference" -> ~Contains(job.other, Item)
       [] OTHER -> ~Contains(job.to, Item)
  /\ IF job.op \in {"concat", "multiconcat"}
     THEN UNCHANGED <<live, list, size>>
     ELSE live' = live \ {job.to} /\ Store(job.to, <<>>, 0)
  /\ job' = NoJob

\* The end of set1: set_union goes on with set2.
Second ==
  /\ job.op = "union" /\ ~Walking
  /\ job' = [job EXCEPT !.op = "union2", !.from = job.other, !.other = job.from, !.at = 1]
  /\ UNCHANGED <<live, list, size>>

Finish ==
  /\ job.op \notin {"none", "union"} /\ ~Walking
  /\ job' = NoJob
  /\ UNCHANGED <<live, list, size>>

Next ==
  \/ Step \/ StepFails \/ Second \/ Finish
  \/ \E h \in Handles :
       \/ New(h) \/ Free(h)
       \/ \E x \in Items : Insert(h, x) \/ MultiInsert(h, x) \/ Remove(h, x)
       \/ \E g \in Handles :
            Concat(h, g) \/ \E t \in Handles : Combine(t, g, h)

Spec == Init /\ [][Next]_vars

-----------------------------------------------------------------------------
(***************************************************************************)
(* Properties.                                                             *)
(***************************************************************************)
Node == [item : Items, count : 1..MaxCount]
Walks ==
  [op : {"concat", "multiconcat", "union", "union2", "intersection", "difference"},
   to : Handles, from : Handles, other : Handles, at : Nat, was : [Handles -> [Items -> Nat]]]

\* Every variable stays in its range, counts are positive, and a walk is about live sets.
TypeOK ==
  /\ live \subseteq Handles
  /\ list \in [Handles -> Seq(Node)]
  /\ size \in [Handles -> Nat]
  /\ job \in Walks \cup {NoJob}
  /\ job # NoJob => {job.to, job.from, job.other} \subseteq live /\ job.at \in 1..(Len(list[job.from]) + 1)

\* No item is in two nodes of a set, though half of the insertions do not look for it
\* first; and the count field is the number of nodes.
NoDuplicates ==
  \A h \in Handles :
    /\ \A i, j \in DOMAIN list[h] : list[h][i].item = list[h][j].item => i = j
    /\ size[h] = Len(list[h])

Before(h) == {x \in Items : job.was[h][x] > 0}
Seen == {list[job.from][i].item : i \in 1..(job.at - 1)}

\* A walk leaves every set but the one it fills alone, and at any node it has filled that
\* one with what the nodes walked so far give, also when a set is appended to itself.
WalkRight ==
  job # NoJob =>
    /\ \A h \in Handles \ {job.to}, x \in Items : Count(h, x) = job.was[h][x]
    /\ Members(job.from) = Before(job.from)
    /\ job.op \notin {"concat", "multiconcat"} => job.to \notin {job.from, job.other}
    /\ job.op = "concat" => Members(job.to) = Before(job.to) \cup Seen
    /\ job.op = "multiconcat" =>
         \A x \in Items :
           Count(job.to, x) = job.was[job.to][x] + IF x \in Seen THEN job.was[job.from][x] ELSE 0
    /\ job.op = "union" => Members(job.to) = Seen
    /\ job.op = "union2" => Members(job.to) = Members(job.other) \cup Seen
    /\ job.op = "intersection" => Members(job.to) = Seen \cap Members(job.other)
    /\ job.op = "difference" => Members(job.to) = Seen \ Members(job.other)

\* What holds of all sets between and during calls.
SetInv == TypeOK /\ NoDuplicates /\ WalkRight

\* At its end a walk has made the set that set theory says, with the counts added for
\* multiset_concat, also of a set to itself.  A concat may stop at any node for want of
\* memory: it has then added some of its operand and lost nothing.
ResultsRight ==
  job # NoJob =>
    LET to == Members(job.to)
        from == Before(job.from)
        other == Before(job.other)
    IN  /\ job.op \in {"concat", "multiconcat"} =>
             Before(job.to) \subseteq to /\ to \subseteq Before(job.to) \cup from
        /\ ~Walking =>
             CASE job.op = "union2" -> to = from \cup other
               [] job.op = "intersection" -> to = from \cap other
               [] job.op = "difference" -> to = from \ other
               [] job.op = "concat" -> to = Before(job.to) \cup from
               [] job.op = "multiconcat" ->
                    \A x \in Items : Count(job.to, x) = job.was[job.to][x] + job.was[job.from][x]
               [] OTHER -> TRUE

\* The comparisons agree with set theory, although they look at the count fields first
\* and set_is_equal looks for the items in one direction only.
ComparisonsRight ==
  \A g, h \in live :
    /\ Subset(g, h) <=> Members(g) \subseteq Members(h)
    /\ Equal(g, h) <=> Members(g) = Members(h)

\* The calls compute what set theory says.
AnswersRight == ResultsRight /\ ComparisonsRight

\* Sets are sets, and the calls on them compute what set theory says.
SetsRight == SetInv /\ AnswersRight

\* Items and sets are alike to TLC.
Renamings == Permutations(Items) \cup Permutations(Handles)
=============================================================================
