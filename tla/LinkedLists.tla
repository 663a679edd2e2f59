----------------------------- MODULE LinkedLists -----------------------------
(***************************************************************************)
(* The stack (stack/), the list with a count (llist/), the list worked on  *)
(* by index (llist.c and its copy in llist-sort.c) and the doubly linked   *)
(* list (doubly-link.c).  Nodes are cells of the heap linked by pointers;  *)
(* a behaviour is a run of one program's main, or any sequence of calls.   *)
(***************************************************************************)
EXTENDS Integers, Sequences, FiniteSets

(***************************************************************************)
(* Sequences.  SequencesExt has these and some two hundred others, all of  *)
(* which every obligation about an instance of this module would carry.    *)
(***************************************************************************)
ToSet(s) == {s[i] : i \in DOMAIN s}

Min(S) == CHOOSE x \in S : \A y \in S : x =< y

SelectInSeq(s, Test(_)) ==
  LET I == {i \in 1..Len(s) : Test(s[i])} IN IF I # {} THEN Min(I) ELSE 0

Reverse(s) == [i \in 1..Len(s) |-> s[(Len(s) - i) + 1]]

InsertAt(s, i, e) == SubSeq(s, 1, i-1) \o <<e>> \o SubSeq(s, i, Len(s))

RemoveAt(s, i) == SubSeq(s, 1, i-1) \o SubSeq(s, i+1, Len(s))

CONSTANTS
  Lists,        \* the programs: a subset of {"stack", "counted", "indexed", "doubly"}
  Nodes, Null,  \* cells of the heap, and the null pointer
  Values,       \* numbers a caller stores
  Turns,        \* bound on the loops of the mains (10 and 100 in the code)
  Room          \* bound on the nodes of a list other callers build

ListsAssumption ==
  /\ Lists \subseteq {"stack", "counted", "indexed", "doubly"}
  /\ IsFiniteSet(Nodes) /\ Null \notin Nodes /\ Turns \in Nat

VARIABLES
  program,
  pc,           \* "main" runs, some other "caller" does, or the list is "done" with
  todo,         \* calls main has yet to make
  root, tail,   \* first node; the stack's last node
  next, prev, value,
  count,        \* the counted list's number of nodes
  alive,        \* nodes allocated and not freed
  call          \* the last call: what it was asked, whether it succeeded, what it gave

vars == <<program, pc, todo, root, tail, next, prev, value, count, alive, call>>

Ask(op, v, i) == [op |-> op, v |-> v, i |-> i]
Repeated(v) == [j \in 1..Turns |-> Ask("insert", v + j, 0)]

StackMain ==
  <<Ask("push", 255, 0), Ask("push", 100, 0), Ask("print", 0, 0), Ask("pop", 0, 0)>> \o
  [j \in 1..Turns |-> Ask("push", j, 0)] \o <<Ask("print", 0, 0), Ask("free", 0, 0)>>
CountedMain == Repeated(0) \o <<Ask("print", 0, 0), Ask("free", 0, 0)>>
IndexedMain ==
  <<Ask("add", 10, 0), Ask("add", 20, 0), Ask("add", 30, 0), Ask("print", 0, 0),
    Ask("insert_at", 10, 1), Ask("print", 0, 0), Ask("remove", 20, 0), Ask("remove_at", 0, 1),
    Ask("print", 0, 0)>>
SortMain ==
  IndexedMain \o <<Ask("add", 10, 0), Ask("add", -1, 0), Ask("add", 5, 0), Ask("sort", 0, 0),
                   Ask("print", 0, 0), Ask("free", 0, 0)>>
DoublyMain ==
  <<Ask("insert", 1, 0), Ask("insert", 2, 0), Ask("insert", 3, 0), Ask("print", 0, 0),
    Ask("find", 1, 0), Ask("free", 0, 0)>>

Mains(p) ==
  CASE p = "stack" -> {StackMain}
    [] p = "counted" -> {CountedMain}
    [] p = "indexed" -> {IndexedMain \o <<Ask("free", 0, 0)>>, SortMain}
    [] p = "doubly" -> {DoublyMain}

Operations(p) ==
  CASE p = "stack" -> {"push", "pop", "print", "free"}
    [] p = "counted" -> {"insert", "print", "free"}
    [] p = "indexed" -> {"add", "insert_at", "remove", "remove_at", "sort", "print", "free"}
    [] p = "doubly" -> {"insert", "find", "print", "free"}

Idle == [op |-> "none", v |-> 0, i |-> 0, ok |-> TRUE, out |-> <<>>]

Init ==
  /\ program \in Lists /\ pc \in {"main", "caller"}
  /\ todo \in IF pc = "main" THEN Mains(program) ELSE {<<>>}
  /\ root = Null /\ tail = Null /\ count = 0 /\ alive = {} /\ call = Idle
  /\ next = [n \in Nodes |-> Null] /\ prev = next /\ value = [n \in Nodes |-> 0]

----------------------------------------------------------------------------
\* The nodes a pointer leads to, followed at most once more often than there are nodes.
Follow(link, start) ==
  LET at[k \in 0..Cardinality(Nodes)] ==
        IF k = 0 THEN start ELSE IF at[k - 1] = Null THEN Null ELSE link[at[k - 1]]
  IN [i \in 1..Cardinality({k \in DOMAIN at : at[k] # Null}) |-> at[i - 1]]
Chain == Follow(next, root)
BackFrom(n) == Follow(prev, n)

ValuesOf(nodes) == [j \in 1..Len(nodes) |-> value[nodes[j]]]

Fresh == CHOOSE n \in Nodes : n \notin alive

\* A fresh node holding v in front of what follows the first i nodes.
LinkAt(v, i) ==
  LET n == Fresh
      p == Chain[i]
  IN /\ alive' = alive \cup {n} /\ value' = [value EXCEPT ![n] = v]
     /\ IF i = 0 THEN root' = n /\ next' = [next EXCEPT ![n] = root]
        ELSE root' = root /\ next' = [next EXCEPT ![n] = next[p], ![p] = n]

\* A freed node is never read: what it held is forgotten.
UnlinkAt(i) ==
  LET n == Chain[i]
  IN /\ alive' = alive \ {n} /\ value' = [value EXCEPT ![n] = 0]
     /\ IF i = 1 THEN root' = next[n] /\ next' = [next EXCEPT ![n] = Null]
        ELSE root' = root /\ next' = [next EXCEPT ![Chain[i - 1]] = next[n], ![n] = Null]

Answer(c, ok, out) == call' = [op |-> c.op, v |-> c.v, i |-> c.i, ok |-> ok, out |-> out]
Same == UNCHANGED <<root, tail, next, prev, value, count, alive>>

Push(c) ==
  /\ c.op = "push"
  /\ LET n == Fresh
     IN /\ alive' = alive \cup {n} /\ value' = [value EXCEPT ![n] = c.v]
        /\ prev' = [prev EXCEPT ![n] = tail]
        /\ IF tail # Null THEN next' = [next EXCEPT ![n] = Null, ![tail] = n] /\ root' = root
           ELSE next' = [next EXCEPT ![n] = Null] /\ root' = n
        /\ tail' = n
  /\ Answer(c, TRUE, <<>>) /\ UNCHANGED count

Pop(c) ==
  /\ c.op = "pop"
  /\ IF tail = Null THEN Answer(c, FALSE, <<>>) /\ Same
     ELSE LET p == prev[tail]
          IN /\ IF p # Null THEN next' = [next EXCEPT ![p] = Null] /\ root' = root
                ELSE next' = next /\ root' = Null
             /\ tail' = p /\ alive' = alive \ {tail}
             /\ prev' = [prev EXCEPT ![tail] = Null] /\ value' = [value EXCEPT ![tail] = 0]
             /\ Answer(c, TRUE, <<value[tail]>>) /\ UNCHANGED count

Insert(c) ==
  /\ c.op = "insert" /\ program = "counted"
  /\ LinkAt(c.v, 0) /\ count' = count + 1
  /\ Answer(c, TRUE, <<>>) /\ UNCHANGED <<tail, prev>>

\* Without the pointer back.
InsertForward(c) ==
  /\ c.op = "insert" /\ program = "doubly"
  /\ LinkAt(c.v, Len(Chain)) /\ Answer(c, TRUE, <<>>) /\ UNCHANGED <<tail, prev, count>>

InsertNode(c) ==
  /\ c.op = "insert" /\ program = "doubly"
  /\ LinkAt(c.v, Len(Chain))
  /\ prev' = [prev EXCEPT ![Fresh] = IF root = Null THEN Null ELSE Chain[Len(Chain)]]
  /\ Answer(c, TRUE, <<>>) /\ UNCHANGED <<tail, count>>

AddItem(c) ==
  /\ c.op = "add"
  /\ LinkAt(c.v, Len(Chain))
  /\ Answer(c, TRUE, <<>>) /\ UNCHANGED <<tail, prev, count>>

InsertAtIndex(c) ==
  /\ c.op = "insert_at"
  /\ IF c.i \in 0..Len(Chain)
     THEN /\ LinkAt(c.v, c.i) /\ Answer(c, TRUE, <<>>) /\ UNCHANGED <<tail, prev, count>>
     ELSE Answer(c, FALSE, <<>>) /\ Same

Drop(c, i) ==
  IF i = 0 THEN Answer(c, FALSE, <<>>) /\ Same
  ELSE UnlinkAt(i) /\ Answer(c, TRUE, <<>>) /\ UNCHANGED <<tail, prev, count>>

LastWith(v) ==
  LET I == {j \in DOMAIN Chain : value[Chain[j]] = v}
  IN IF I = {} THEN 0 ELSE CHOOSE j \in I : \A k \in I : k <= j
FirstWith(v) == SelectInSeq(Chain, LAMBDA n : value[n] = v)
RemoveItem(c) == c.op = "remove" /\ Drop(c, FirstWith(c.v))
RemoveIndex(c) == c.op = "remove_at" /\ Drop(c, IF c.i + 1 \in 1..Len(Chain) THEN c.i + 1 ELSE 0)

Ascending(seq) == \A j \in 1..Len(seq) - 1 : seq[j] <= seq[j + 1]

Moved(seq, places) == [j \in DOMAIN seq |-> seq[places[j]]]
Shuffles(D) ==
  {p \in [D -> D] : (\A a, b \in D : p[a] = p[b] => a = b) /\ \A d \in D : \E e \in D : p[e] = d}
Placed(nodes, seq) ==
  [n \in Nodes |-> IF n \in ToSet(nodes) THEN seq[CHOOSE j \in DOMAIN nodes : nodes[j] = n] ELSE value[n]]

\* The passes of the sort are those of module Sorting: here they move data between nodes,
\* as a permutation of their places.
SortList(c) ==
  /\ c.op = "sort"
  /\ LET chain == Chain
         held == ValuesOf(chain)
     IN \E places \in Shuffles(DOMAIN chain) :
          Ascending(Moved(held, places)) /\ value' = Placed(chain, Moved(held, places))
  /\ Answer(c, TRUE, <<>>) /\ UNCHANGED <<root, tail, next, prev, count, alive>>

FindNode(c) ==
  /\ c.op = "find"
  /\ LET i == FirstWith(c.v)
     IN Answer(c, i # 0, IF i = 0 THEN <<>> ELSE <<value[Chain[i]]>>)
  /\ Same

\* From the last node back (stack), from the first on, or both (doubly linked).
Printed ==
  CASE program = "stack" -> ValuesOf(BackFrom(tail))
    [] program = "doubly" ->
         ValuesOf(Chain) \o ValuesOf(BackFrom(IF root = Null THEN Null ELSE Chain[Len(Chain)]))
    [] OTHER -> ValuesOf(Chain)
PrintAll(c) == c.op = "print" /\ Answer(c, TRUE, Printed) /\ Same

\* Every node of the list, and the list: nothing may be called after it.
Free(c) ==
  /\ c.op = "free"
  /\ alive' = alive \ ToSet(Chain) /\ root' = Null /\ tail' = Null
  /\ Answer(c, TRUE, <<>>) /\ UNCHANGED <<next, prev, value, count>>

\* malloc fails: nothing changes, and the list by index ends the process.
Allocates == {"push", "pop", "insert", "add", "insert_at"}
NoMemory(c) ==
  /\ c.op \in Allocates /\ (c.op = "pop" => tail # Null)
  /\ (c.op = "insert_at" => c.i \in 0..Len(Chain))
  /\ Answer(c, FALSE, <<>>) /\ Same

Takes == {"push", "insert", "add", "insert_at"}
Do(c) ==
  \/ /\ c.op \in Takes => alive # Nodes
     /\ \/ Push(c) \/ Pop(c) \/ Insert(c) \/ InsertNode(c) \/ AddItem(c) \/ InsertAtIndex(c)
        \/ RemoveItem(c) \/ RemoveIndex(c) \/ SortList(c) \/ FindNode(c) \/ PrintAll(c) \/ Free(c)
  \/ NoMemory(c)

Exits(c) == c.op = "free" \/ (program = "indexed" /\ c.op \in Allocates /\ ~call'.ok)

MainCalls ==
  /\ pc = "main" /\ todo # <<>>
  /\ Do(Head(todo))
  /\ pc' = IF Exits(Head(todo)) THEN "done" ELSE pc
  /\ todo' = IF program = "stack" /\ ~call'.ok THEN <<Ask("free", 0, 0)>> ELSE Tail(todo)
  /\ UNCHANGED program

CallerCalls ==
  /\ pc = "caller"
  /\ \E op \in Operations(program), v \in Values, i \in -1..Room :
       /\ (op \notin Takes \cup {"remove", "find"} => v = CHOOSE x \in Values : TRUE)
       /\ (op \notin {"insert_at", "remove_at"} => i = 0)
       /\ (op \in Takes => Cardinality(alive) < Room)
       /\ Do(Ask(op, v, i)) /\ pc' = IF Exits(Ask(op, v, i)) THEN "done" ELSE pc
  /\ UNCHANGED <<program, todo>>

Next == MainCalls \/ CallerCalls
Spec == Init /\ [][Next]_vars

----------------------------------------------------------------------------
\* Following the pointers reaches every node that was not freed and nothing else, from
\* the last node back as from the first on where there are pointers back, and the
\* counted list counts them.
ChainSound ==
  pc # "done" =>
  /\ Len(Chain) <= Cardinality(Nodes) /\ alive = ToSet(Chain)
  /\ (program \in {"stack", "doubly"} /\ root # Null => BackFrom(Chain[Len(Chain)]) = Reverse(Chain))
  /\ (program = "stack" => tail = IF root = Null THEN Null ELSE Chain[Len(Chain)])
  /\ (program = "counted" => count = Len(Chain))

Contents == ValuesOf(Chain)
SameValues(seq, other) == \A v \in ToSet(seq \o other) :
  Cardinality({j \in DOMAIN seq : seq[j] = v}) = Cardinality({j \in DOMAIN other : other[j] = v})

\* What a call does to the pointers is what the list promises of its values: a stack
\* gives the last value pushed, an index names the value at that place, a value that was
\* removed is the first of its kind, a sort keeps the values, and a call that fails
\* changes nothing.
CallRight ==
  LET held == Contents
      c == call'
      then == Contents'
      gone(i) == IF i \in 1..Len(held) THEN c.ok /\ then = RemoveAt(held, i) ELSE ~c.ok /\ then = held
      first == SelectInSeq(held, LAMBDA x : x = c.v)
  IN /\ c.op = "free" => then = <<>>
     /\ ~c.ok => then = held
     /\ c.ok =>
          /\ c.op \in {"push", "add"} => then = Append(held, c.v)
          /\ c.op = "insert" => then = IF program = "counted" THEN <<c.v>> \o held ELSE Append(held, c.v)
          /\ c.op = "insert_at" => c.i \in 0..Len(held) /\ then = InsertAt(held, c.i + 1, c.v)
          /\ c.op = "pop" => held = Append(then, c.out[1])
     /\ c.op = "remove" => gone(first)
     /\ c.op = "remove_at" => gone(c.i + 1)
     /\ c.op = "sort" => Ascending(then) /\ SameValues(held, then)
     /\ c.op = "find" => then = held /\ (c.ok <=> first # 0)
     /\ c.op = "print" =>
          /\ then = held
          /\ c.out = CASE program = "stack" -> Reverse(held)
                       [] program = "doubly" -> held \o Reverse(held)
                       [] OTHER -> held

\* Every call does what CallRight says.
ListsRight == [][CallRight]_vars
=============================================================================
