------------------------------- MODULE Drivers -------------------------------
(***************************************************************************)
(* The containers tried out: the programs of their directories, and the    *)
(* first hash table with the main around it.                               *)
(***************************************************************************)
EXTENDS Naturals, Sequences, FiniteSets

(***************************************************************************)
(* Programs that try the containers out: each is a fixed sequence of calls *)
(* of which any that needs memory or input may fail, and every failure has *)
(* its own list of what is given back.  A program is the table of its      *)
(* calls; a container holds a number of items, and an item put into one    *)
(* that does not copy it is the container's from then on.                  *)
(***************************************************************************)
CONSTANTS
  Tests,     \* of the programs below
  AnyTimes   \* bound: turns of a loop that depends on input

VARIABLES
  test, at,
  held,      \* what is allocated or open and not yet given back
  items,     \* in each container
  turn,      \* of the loop at work
  status,    \* "runs", "success" or "failure"
  misused    \* something was used, or given back, that was not held

dvars == <<test, at, held, items, turn, status, misused>>

\* The calls.  undo is what the program gives back when the call fails.
Get(r, undo) == [op |-> "get", on |-> r, item |-> "", undo |-> undo]
May(r, undo) == [op |-> "may", on |-> r, item |-> "", undo |-> undo]
Put(r, i, undo) == [op |-> "put", on |-> r, item |-> i, undo |-> undo]
Take(r, i, undo) == [op |-> "take", on |-> r, item |-> i, undo |-> undo]
Look(r, undo) == [op |-> "look", on |-> r, item |-> "", undo |-> undo]
Unchecked(r) == [op |-> "unchecked", on |-> r, item |-> "", undo |-> {}]
Give(r) == [op |-> "give", on |-> r, item |-> "", undo |-> {}]
Back(to, n) == [op |-> "back", on |-> "", item |-> "", undo |-> {}, to |-> to, n |-> n]
Or(to) == [op |-> "or", on |-> "", item |-> "", undo |-> {}, to |-> to]
While(r, to) == [op |-> "while", on |-> r, item |-> "", undo |-> {}, to |-> to]
Stop == [op |-> "stop", on |-> "", item |-> "", undo |-> {}]
Exit == [op |-> "exit", on |-> "", item |-> "", undo |-> {}]

-----------------------------------------------------------------------------
\* src/set/main.c; the set of the union and those of the intersection and the difference
\* are made from two others.
SetTest ==
  <<Get("set_value1", {}),
    Put("set_value1", "", {"set_value1"}), Put("set_value1", "", {"set_value1"}),
    Put("set_value1", "", {"set_value1"}), Take("set_value1", "", {"set_value1"}),
    Get("set_value2", {"set_value1"}),
    Put("set_value2", "", {"set_value2", "set_value1"}), Put("set_value2", "", {"set_value2", "set_value1"}),
    Get("set_u", {"set_value1", "set_value2"}),
    Get("set_i", {"set_value1", "set_value2", "set_u"}),
    Get("set_d", {"set_value1", "set_value2", "set_i", "set_u"}),
    Get("sub_i", {"set_d", "set_i", "set_value1", "set_value2", "set_u"}),
    Put("sub_i", "", {"set_d", "set_i", "set_value1", "set_value2", "set_u"}),
    Give("sub_i"), Give("set_d"), Give("set_i"), Give("set_value1"), Give("set_value2"), Give("set_u")>>

\* src/deque/main.c: two values in front, one from the back; ten at the back, ten from the
\* front; a look at both ends.
DequeTest ==
  <<Get("deque", {}), Put("deque", "", {"deque"}), Put("deque", "", {"deque"}),
    Take("deque", "", {"deque"}),
    Put("deque", "", {"deque"}), Back(5, 10),
    Take("deque", "", {"deque"}), Back(7, 10),
    Look("deque", {"deque"}), Look("deque", {"deque"}), Give("deque")>>

\* src/deque/macro.c: DEQUEUE_CHECK ends the program as it is.
MacroTest ==
  <<Get("deque", {}), Put("deque", "", {}), Back(2, 10), Take("deque", "", {}), Back(4, 10), Give("deque")>>

\* src/heap/main.c, whose values are in an array of its own.
HeapTest ==
  <<Get("heap", {}), Put("heap", "", {"heap"}), Back(2, 10), Take("heap", "", {"heap"}), Back(4, 10),
    Give("heap")>>

\* src/heap/test.c: a string is the heap's once it is inserted, and freed when extracted.
StringsTest ==
  <<Get("heap", {}),
    Get("temp", {"heap"}), May("temp", {"temp", "heap"}), Put("heap", "temp", {"temp", "heap"}), Back(2, 10),
    Take("heap", "buffer", {"heap"}), Give("buffer"), Back(6, 10), Give("heap")>>

\* src/heap/peek.c: values are extracted while the heap has any and the one at its top is
\* greater than 10, then the rest.
PeekTest ==
  <<Get("heap", {}), Put("heap", "", {"heap"}), Back(2, AnyTimes),
    While("heap", 12), Look("heap", {"heap"}), Or(9), Take("heap", "", {"heap"}), Back(4, AnyTimes + 1),
    While("heap", 12), Take("heap", "", {"heap"}), Back(9, AnyTimes + 1), Give("heap")>>

\* src/object/main.c: the second name is copied before the first is freed.
ObjectTest ==
  <<Get("obj", {}), Get("name", {"obj"}), Get("temp", {"name", "obj"}), Give("name"), Give("temp"), Give("obj")>>

\* src/graph/matrix.c: main.
MatrixTest ==
  <<Get("mat", {}),
    May("mat", {"mat"}), Give("mat")>>

\* src/hashtable/main.c: an entry is made for a key that is typed in, as long as anything
\* else than the last choice is; at the end of the input that is for ever.  The value of a
\* key that was there is disposed of, and the table has the new one.
TableTest ==
  <<Get("table", {}), Or(7), Or(2), Get("new_value", {"table"}), Put("table", "new_value", {}), Or(2),
    Give("table")>>

\* src/fscanf.c: numbers of a file in a list.  Neither the node nor its data are looked at
\* before they are used, and a text that is no number ends the program at once.
ListTest ==
  <<Get("fptr", {"list"}),
    Or(7), Or(11), Unchecked("node"), Put("list", "node", {}), Back(2, AnyTimes),
    Give("fptr"), Look("list", {"list"}), Give("list"), Stop, Exit>>

\* src/struct.c: an array that realloc makes one score longer each time.  The first failure
\* to allocate ends the program, a later one is not noticed.
ScoreTest ==
  <<Get("s", {}),
    Or(5), Unchecked("s"), Back(2, AnyTimes),
    Give("s")>>

Code ==
  [set |-> SetTest, deque |-> DequeTest, macro |-> MacroTest, heap |-> HeapTest,
   strings |-> StringsTest, peek |-> PeekTest, object |-> ObjectTest, matrix |-> MatrixTest,
   table |-> TableTest, list |-> ListTest, scores |-> ScoreTest]

-----------------------------------------------------------------------------
DInit ==
  /\ test \in Tests /\ at = 1
  /\ held = (IF test = "list" THEN {"list"} ELSE {})
  /\ items = [r \in {"set_value1", "set_value2", "sub_i", "deque", "heap", "list"} |-> 0]
  /\ turn = 0 /\ status = "runs" /\ misused = FALSE

Call == Code[test][at]
Runs(op) == status = "runs" /\ at <= Len(Code[test]) /\ Call.op = op
Proceed == at' = at + 1
Needs(what) == misused' = (misused \/ ~(what \subseteq held))
Holds(r) == r \in DOMAIN items
Emptied(rs) == items' = [r \in DOMAIN items |-> IF r \in rs THEN 0 ELSE items[r]]

\* The call fails.
Fail ==
  /\ status' = "failure" /\ held' = held \ Call.undo
  /\ Needs(Call.undo) /\ Emptied(Call.undo) /\ UNCHANGED <<at, turn>>

Getting ==
  /\ Runs("get")
  /\ \/ held' = held \cup {Call.on} /\ Proceed /\ UNCHANGED <<items, turn, status, misused>>
     \/ Fail

MayFail ==
  /\ Runs("may")
  /\ \/ Needs({Call.on}) /\ Proceed /\ UNCHANGED <<held, items, turn, status>>
     \/ Fail

Item == IF Call.item = "" THEN {} ELSE {Call.item}

Putting ==
  /\ Runs("put")
  /\ \/ /\ Needs({Call.on} \cup Item) /\ held' = held \ Item
        /\ items' = [items EXCEPT ![Call.on] = @ + 1] /\ Proceed /\ UNCHANGED <<turn, status>>
     \/ test \notin {"list", "table"} /\ Fail

\* A pop, an extraction or a removal fails if there is nothing to take.
Taking ==
  /\ Runs("take")
  /\ IF items[Call.on] = 0 THEN Fail
     ELSE /\ Needs({Call.on}) /\ held' = held \cup Item
          /\ items' = [items EXCEPT ![Call.on] = @ - 1] /\ Proceed /\ UNCHANGED <<turn, status>>

Looking ==
  /\ Runs("look")
  /\ IF items[Call.on] = 0 THEN Fail
     ELSE Needs({Call.on}) /\ Proceed /\ UNCHANGED <<held, items, turn, status>>

\* Memory that is used whether it was given or not.
NotChecked ==
  /\ Runs("unchecked")
  /\ \/ held' = held \cup {Call.on} /\ UNCHANGED misused
     \/ misused' = TRUE /\ UNCHANGED held
  /\ Proceed /\ UNCHANGED <<items, turn, status>>

Giving ==
  /\ Runs("give")
  /\ Needs({Call.on}) /\ held' = held \ {Call.on}
  /\ Emptied({Call.on}) /\ Proceed /\ UNCHANGED <<turn, status>>

\* A loop with a number of turns, and a way around or out of one that input decides.
Loop ==
  /\ Runs("back")
  /\ IF turn + 1 < Call.n THEN turn' = turn + 1 /\ at' = Call.to ELSE turn' = 0 /\ Proceed
  /\ UNCHANGED <<held, items, status, misused>>

Branch ==
  /\ Runs("or")
  /\ at' \in {at + 1, Call.to}
  /\ turn' = IF at' = Call.to THEN 0 ELSE turn
  /\ UNCHANGED <<held, items, status, misused>>

\* A loop that takes what a container holds.
TillEmpty ==
  /\ Runs("while")
  /\ IF items[Call.on] # 0 THEN Proceed /\ UNCHANGED turn ELSE at' = Call.to /\ turn' = 0
  /\ UNCHANGED <<held, items, status, misused>>

Over == IF at > Len(Code[test]) THEN TRUE ELSE Call.op \in {"stop", "exit"}
Ending ==
  /\ status = "runs" /\ Over
  /\ status' = IF at <= Len(Code[test]) /\ Call.op = "exit" THEN "failure" ELSE "success"
  /\ UNCHANGED <<at, held, items, turn, misused>>

DNext ==
  /\ \/ Getting \/ MayFail \/ Putting \/ Taking \/ Looking \/ NotChecked \/ Giving \/ Loop \/ Branch \/ TillEmpty
     \/ Ending
  /\ UNCHANGED test
DSpec == DInit /\ [][DNext]_dvars

-----------------------------------------------------------------------------
(***************************************************************************)
(* Properties.                                                             *)
(***************************************************************************)
\* What is left when a program has ended: the set that the last insertion of set/main.c
\* could not fill, the deque of a failed DEQUEUE_CHECK, and all there is of fscanf.c at a
\* text that is no number.
Left ==
  CASE test = "set" /\ at = 13 -> {"sub_i"}
    [] test = "macro" /\ at \in {2, 4} -> {"deque"}
    [] test = "list" /\ at = 11 -> {"fptr", "list"}
    [] OTHER -> {}

\* Whichever call fails, nothing is given back twice or used without being held, and
\* nothing else is left; but fscanf.c and struct.c use memory they may not have got.  The
\* calls that take an item always find one, so that their error paths are never taken.
DriversInv ==
  /\ misused => test \in {"list", "scores"}
  /\ (status # "runs" /\ ~misused) => held = (IF status = "failure" THEN Left ELSE {})
  /\ (status = "failure" /\ test # "list") => Call.op \notin {"take", "look"}

(***************************************************************************)
(* src/hashtable.c: the first hash table, with chains that also lead back  *)
(* and values that bring the function that disposes of them.  Its main     *)
(* puts three keys in, one with a string, one with a number on the heap    *)
(* and one with a variable of its own, and any allocation may fail.        *)
(***************************************************************************)
CONSTANTS
  Buckets,   \* TABLE_SIZE of them
  NoNode     \* nullptr

\* What main inserts, in order, and how the value of each is disposed of.
Key == <<"key ", "key value", "integer">>
Disposal == <<"cleanup", "cleanup", "cleanup_stack">>
Nodes == DOMAIN Key

VARIABLES
  hash,     \* the bucket of each key
  buckets,  \* the first node of each
  fnode,    \* nodes: text, value (0 for nullptr), next, prev, cleanup
  fheap,    \* <<what, node>> allocated and not freed
  fstep,    \* what main does next, and for which key
  seen,     \* the value the last lookup led to
  wrong     \* freed twice, or something that is not on the heap

fvars == <<hash, buckets, fnode, fheap, fstep, seen, wrong>>

Blank == [text |-> "", value |-> 0, next |-> NoNode, prev |-> NoNode, cleanup |-> "none"]

FirstInit ==
  /\ hash \in [Nodes -> Buckets] /\ buckets = [b \in Buckets |-> NoNode]
  /\ fnode = [n \in Nodes |-> Blank] /\ fheap = {} /\ fstep = <<"insert", 1>> /\ seen = 0
  /\ wrong = FALSE

\* The nodes of a bucket, from the first on.
Chain(b) ==
  LET next(n) == IF n = NoNode THEN <<>> ELSE <<n>>
      after(n) == IF n = NoNode THEN NoNode ELSE fnode[n].next
      first == buckets[b]
  IN next(first) \o next(after(first)) \o next(after(after(first)))

find_node(b, text) ==
  LET hits == {i \in DOMAIN Chain(b) : fnode[Chain(b)[i]].text = text}
  IN IF hits = {} THEN NoNode ELSE Chain(b)[CHOOSE i \in hits : \A j \in hits : i <= j]

\* release_node frees the text and, if there are both a value and a way to dispose of it,
\* the value; cleanup_stack leaves it alone.
Freed(n) ==
  {<<"text", n>>, <<"node", n>>} \cup
  IF fnode[n].cleanup = "cleanup" /\ fnode[n].value # 0 THEN {<<"value", n>>} ELSE {}

hash_cleanup(code) ==
  LET chained == {n \in Nodes : \E b \in Buckets : \E i \in DOMAIN Chain(b) : Chain(b)[i] = n}
      gone == UNION {Freed(n) : n \in chained}
  IN /\ wrong' = (wrong \/ ~(gone \subseteq fheap)) /\ fheap' = fheap \ gone
     /\ buckets' = [b \in Buckets |-> NoNode]
     /\ fstep' = <<code, 0>> /\ UNCHANGED fnode

NotLinkedBack(first, n) == fnode
LinkedBack(first, n) == IF first = NoNode THEN fnode ELSE [fnode EXCEPT ![first].prev = n]

insert_node(b, n, text) ==
  LET first == buckets[b]
  IN /\ fnode' = [LinkedBack(first, n) EXCEPT ![n] = [Blank EXCEPT !.text = text, !.next = first]]
     /\ buckets' = [buckets EXCEPT ![b] = n]
     /\ fheap' = fheap \cup {<<"node", n>>, <<"text", n>>}

\* hash_insert would give back the node that a key has, but main inserts each key once: a
\* new node comes first; create_node frees the node when its text has no room.
hash_insert ==
  LET n == fstep[2] IN
  /\ fstep[1] = "insert"
  /\ \/ find_node(hash[n], Key[n]) = NoNode /\ insert_node(hash[n], n, Key[n])
        /\ fstep' = <<"value", n>> /\ UNCHANGED wrong
     \/ hash_cleanup("failure")
  /\ UNCHANGED <<hash, seen>>

\* main puts the value and its disposal in before it looks whether there is a value; that
\* of the third key is a variable.
Value ==
  LET n == fstep[2] IN
  /\ fstep[1] = "value"
  /\ fnode' = [fnode EXCEPT ![n].value = n, ![n].cleanup = Disposal[n]]
  /\ fheap' = IF Disposal[n] = "cleanup" THEN fheap \cup {<<"value", n>>} ELSE fheap
  /\ fstep' = <<"lookup", n>>
  /\ UNCHANGED <<hash, buckets, seen, wrong>>

NoValue ==
  LET n == fstep[2] IN
  /\ fstep[1] = "value" /\ Disposal[n] = "cleanup"
  /\ hash_cleanup("failure")
  /\ UNCHANGED <<hash, seen>>

hash_lookup ==
  LET n == fstep[2]
      spot == find_node(hash[n], Key[n])
  IN /\ fstep[1] = "lookup"
     /\ seen' = IF spot = NoNode THEN 0 ELSE fnode[spot].value
     /\ fstep' = IF n = 3 THEN <<"cleanup", 3>> ELSE <<"insert", n + 1>>
     /\ UNCHANGED <<hash, buckets, fnode, fheap, wrong>>

EndOfMain ==
  /\ fstep[1] = "cleanup" /\ hash_cleanup("success") /\ UNCHANGED <<hash, seen>>

FirstNext ==
  \/ hash_insert \/ Value \/ NoValue
  \/ hash_lookup
  \/ EndOfMain
FirstSpec == FirstInit /\ [][FirstNext]_fvars

-----------------------------------------------------------------------------
\* Whatever the keys hash to: a chain leads back the way it leads forth, a key is in the
\* chain of its bucket and in no other, a lookup comes to the value of its own key, and
\* whichever allocation fails, everything is freed, once, and the variable of main never.
FirstHashInv ==
  /\ \A b \in Buckets : LET c == Chain(b) IN
       /\ c # <<>> => fnode[c[1]].prev = NoNode
       /\ \A i \in DOMAIN c : fnode[c[i]].text = Key[c[i]] /\ hash[c[i]] = b
       /\ \A i \in 1..Len(c) - 1 : fnode[c[i + 1]].prev = c[i]
       /\ \A i, j \in DOMAIN c : i # j => c[i] # c[j]
  /\ (fstep[1] = "insert" /\ fstep[2] > 1) => seen = fstep[2] - 1
  /\ fstep[1] = "cleanup" => seen = 3
  /\ ~wrong
  /\ fstep[1] \in {"failure", "success"} => fheap = {}
=============================================================================
