------------------------------ MODULE DequeList ------------------------------
(***************************************************************************)
(* The doubly linked list of src/deque (and, the same code, of             *)
(* src/network/socket_server_queue/deque.c), at the level of its pointers. *)
(* Each call is one action: the deque is only ever used by one thread at a *)
(* time.  A freed node keeps whatever its fields held.                     *)
(***************************************************************************)
EXTENDS Integers, Sequences, FiniteSets, TLC

CONSTANTS
  Nodes,   \* addresses malloc can return for a node
  Null,    \* nullptr
  Values,  \* elements
  Size,    \* Size[v]: bytes of v
  Rooms    \* sizes of the buffers callers pop into

ASSUME DequeAssumption ==
  /\ Null \notin Nodes
  /\ IsFiniteSet(Nodes)
  /\ Values # {}
  /\ Size \in [Values -> Nat \ {0}]
  /\ Rooms \subseteq Nat

VARIABLES
  life,       \* the Deque itself: "none", "live", "freeing" or "freed"
  allocated,  \* nodes malloc has handed out and free has not taken back
  next, prev, \* links of the nodes
  data,       \* element of each node
  top, tail,  \* ends of the list
  count,      \* deque->count
  answer,     \* what the last call returned
  cursor,     \* the node deque_free is at
  order       \* history: the nodes in the order the calls imply

links == <<next, prev, top, tail>>
vars == <<life, allocated, links, data, count, answer, cursor, order>>

Ptr == Nodes \cup {Null}
Pick(S) == CHOOSE x \in S : TRUE

Reply(op, room, got) == answer' = [op |-> op, room |-> room, got |-> got]

Init ==
  /\ life = "none"
  /\ allocated = {}
  /\ next = [n \in Nodes |-> Null] /\ prev = [n \in Nodes |-> Null]
  /\ data = [n \in Nodes |-> Pick(Values)]
  /\ top = Null /\ tail = Null /\ cursor = Null
  /\ count = 0
  /\ answer = [op |-> "none", room |-> 0, got |-> << >>]
  /\ order = << >>

Create ==
  /\ life = "none" /\ life' = "live"
  /\ UNCHANGED <<allocated, links, data, count, answer, cursor, order>>

\* create_node: any address that is not in use.
CreateNode(n, v) ==
  /\ n \notin allocated
  /\ allocated' = allocated \cup {n}
  /\ data' = [data EXCEPT ![n] = v]

\* Field f of node m becomes p, field f of node n becomes q; m may be null.
Link(f, m, p, n, q) == [x \in Nodes |-> IF x = n THEN q ELSE IF x = m THEN p ELSE f[x]]

PushBack(n, v) ==
  /\ CreateNode(n, v)
  /\ prev' = [prev EXCEPT ![n] = tail]
  /\ next' = Link(next, tail, n, n, Null)
  /\ top' = IF tail = Null THEN n ELSE top
  /\ tail' = n
  /\ count' = count + 1
  /\ Reply("push_back", 0, <<v>>)
  /\ order' = Append(order, n)

PushFront(n, v) ==
  /\ CreateNode(n, v)
  /\ next' = [next EXCEPT ![n] = top]
  /\ prev' = Link(prev, top, n, n, Null)
  /\ tail' = IF top = Null THEN n ELSE tail
  /\ top' = n
  /\ count' = count + 1
  /\ Reply("push_front", 0, <<v>>)
  /\ order' = <<n>> \o order

\* malloc fails in create_node, whatever the end.
NoMemory ==
  /\ \E op \in {"push_back", "push_front"} : Reply(op, 0, << >>)
  /\ UNCHANGED <<allocated, links, data, count, order>>

HoldsAny(end, room) == end # Null

Holds(end, room) == end # Null /\ Size[data[end]] <= room

PopFront(room) ==
  /\ Holds(top, room)
  /\ Reply("pop_front", room, <<data[top]>>)
  /\ prev' = [x \in Nodes |-> IF x = next[top] THEN Null ELSE prev[x]]
  /\ tail' = IF next[top] = Null THEN Null ELSE tail
  /\ top' = next[top]
  /\ allocated' = allocated \ {top}
  /\ count' = count - 1
  /\ order' = Tail(order)
  /\ UNCHANGED <<next, data>>

PopBackLeaky(room) ==
  /\ Holds(tail, room)
  /\ Reply("pop_back", room, <<data[tail]>>)
  /\ next' = [x \in Nodes |-> IF x = prev[tail] THEN Null ELSE next[x]]
  /\ top' = IF prev[tail] = Null THEN Null ELSE top
  /\ tail' = prev[tail]
  /\ count' = count - 1
  /\ order' = SubSeq(order, 1, Len(order) - 1)
  /\ UNCHANGED <<allocated, prev, data>>

PopBack(room) ==
  /\ Holds(tail, room)
  /\ Reply("pop_back", room, <<data[tail]>>)
  /\ next' = [x \in Nodes |-> IF x = prev[tail] THEN Null ELSE next[x]]
  /\ top' = IF prev[tail] = Null THEN Null ELSE top
  /\ tail' = prev[tail]
  /\ allocated' = allocated \ {tail}
  /\ count' = count - 1
  /\ order' = SubSeq(order, 1, Len(order) - 1)
  /\ UNCHANGED <<prev, data>>

PeekFront(room) ==
  /\ Holds(top, room)
  /\ Reply("peek_front", room, <<data[top]>>)
  /\ UNCHANGED <<allocated, links, data, count, order>>

PeekBack(room) ==
  /\ Holds(tail, room)
  /\ Reply("peek_back", room, <<data[tail]>>)
  /\ UNCHANGED <<allocated, links, data, count, order>>

\* The early returns of the pops and peeks.
RefuseFront(room) ==
  /\ ~Holds(top, room)
  /\ \E op \in {"pop_front", "peek_front"} : Reply(op, room, << >>)
  /\ UNCHANGED <<allocated, links, data, count, order>>

RefuseBack(room) ==
  /\ ~Holds(tail, room)
  /\ \E op \in {"pop_back", "peek_back"} : Reply(op, room, << >>)
  /\ UNCHANGED <<allocated, links, data, count, order>>

Push == \E n \in Nodes, v \in Values : PushBack(n, v) \/ PushFront(n, v)

Take ==
  \E room \in Rooms :
    \/ PopFront(room) \/ PopBack(room) \/ PeekFront(room) \/ PeekBack(room)
    \/ RefuseFront(room) \/ RefuseBack(room)

\* deque_free reads the successor of a node, frees the node and goes on.
Destroy ==
  /\ life = "live" /\ life' = "freeing"
  /\ cursor' = top
  /\ UNCHANGED <<allocated, links, data, count, answer, order>>

FreeNode ==
  /\ life = "freeing" /\ cursor # Null
  /\ cursor' = next[cursor]
  /\ allocated' = allocated \ {cursor}
  /\ order' = Tail(order)
  /\ UNCHANGED <<life, links, data, count, answer>>

FreeDeque ==
  /\ life = "freeing" /\ cursor = Null
  /\ life' = "freed"
  /\ UNCHANGED <<allocated, links, data, count, answer, order, cursor>>

Call == life = "live" /\ (Push \/ NoMemory \/ Take) /\ UNCHANGED <<life, cursor>>

Next == Create \/ Call \/ Destroy \/ FreeNode \/ FreeDeque

Spec == Init /\ [][Next]_vars

-----------------------------------------------------------------------------
(***************************************************************************)
(* Properties.                                                             *)
(***************************************************************************)
\* Every variable stays in its range.
TypeOK ==
  /\ life \in {"none", "live", "freeing", "freed"}
  /\ allocated \subseteq Nodes
  /\ next \in [Nodes -> Ptr] /\ prev \in [Nodes -> Ptr]
  /\ data \in [Nodes -> Values]
  /\ top \in Ptr /\ tail \in Ptr /\ cursor \in Ptr
  /\ count \in Nat
  /\ order \in Seq(Nodes)

First(s) == IF s = << >> THEN Null ELSE s[1]
Last(s) == IF s = << >> THEN Null ELSE s[Len(s)]

\* The links spell out the order in both directions, ending in null on either side,
\* and no node occurs twice.
Distinct == \A i, j \in 1..Len(order) : order[i] = order[j] => i = j
Forward ==
  \A i \in 1..Len(order) : next[order[i]] = IF i = Len(order) THEN Null ELSE order[i+1]
Backward ==
  life = "live" =>
    \A i \in 1..Len(order) : prev[order[i]] = IF i = 1 THEN Null ELSE order[i-1]

\* top and tail are the ends of the list, or both null; deque_free is at its front.
Ends ==
  /\ life = "live" => top = First(order) /\ tail = Last(order) /\ count = Len(order)
  /\ life \in {"freeing", "freed"} => cursor = First(order)
  /\ life = "none" => order = << >> /\ top = Null /\ tail = Null /\ count = 0
  /\ life = "freed" => order = << >>

\* Every node of the list is allocated and no other is: nothing dangles, and nothing
\* is left behind when deque_free ends.
Owned == allocated = {order[i] : i \in 1..Len(order)}

ListInv == TypeOK /\ Distinct /\ Forward /\ Backward /\ Ends /\ Owned

Items == IF life = "live" THEN [i \in 1..Len(order) |-> data[order[i]]] ELSE << >>

A == INSTANCE AbstractDeque WITH
       items <- Items, life <- IF life = "freeing" THEN "freed" ELSE life

\* The linked list is a sequence open at both ends, and a failing call changes nothing.
DequeSpec == A!Spec

-----------------------------------------------------------------------------
\* For TLC: an element that is a number has as many bytes, and addresses are alike.
OwnSize == [v \in Values |-> v]
Symmetry == Permutations(Nodes)
=============================================================================
