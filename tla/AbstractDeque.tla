---------------------------- MODULE AbstractDeque ----------------------------
(***************************************************************************)
(* What src/deque promises its callers: a sequence of elements, open at    *)
(* both ends.  A call leaves an answer: which call it was, the room its    *)
(* buffer had, and what it handed out (<< >> if it failed or hands out     *)
(* nothing).  A call that fails changes nothing.                           *)
(***************************************************************************)
EXTENDS Integers, Sequences

CONSTANTS Values, Size, Rooms

VARIABLES life, items, answer

Reply(op, room, got) == answer' = [op |-> op, room |-> room, got |-> got]

Init == life = "none" /\ items = << >> /\ answer = [op |-> "none", room |-> 0, got |-> << >>]

Create == life = "none" /\ life' = "live" /\ UNCHANGED <<items, answer>>

Push ==
  /\ life = "live"
  /\ \E v \in Values, op \in {"push_back", "push_front"} :
       /\ items' = IF op = "push_back" THEN Append(items, v) ELSE <<v>> \o items
       /\ Reply(op, 0, <<v>>)
  /\ UNCHANGED life

NoMemory ==
  /\ life = "live"
  /\ \E op \in {"push_back", "push_front"} : Reply(op, 0, << >>)
  /\ UNCHANGED <<life, items>>

Front == items[1]
Back == items[Len(items)]
Fits(v, room) == Size[v] <= room

PopFront(room) ==
  /\ items # << >> /\ Fits(Front, room)
  /\ items' = Tail(items)
  /\ Reply("pop_front", room, <<Front>>)

PopBack(room) ==
  /\ items # << >> /\ Fits(Back, room)
  /\ items' = SubSeq(items, 1, Len(items) - 1)
  /\ Reply("pop_back", room, <<Back>>)

Peek(op, v, room) ==
  /\ items # << >> /\ Fits(v, room)
  /\ UNCHANGED items
  /\ Reply(op, room, <<v>>)

\* A pop or a peek fails on an empty deque, or for want of room at its end; only then.
Refuse(ops, v, room) ==
  /\ items = << >> \/ ~Fits(v, room)
  /\ UNCHANGED items
  /\ \E op \in ops : Reply(op, room, << >>)

Take ==
  /\ life = "live"
  /\ \E room \in Rooms :
       \/ PopFront(room) \/ Peek("peek_front", Front, room)
       \/ PopBack(room) \/ Peek("peek_back", Back, room)
       \/ Refuse({"pop_front", "peek_front"}, Front, room)
       \/ Refuse({"pop_back", "peek_back"}, Back, room)
  /\ UNCHANGED life

Destroy ==
  /\ life = "live" /\ life' = "freed"
  /\ items' = << >>
  /\ UNCHANGED answer

Next == Create \/ Push \/ NoMemory \/ Take \/ Destroy

Spec == Init /\ [][Next]_<<life, items, answer>>
=============================================================================
