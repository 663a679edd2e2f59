---------------------------- MODULE AbstractQueue -----------------------------
(***************************************************************************)
(* What the heap of src/heap/heap.c promises: a priority queue.  content   *)
(* holds the objects put in and not taken out, out the one that was given  *)
(* out last.                                                               *)
(***************************************************************************)
EXTENDS Naturals

CONSTANTS Objects, Rank, Null

VARIABLES content, out

Init ==
  /\ content = {}
  /\ out = Null

Maximal(x) == \A y \in content : Rank[y] <= Rank[x]

Insert(x) ==
  /\ x \notin content
  /\ content' = content \cup {x}
  /\ UNCHANGED out

Extract(x) ==
  /\ x \in content /\ Maximal(x)
  /\ content' = content \ {x}
  /\ out' = x

Peek(x) ==
  /\ x \in content /\ Maximal(x)
  /\ out' = x
  /\ UNCHANGED content

Destroy ==
  /\ content' = {}
  /\ UNCHANGED out

Next == Destroy \/ \E x \in Objects : Insert(x) \/ Extract(x) \/ Peek(x)

Spec == Init /\ [][Next]_<<content, out>>
=============================================================================
