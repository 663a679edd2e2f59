------------------------------- MODULE HeapOps --------------------------------
(***************************************************************************)
(* Calls of src/heap/heap.c in one piece, for the programs that use them:  *)
(* Heap has the same loops turn by turn.  h[i] is node i - 1 of the heap,  *)
(* and Before(a, b) says that compare puts a above b.                      *)
(***************************************************************************)
EXTENDS Naturals, Sequences

CONSTANT Before(_, _)

Exchange(h, i, j) == [h EXCEPT ![i] = h[j], ![j] = h[i]]

\* A node on its way: the array, and where the node is.
Rise(s) ==
  LET parent == s.at \div 2
  IN  IF s.at > 1 /\ Before(s.h[s.at], s.h[parent])
      THEN [h |-> Exchange(s.h, s.at, parent), at |-> parent] ELSE s

Sink(s) ==
  LET Upper(i, c) == IF c <= Len(s.h) /\ Before(s.h[c], s.h[i]) THEN c ELSE i
      m == Upper(Upper(s.at, 2 * s.at), 2 * s.at + 1)
  IN  [h |-> Exchange(s.h, s.at, m), at |-> m]

\* The loops end after at most Len(h) turns; more turns change nothing.
Settle(h, i, Turn(_)) ==
  LET turn[n \in 0..Len(h)] ==
        IF n = 0 THEN [h |-> h, at |-> i] ELSE LET s == turn[n-1] IN Turn(s)
  IN  turn[Len(h)].h

\* heap_insert.
Inserted(h, x) == Settle(Append(h, x), Len(h) + 1, Rise)

\* shift_down, and the loop of heap_extract.
SiftDown(h, i) == Settle(h, i, Sink)

\* heap_extract: the top is h[1].
Extracted(h) ==
  IF Len(h) = 1 THEN <<>> ELSE SiftDown(<<h[Len(h)]>> \o SubSeq(h, 2, Len(h) - 1), 1)
=============================================================================
