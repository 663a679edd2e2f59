-------------------------- MODULE ChainedHashProofs ---------------------------
(***************************************************************************)
(* Proofs about ChainedHash for any finite memory, any keys and hash, any  *)
(* number of tables and buckets, and any program that uses the tables.     *)
(*                                                                         *)
(* Trail is defined by recursion along next.  The proofs reason instead    *)
(* with Reach, the least set of cells that next does not leave, which      *)
(* needs no induction, and show once (TrailIs) that in a sound heap the    *)
(* two are the same.                                                       *)
(***************************************************************************)
EXTENDS ChainedHash, FiniteSetTheorems, FunctionTheorems, TLAPS

CellsIn(nd) == {a \in Nodes : nd[a] # Null}

Closed(nd, s) == s \subseteq CellsIn(nd) /\ \A m \in s : nd[m].next \in s \cup {Null}

Reach(nd, a) == {m \in CellsIn(nd) : \A s \in SUBSET Nodes : Closed(nd, s) /\ a \in s \cup {Null} => m \in s}

\* prev and next undo each other.
Links(nd) ==
  /\ nd \in [Nodes -> Cell \cup {Null}]
  /\ \A a \in CellsIn(nd) :
       /\ nd[a].next # Null => nd[a].next \in CellsIn(nd) /\ nd[nd[a].next].prev = a
       /\ nd[a].prev # Null => nd[a].prev \in CellsIn(nd) /\ nd[nd[a].prev].next = a

-----------------------------------------------------------------------------
(***************************************************************************)
(* What next leads to.                                                     *)
(***************************************************************************)
LEMMA NullOutside == Null \notin Nodes /\ Null \notin Bufs /\ Null \notin Cell /\ Null \notin Held
BY ChainAssumption

LEMMA CellTyped ==
  ASSUME NEW nd, Links(nd), NEW a \in CellsIn(nd)
  PROVE  /\ a \in Nodes /\ a # Null /\ nd[a] \in Cell
         /\ nd[a].text \in Keys /\ nd[a].next \in CellsIn(nd) \cup {Null}
         /\ nd[a].prev \in CellsIn(nd) \cup {Null} /\ nd[a].val \in Bufs \cup {Null}
         /\ nd[a].bytes \in {0, 1}
<1>1. a \in Nodes /\ a # Null /\ nd[a] \in Cell
  BY NullOutside DEF Links, CellsIn
<1>2. /\ nd[a].text \in Keys /\ nd[a].val \in Bufs \cup {Null}
      /\ nd[a].bytes \in {0, 1}
  BY <1>1 DEF Cell
<1>3. nd[a].next \in CellsIn(nd) \cup {Null} /\ nd[a].prev \in CellsIn(nd) \cup {Null}
  BY DEF Links
<1> QED
  BY <1>1, <1>2, <1>3

LEMMA ReachLeast ==
  ASSUME NEW nd, NEW a, NEW s, Closed(nd, s), a \in s \cup {Null}
  PROVE  Reach(nd, a) \subseteq s
BY DEF Reach, Closed, CellsIn

LEMMA ReachClosed ==
  ASSUME NEW nd, Links(nd), NEW a \in CellsIn(nd) \cup {Null}
  PROVE  /\ Closed(nd, Reach(nd, a)) /\ a \in Reach(nd, a) \cup {Null}
         /\ a = Null => Reach(nd, a) = {}
<1>1. a = Null => Reach(nd, a) = {}
  <2>1. Closed(nd, {})
    BY DEF Closed
  <2> QED
    BY <2>1, ReachLeast
<1>2. a \in Reach(nd, a) \cup {Null}
  BY NullOutside DEF Reach, Closed, CellsIn
<1>3. ASSUME NEW m \in Reach(nd, a) PROVE nd[m].next \in Reach(nd, a) \cup {Null}
  <2>1. m \in CellsIn(nd) /\ nd[m].next \in CellsIn(nd) \cup {Null}
    BY <1>3, CellTyped DEF Reach
  <2>2. ASSUME nd[m].next # Null, NEW s \in SUBSET Nodes, Closed(nd, s), a \in s \cup {Null}
        PROVE  nd[m].next \in s
    BY <1>3, <2>2 DEF Reach, Closed
  <2> QED
    BY <2>1, <2>2 DEF Reach
<1>4. Reach(nd, a) \subseteq CellsIn(nd)
  BY DEF Reach
<1> QED
  BY <1>1, <1>2, <1>3, <1>4 DEF Closed

LEMMA ReachStep ==
  ASSUME NEW nd, Links(nd), NEW a \in CellsIn(nd)
  PROVE  Reach(nd, a) = {a} \cup Reach(nd, nd[a].next)
<1>1. a # Null /\ nd[a].next \in CellsIn(nd) \cup {Null}
  BY CellTyped
<1>2. Closed(nd, Reach(nd, a)) /\ a \in Reach(nd, a)
  BY <1>1, ReachClosed
<1>3. /\ Closed(nd, Reach(nd, nd[a].next)) /\ nd[a].next \in Reach(nd, nd[a].next) \cup {Null}
  BY <1>1, ReachClosed
<1>4. Reach(nd, nd[a].next) \subseteq Reach(nd, a)
  <2>1. nd[a].next \in Reach(nd, a) \cup {Null}
    BY <1>2 DEF Closed
  <2> QED
    BY <1>2, <2>1, ReachLeast
<1>5. Closed(nd, {a} \cup Reach(nd, nd[a].next))
  BY <1>3 DEF Closed
<1>6. Reach(nd, a) \subseteq {a} \cup Reach(nd, nd[a].next)
  BY <1>5, ReachLeast
<1> QED
  BY <1>2, <1>4, <1>6

\* What is reached depends only on next of what is reached.
SameNext(nd, md, s) == \A m \in s : m \in CellsIn(md) /\ md[m].next = nd[m].next

LEMMA ReachFrame ==
  ASSUME NEW nd, Links(nd), NEW a \in CellsIn(nd) \cup {Null}, NEW md, SameNext(nd, md, Reach(nd, a))
  PROVE  Reach(md, a) = Reach(nd, a)
<1> DEFINE R == Reach(nd, a)
           M == Reach(md, a)
<1>1. Closed(nd, R) /\ a \in R \cup {Null}
  BY ReachClosed
<1>2. Closed(md, R)
  BY <1>1 DEF Closed, SameNext
<1>3. M \subseteq R
  BY <1>1, <1>2, ReachLeast
<1>4. a \in M \cup {Null}
  BY <1>1, <1>2 DEF Reach, Closed, CellsIn
<1>5. \A m \in M : md[m].next \in M \cup {Null}
  <2>1. SUFFICES ASSUME NEW m \in M, md[m].next # Null PROVE md[m].next \in M
    OBVIOUS
  <2>2. m \in R /\ md[m].next \in R
    BY <1>2, <1>3, <2>1 DEF Closed
  <2>3. ASSUME NEW s \in SUBSET Nodes, Closed(md, s), a \in s \cup {Null} PROVE md[m].next \in s
    BY <2>1, <2>3 DEF Reach, Closed
  <2>4. md[m].next \in CellsIn(md)
    BY <1>2, <2>2 DEF Closed
  <2> QED
    BY <2>3, <2>4 DEF Reach
<1>6. Closed(nd, M)
  BY <1>1, <1>3, <1>5 DEF Closed, SameNext
<1>7. R \subseteq M
  BY <1>4, <1>6, ReachLeast
<1> QED
  BY <1>3, <1>7

\* Every cell reached but the first was reached from the one before it.
LEMMA ReachBack ==
  ASSUME NEW nd, Links(nd), NEW a \in CellsIn(nd), NEW m \in Reach(nd, a), m # a
  PROVE  nd[m].prev \in Reach(nd, a) /\ nd[m].prev # m /\ nd[nd[m].prev].next = m
<1>1. Closed(nd, Reach(nd, a)) /\ a \in Reach(nd, a) /\ m \in CellsIn(nd)
  BY ReachClosed, CellTyped DEF Reach
<1>2. PICK x \in Reach(nd, a) \ {m} : nd[x].next = m
  <2>1. SUFFICES ASSUME \A x \in Reach(nd, a) \ {m} : nd[x].next # m PROVE FALSE
    OBVIOUS
  <2>2. Closed(nd, Reach(nd, a) \ {m})
    BY <1>1, <2>1 DEF Closed
  <2>3. Reach(nd, a) \subseteq Reach(nd, a) \ {m}
    BY <1>1, <2>2, ReachLeast
  <2> QED
    BY <2>3
<1>3. x \in CellsIn(nd) /\ m # Null
  BY <1>1, NullOutside DEF Closed, CellsIn
<1>4. nd[m].prev = x
  BY <1>2, <1>3 DEF Links
<1> QED
  BY <1>2, <1>4

\* Nothing leads back to a first node.
LEMMA ReachRest ==
  ASSUME NEW nd, Links(nd), NEW a \in CellsIn(nd), nd[a].prev = Null
  PROVE  Reach(nd, nd[a].next) = Reach(nd, a) \ {a}
<1>1. Closed(nd, Reach(nd, a)) /\ a # Null
  BY ReachClosed, CellTyped
<1>2. Closed(nd, Reach(nd, a) \ {a})
  BY <1>1, NullOutside DEF Closed, Links, CellsIn
<1>3. Reach(nd, a) = {a} \cup Reach(nd, nd[a].next)
  BY ReachStep
<1>4. nd[a].next \in (Reach(nd, a) \ {a}) \cup {Null}
  <2>1. nd[a].next # Null => nd[nd[a].next].prev = a
    BY DEF Links
  <2>2. nd[a].next # a
    BY <1>1, <2>1
  <2> QED
    BY <1>1, <1>3, <2>2 DEF Closed
<1>5. Reach(nd, nd[a].next) \subseteq Reach(nd, a) \ {a}
  BY <1>2, <1>4, ReachLeast
<1> QED
  BY <1>3, <1>5

\* What leads back for ever is not reached from a first node.
LEMMA NoLoop ==
  ASSUME NEW nd, Links(nd), NEW a \in CellsIn(nd), nd[a].prev = Null,
         NEW s \in SUBSET CellsIn(nd), \A m \in s : nd[m].prev \in s
  PROVE  s \cap Reach(nd, a) = {}
<1>1. Closed(nd, Reach(nd, a)) /\ a \in Reach(nd, a) /\ Null \notin CellsIn(nd)
  BY ReachClosed, NullOutside DEF CellsIn
<1>2. a \notin s
  BY <1>1
<1>3. ASSUME NEW m \in Reach(nd, a) \ s, nd[m].next # Null PROVE nd[m].next \in Reach(nd, a) \ s
  BY <1>1, <1>3 DEF Closed, Links
<1>4. Closed(nd, Reach(nd, a) \ s)
  BY <1>1, <1>3 DEF Closed
<1> QED
  BY <1>1, <1>2, <1>4, ReachLeast

LEMMA NotItsNeighbour ==
  ASSUME NEW nd, Links(nd), NEW a \in CellsIn(nd), nd[a].prev = Null, NEW m \in Reach(nd, a)
  PROVE  /\ nd[m].prev # m /\ nd[m].next # m
         /\ nd[m].prev = nd[m].next => nd[m].prev = Null
<1>1. m \in CellsIn(nd) /\ m # Null
  BY NullOutside DEF Reach, CellsIn
<1>2. nd[m].prev # m
  BY <1>1, NoLoop, {m} \in SUBSET CellsIn(nd)
<1>3. nd[m].next # m
  BY <1>1, <1>2 DEF Links
<1>4. ASSUME nd[m].prev = nd[m].next, nd[m].prev # Null PROVE FALSE
  <2>1. nd[m].prev \in CellsIn(nd) /\ nd[nd[m].prev].prev = m
    BY <1>1, <1>4 DEF Links
  <2> DEFINE s == {m, nd[m].prev}
  <2>2. s \in SUBSET CellsIn(nd) /\ (\A x \in s : nd[x].prev \in s) /\ m \in s
    BY <1>1, <2>1
  <2>3. s \cap Reach(nd, a) = {}
    <3> HIDE DEF s
    <3> QED
      BY <2>2, NoLoop
  <2> QED
    BY <2>2, <2>3
<1> QED
  BY <1>2, <1>3, <1>4

-----------------------------------------------------------------------------
(***************************************************************************)
(* Linking and unlinking a node.                                           *)
(***************************************************************************)
\* md is nd without a.
LEMMA UnlinkedLinks ==
  ASSUME Links(node), NEW a \in CellsIn(node), node[a].prev # a, node[a].next # a,
         node[a].prev = node[a].next => node[a].prev = Null,
         NEW md, md = Unlinked(a)
  PROVE  /\ Links(md) /\ CellsIn(md) = CellsIn(node) \ {a}
         /\ \A m \in CellsIn(md) :
              /\ md[m].text = node[m].text /\ md[m].val = node[m].val
              /\ md[m].bytes = node[m].bytes /\ md[m].own = node[m].own
              /\ md[m].next = IF m = node[a].prev THEN node[a].next ELSE node[m].next
              /\ md[m].prev = IF m = node[a].next THEN node[a].prev ELSE node[m].prev
<1> DEFINE p == node[a].prev
           n == node[a].next
<1>1. a \in Nodes /\ a # Null /\ node \in [Nodes -> Cell \cup {Null}]
  BY CellTyped DEF Links
<1>2. /\ p \in CellsIn(node) \cup {Null} /\ n \in CellsIn(node) \cup {Null}
      /\ p # Null => node[p].next = a
      /\ n # Null => node[n].prev = a
  BY DEF Links
<1>3. Null \notin Nodes /\ Null \notin Cell
  BY NullOutside
<1>4. /\ DOMAIN md = Nodes /\ md = [m \in Nodes |-> md[m]] /\ md[a] = Null
      /\ \A m \in Nodes : m # a /\ m = p => md[m] = [node[m] EXCEPT !.next = n]
      /\ \A m \in Nodes : m # a /\ m = n => md[m] = [node[m] EXCEPT !.prev = p]
      /\ \A m \in Nodes : m # a /\ m # p /\ m # n => md[m] = node[m]
  BY <1>1, <1>2, <1>3 DEF Unlinked
<1>5. ASSUME NEW m \in CellsIn(node) \ {a}
      PROVE  /\ md[m] \in Cell
             /\ md[m].text = node[m].text /\ md[m].val = node[m].val
             /\ md[m].bytes = node[m].bytes /\ md[m].own = node[m].own
             /\ md[m].next = IF m = p THEN n ELSE node[m].next
             /\ md[m].prev = IF m = n THEN p ELSE node[m].prev
  <2>1. m \in Nodes /\ m # Null /\ node[m] \in Cell /\ p \in Nodes \cup {Null} /\ n \in Nodes \cup {Null}
    BY <1>2, CellTyped DEF CellsIn
  <2>2. CASE m = p
    <3>1. md[m] = [node[m] EXCEPT !.next = n] /\ m # n
      BY <1>4, <2>1, <2>2
    <3> QED
      BY <2>1, <2>2, <3>1 DEF Cell
  <2>3. CASE m = n
    <3>1. md[m] = [node[m] EXCEPT !.prev = p] /\ m # p
      BY <1>4, <2>1, <2>3
    <3> QED
      BY <2>1, <2>3, <3>1 DEF Cell
  <2>4. CASE m # p /\ m # n
    BY <1>4, <2>1, <2>4
  <2> QED
    BY <2>2, <2>3, <2>4
<1>6. CellsIn(md) = CellsIn(node) \ {a}
  <2>1. \A m \in Nodes \ CellsIn(node) : md[m] = Null
    BY <1>1, <1>2, <1>3, <1>4 DEF CellsIn
  <2> QED
    BY <1>3, <1>4, <1>5, <2>1 DEF CellsIn
<1>7. md \in [Nodes -> Cell \cup {Null}]
  <2>1. \A m \in Nodes : md[m] \in Cell \cup {Null}
    BY <1>5, <1>6 DEF CellsIn
  <2> QED
    BY <1>4, <2>1
<1>8. ASSUME NEW m \in CellsIn(md), md[m].next # Null
      PROVE  md[m].next \in CellsIn(md) /\ md[md[m].next].prev = m
  <2>1. m \in CellsIn(node) \ {a} /\ m # Null
    BY <1>3, <1>6 DEF CellsIn
  <2>2. CASE m = p
    BY <1>2, <1>5, <1>6, <1>8, <2>1, <2>2
  <2>3. CASE m # p
    <3>1. md[m].next = node[m].next /\ node[m].next \in CellsIn(node) /\ node[node[m].next].prev = m
      BY <1>5, <1>8, <2>1, <2>3 DEF Links
    <3>2. node[m].next # a /\ node[m].next # n
      BY <1>2, <1>8, <2>1, <2>3, <3>1
    <3> QED
      BY <1>5, <1>6, <3>1, <3>2
  <2> QED
    BY <2>2, <2>3
<1>9. ASSUME NEW m \in CellsIn(md), md[m].prev # Null
      PROVE  md[m].prev \in CellsIn(md) /\ md[md[m].prev].next = m
  <2>1. m \in CellsIn(node) \ {a} /\ m # Null
    BY <1>3, <1>6 DEF CellsIn
  <2>2. CASE m = n
    BY <1>2, <1>5, <1>6, <1>9, <2>1, <2>2
  <2>3. CASE m # n
    <3>1. md[m].prev = node[m].prev /\ node[m].prev \in CellsIn(node) /\ node[node[m].prev].next = m
      BY <1>5, <1>9, <2>1, <2>3 DEF Links
    <3>2. node[m].prev # a /\ node[m].prev # p
      BY <1>2, <1>9, <2>1, <2>3, <3>1
    <3> QED
      BY <1>5, <1>6, <3>1, <3>2
  <2> QED
    BY <2>2, <2>3
<1>10. Links(md)
  BY <1>7, <1>8, <1>9 DEF Links
<1> QED
  BY <1>5, <1>6, <1>10

\* Chains that a is not in stay as they are.
LEMMA UnlinkedElsewhere ==
  ASSUME Links(node), NEW a \in CellsIn(node), node[a].prev # a, node[a].next # a,
         node[a].prev = node[a].next => node[a].prev = Null,
         NEW x \in CellsIn(node) \cup {Null}, a \notin Reach(node, x), NEW md, md = Unlinked(a)
  PROVE  Reach(md, x) = Reach(node, x)
<1>1. Closed(node, Reach(node, x)) /\ a # Null
  BY ReachClosed, CellTyped
<1>2. ASSUME NEW m \in Reach(node, x) PROVE m \in CellsIn(md) /\ md[m].next = node[m].next
  <2>1. m \in CellsIn(node) \ {a} /\ m # Null /\ node[m].next # a
    BY <1>1, NullOutside DEF Closed, CellsIn
  <2>2. m # node[a].prev
    BY <2>1 DEF Links
  <2> QED
    BY <2>1, <2>2, UnlinkedLinks
<1> QED
  BY <1>2, ReachFrame DEF SameNext

LEMMA UnlinkedReach ==
  ASSUME Links(node), NEW f \in CellsIn(node), node[f].prev = Null, NEW a \in Reach(node, f),
         NEW md, md = Unlinked(a)
  PROVE  Reach(md, IF a = f THEN node[a].next ELSE f) = Reach(node, f) \ {a}
<1>1. a \in CellsIn(node) /\ a # Null
  BY NullOutside DEF Reach, CellsIn
<1>2. /\ node[a].prev # a /\ node[a].next # a
      /\ node[a].prev = node[a].next => node[a].prev = Null
  BY NotItsNeighbour
<1>3. /\ Links(md) /\ CellsIn(md) = CellsIn(node) \ {a}
      /\ \A m \in CellsIn(md) : md[m].next = IF m = node[a].prev THEN node[a].next ELSE node[m].next
  BY <1>1, <1>2, UnlinkedLinks
<1>4. CASE a = f
  <2>1. Reach(node, node[a].next) = Reach(node, f) \ {a}
    BY <1>4, ReachRest
  <2>2. node[a].next \in CellsIn(node) \cup {Null}
    BY <1>1, CellTyped
  <2> QED
    BY <1>1, <1>2, <1>4, <2>1, <2>2, UnlinkedElsewhere
<1>5. CASE a # f
  <2> DEFINE R == Reach(node, f)
             M == Reach(md, f)
             p == node[a].prev
  <2>1. p \in R /\ p # a /\ node[p].next = a
    BY <1>5, ReachBack
  <2>2. Closed(node, R) /\ f \in R \ {a}
    BY <1>5, ReachClosed
  <2>3. Closed(md, R \ {a})
    <3>1. ASSUME NEW m \in R \ {a} PROVE md[m].next \in (R \ {a}) \cup {Null}
      <4>1. m \in CellsIn(md) /\ m # Null
        BY <1>3, <2>2, NullOutside DEF Closed, CellsIn
      <4>2. CASE m = p
        BY <1>1, <1>2, <1>3, <2>2, <4>1, <4>2 DEF Closed
      <4>3. CASE m # p
        <5>1. md[m].next = node[m].next /\ node[m].next # a
          BY <1>1, <1>3, <4>1, <4>3 DEF Links
        <5> QED
          BY <2>2, <5>1 DEF Closed
      <4> QED
        BY <4>2, <4>3
    <3> QED
      BY <1>3, <2>2, <3>1 DEF Closed
  <2>4. M \subseteq R \ {a}
    BY <2>2, <2>3, ReachLeast
  <2>5. Closed(md, M) /\ f \in M
    BY <1>1, <1>3, <1>5, ReachClosed, NullOutside DEF CellsIn
  <2>6. p \in M
    <3>1. SUFFICES ASSUME p \notin M PROVE FALSE
      OBVIOUS
    <3>2. Closed(node, M)
      BY <1>3, <2>4, <2>5, <3>1 DEF Closed
    <3>3. R \subseteq M
      BY <2>5, <3>2, ReachLeast
    <3> QED
      BY <2>1, <3>1, <3>3
  <2>7. md[p].next = node[a].next
    BY <1>3, <2>5, <2>6 DEF Closed
  <2>8. Closed(node, M \cup {a})
    <3>1. ASSUME NEW m \in M, m # p PROVE node[m].next \in M \cup {Null}
      BY <1>3, <2>5, <3>1 DEF Closed
    <3> QED
      BY <1>1, <1>3, <2>1, <2>5, <2>6, <2>7, <3>1 DEF Closed
  <2>9. R \subseteq M \cup {a}
    BY <2>5, <2>8, ReachLeast
  <2> QED
    BY <1>5, <2>4, <2>9
<1> QED
  BY <1>4, <1>5

\* md is nd with x in front of the list that starts with first.
InFront(nd, md, x, first, c) ==
  /\ c \in Cell /\ c.next = first /\ c.prev = Null
  /\ md = [m \in Nodes |-> IF m = x THEN c
                           ELSE IF m = first THEN [nd[m] EXCEPT !.prev = x] ELSE nd[m]]

LEMMA InFrontLinks ==
  ASSUME NEW nd, Links(nd), NEW x \in Nodes, nd[x] = Null, NEW first \in CellsIn(nd) \cup {Null},
         first # Null => nd[first].prev = Null, NEW md, NEW c, InFront(nd, md, x, first, c)
  PROVE  /\ Links(md) /\ CellsIn(md) = CellsIn(nd) \cup {x} /\ md[x] = c
         /\ \A m \in CellsIn(nd) :
              /\ m # x /\ md[m].text = nd[m].text /\ md[m].val = nd[m].val
              /\ md[m].bytes = nd[m].bytes /\ md[m].own = nd[m].own
              /\ md[m].next = nd[m].next
              /\ md[m].prev = IF m = first THEN x ELSE nd[m].prev
<1>1. /\ Null \notin Nodes /\ Null \notin Cell /\ x # Null /\ nd \in [Nodes -> Cell \cup {Null}]
      /\ c \in Cell /\ c.next = first /\ c.prev = Null
  BY NullOutside DEF Links, InFront
<1>2. /\ DOMAIN md = Nodes /\ md = [m \in Nodes |-> md[m]] /\ md[x] = c
      /\ \A m \in Nodes : m # x /\ m = first => md[m] = [nd[m] EXCEPT !.prev = x]
      /\ \A m \in Nodes : m # x /\ m # first => md[m] = nd[m]
  BY <1>1 DEF InFront
<1>3. ASSUME NEW m \in CellsIn(nd)
      PROVE  /\ md[m] \in Cell
             /\ m # x /\ md[m].text = nd[m].text /\ md[m].val = nd[m].val
             /\ md[m].bytes = nd[m].bytes /\ md[m].own = nd[m].own
             /\ md[m].next = nd[m].next
             /\ md[m].prev = IF m = first THEN x ELSE nd[m].prev
  <2>1. m \in Nodes /\ m # x /\ nd[m] \in Cell
    BY <1>1, CellTyped DEF CellsIn
  <2>2. CASE m = first
    <3>1. md[m] = [nd[m] EXCEPT !.prev = x]
      BY <1>2, <2>1, <2>2
    <3> QED
      BY <2>1, <2>2, <3>1 DEF Cell
  <2>3. CASE m # first
    BY <1>2, <2>1, <2>3
  <2> QED
    BY <2>1, <2>2, <2>3
<1>4. CellsIn(md) = CellsIn(nd) \cup {x}
  <2>1. \A m \in Nodes \ (CellsIn(nd) \cup {x}) : md[m] = Null
    BY <1>1, <1>2 DEF CellsIn
  <2> QED
    BY <1>1, <1>2, <1>3, <2>1 DEF CellsIn
<1>5. md \in [Nodes -> Cell \cup {Null}]
  <2>1. \A m \in Nodes : md[m] \in Cell \cup {Null}
    BY <1>1, <1>2, <1>3, <1>4 DEF CellsIn
  <2> QED
    BY <1>2, <2>1
<1>6. ASSUME NEW m \in CellsIn(md), md[m].next # Null
      PROVE  md[m].next \in CellsIn(md) /\ md[md[m].next].prev = m
  <2>1. CASE m = x
    BY <1>1, <1>2, <1>3, <1>4, <1>6, <2>1
  <2>2. CASE m # x
    <3>1. /\ m \in CellsIn(nd) /\ md[m].next = nd[m].next
          /\ nd[m].next \in CellsIn(nd) /\ nd[nd[m].next].prev = m
      BY <1>3, <1>4, <1>6, <2>2 DEF Links
    <3>2. nd[m].next # first
      BY <1>1, <1>6, <3>1 DEF CellsIn
    <3> QED
      BY <1>3, <1>4, <3>1, <3>2
  <2> QED
    BY <2>1, <2>2
<1>7. ASSUME NEW m \in CellsIn(md), md[m].prev # Null
      PROVE  md[m].prev \in CellsIn(md) /\ md[md[m].prev].next = m
  <2>1. m \in CellsIn(nd)
    BY <1>1, <1>2, <1>4, <1>7
  <2>2. CASE m = first
    BY <1>1, <1>2, <1>3, <1>4, <2>1, <2>2
  <2>3. CASE m # first
    <3>1. md[m].prev = nd[m].prev /\ nd[m].prev \in CellsIn(nd) /\ nd[nd[m].prev].next = m
      BY <1>3, <1>7, <2>1, <2>3 DEF Links
    <3> QED
      BY <1>3, <1>4, <3>1
  <2> QED
    BY <2>2, <2>3
<1>8. Links(md)
  BY <1>5, <1>6, <1>7 DEF Links
<1> QED
  BY <1>2, <1>3, <1>4, <1>8

LEMMA InFrontReach ==
  ASSUME NEW nd, Links(nd), NEW x \in Nodes, nd[x] = Null, NEW first \in CellsIn(nd) \cup {Null},
         first # Null => nd[first].prev = Null, NEW md, NEW c, InFront(nd, md, x, first, c)
  PROVE  /\ Reach(md, x) = {x} \cup Reach(nd, first)
         /\ \A a \in CellsIn(nd) \cup {Null} : Reach(md, a) = Reach(nd, a)
<1>1. /\ Links(md) /\ CellsIn(md) = CellsIn(nd) \cup {x} /\ md[x] = c
      /\ \A m \in CellsIn(nd) : md[m].next = nd[m].next
  BY InFrontLinks
<1>2. ASSUME NEW a \in CellsIn(nd) \cup {Null} PROVE Reach(md, a) = Reach(nd, a)
  <2>1. Reach(nd, a) \subseteq CellsIn(nd)
    BY DEF Reach
  <2>2. SameNext(nd, md, Reach(nd, a))
    BY <1>1, <2>1 DEF SameNext
  <2> QED
    BY <2>2, ReachFrame
<1>3. Reach(md, x) = {x} \cup Reach(md, md[x].next)
  BY <1>1, ReachStep
<1>4. md[x].next = first
  BY <1>1 DEF InFront
<1> QED
  BY <1>2, <1>3, <1>4

-----------------------------------------------------------------------------
(***************************************************************************)
(* The lists of the tables.  At(h, i) is Chain(h, i), Inside(h) is In(h).  *)
(***************************************************************************)
At(h, i) == Reach(node, head[h][i])
Inside(h) == UNION {At(h, i) : i \in Buckets(h)}

\* Every live table has its buckets, each Null or a first node.
Heads ==
  /\ use \in Uses /\ live \subseteq Tables /\ DOMAIN head = Tables
  /\ \A h \in Tables \ live : head[h] = <<>>
  /\ \A h \in live : \E n \in use.sizes : head[h] \in [0..(n-1) -> CellsIn(node) \cup {Null}]
  /\ \A h \in live : \A i \in Buckets(h) : head[h][i] # Null => node[head[h][i]].prev = Null

\* Every cell is in one table, in the bucket of its key, which no other cell there has.
Placed ==
  /\ \A h \in live : \A i \in Buckets(h) : \A a \in At(h, i) : Bucket(h, node[a].text) = i
  /\ \A h \in live : \A a, b \in Inside(h) : node[a].text = node[b].text => a = b
  /\ \A g, h \in live : g # h => Inside(g) \cap Inside(h) = {}
  /\ CellsIn(node) = UNION {Inside(h) : h \in live}

Lists == Links(node) /\ Heads /\ Placed

LEMMA BucketsAre ==
  ASSUME Heads, NEW h \in live
  PROVE  /\ \E n \in use.sizes : Buckets(h) = 0..(n-1) /\ Cardinality(Buckets(h)) = n /\ n \in Nat \ {0}
         /\ 0 \in Buckets(h)
         /\ \A k \in Keys : Bucket(h, k) \in Buckets(h)
         /\ \A i \in Buckets(h) : head[h][i] \in CellsIn(node) \cup {Null}
         /\ h \in Tables
<1>1. PICK n \in use.sizes : head[h] \in [0..(n-1) -> CellsIn(node) \cup {Null}]
  BY DEF Heads
<1>2. n \in Nat \ {0}
  BY ChainAssumption DEF Heads
<1>3. Buckets(h) = 0..(n-1)
  BY <1>1 DEF Buckets
<1>4. Cardinality(Buckets(h)) = n
  BY <1>2, <1>3, FS_Interval
<1>5. ASSUME NEW k \in Keys PROVE Bucket(h, k) \in Buckets(h)
  <2>1. Code[k] \in Nat
    BY ChainAssumption
  <2>2. Code[k] % n \in 0..(n-1)
    BY <1>2, <2>1
  <2> QED
    BY <1>3, <1>4, <2>2 DEF Bucket
<1> QED
  BY <1>1, <1>2, <1>3, <1>4, <1>5 DEF Heads

LEMMA DeadEmpty ==
  ASSUME Heads, NEW h \in Tables \ live
  PROVE  Buckets(h) = {} /\ Inside(h) = {}
<1>1. head[h] = <<>>
  BY DEF Heads
<1>2. Buckets(h) = {}
  BY <1>1 DEF Buckets
<1> QED
  BY <1>2 DEF Inside

LEMMA InsideIs ==
  ASSUME Links(node), Heads, NEW h \in live
  PROVE  /\ Inside(h) \subseteq CellsIn(node)
         /\ \A i \in Buckets(h) : At(h, i) \subseteq Inside(h) /\ Closed(node, At(h, i))
         /\ Closed(node, Inside(h))
<1>1. ASSUME NEW i \in Buckets(h)
      PROVE  At(h, i) \subseteq Inside(h) /\ Closed(node, At(h, i))
  BY BucketsAre, ReachClosed DEF At, Inside
<1>2. Closed(node, Inside(h))
  BY <1>1 DEF Closed, Inside
<1> QED
  BY <1>1, <1>2 DEF Closed

\* prev stays in a table as well.
LEMMA PrevInside ==
  ASSUME Lists, NEW h \in live, NEW a \in Inside(h), node[a].prev # Null
  PROVE  node[a].prev \in Inside(h)
<1>1. a \in CellsIn(node) /\ node[a].prev \in CellsIn(node) /\ node[node[a].prev].next = a /\ a # Null
  BY InsideIs, NullOutside DEF Links, Lists, CellsIn
<1>2. PICK g \in live : node[a].prev \in Inside(g)
  BY <1>1 DEF Lists, Placed
<1>3. a \in Inside(g)
  BY <1>1, <1>2, InsideIs DEF Closed, Lists
<1> QED
  BY <1>2, <1>3 DEF Lists, Placed

\* Reach is a solution of the recursion, so Trail is one.
LEMMA TrailStep ==
  ASSUME Links(node)
  PROVE  /\ Trail[Null] = {}
         /\ \A a \in CellsIn(node) : Trail[a] = {a} \cup Trail[node[a].next]
<1> DEFINE D == Cells \cup {Null}
           Eq(f) == f = [a \in D |-> IF a = Null THEN {} ELSE {a} \cup f[node[a].next]]
           F == [a \in D |-> Reach(node, a)]
<1>1. Cells = CellsIn(node)
  BY DEF Cells, CellsIn
<1>2. Eq(F)
  <2>1. ASSUME NEW a \in D PROVE F[a] = IF a = Null THEN {} ELSE {a} \cup F[node[a].next]
    <3>1. CASE a = Null
      BY <3>1, <1>1, ReachClosed
    <3>2. CASE a # Null
      <4>1. a \in CellsIn(node) /\ node[a].next \in D
        BY <1>1, <3>2, CellTyped
      <4> QED
        BY <3>2, <4>1, ReachStep
    <3> QED
      BY <3>1, <3>2
  <2> QED
    BY <2>1
<1>3. Trail = CHOOSE f : Eq(f)
  BY DEF Trail
<1>4. Eq(Trail)
  <2> HIDE DEF F, Eq
  <2> QED
    BY <1>2, <1>3
<1>5. \A a \in D : Trail[a] = IF a = Null THEN {} ELSE {a} \cup Trail[node[a].next]
  BY <1>4
<1> QED
  BY <1>1, <1>5, NullOutside DEF CellsIn

\* It is the only one, because a list that never ended would have no first node.
LEMMA TrailIs ==
  ASSUME Lists
  PROVE  \A a \in CellsIn(node) \cup {Null} : Trail[a] = Reach(node, a)
<1> DEFINE B == {a \in CellsIn(node) : Trail[a] # Reach(node, a)}
           step == [a \in B |-> node[a].next]
<1>1. /\ Trail[Null] = {} /\ Reach(node, Null) = {}
      /\ \A a \in CellsIn(node) : /\ Trail[a] = {a} \cup Trail[node[a].next]
                                  /\ Reach(node, a) = {a} \cup Reach(node, node[a].next)
  BY TrailStep, ReachStep, ReachClosed DEF Lists
<1>2. ASSUME NEW a \in B PROVE node[a].next \in B /\ node[node[a].next].prev = a
  <2>1. Trail[node[a].next] # Reach(node, node[a].next)
    BY <1>1
  <2> QED
    BY <1>1, <2>1, CellTyped DEF Lists, Links
<1>3. step \in Injection(B, B)
  <2>1. step \in [B -> B]
    BY <1>2
  <2>2. \A a, b \in B : step[a] = step[b] => a = b
    BY <1>2
  <2> HIDE DEF B, step
  <2> QED
    BY <2>1, <2>2, Fun_IsInj
<1>4. IsFiniteSet(B)
  <2>1. B \in SUBSET Nodes
    BY DEF CellsIn
  <2> HIDE DEF B
  <2> QED
    BY <2>1, ChainAssumption, FS_Subset
<1>5. step \in Surjection(B, B)
  <2> HIDE DEF B, step
  <2> QED
    BY <1>3, <1>4, FS_Injection
<1>6. \A b \in B : \E a \in B : step[a] = b
  <2> HIDE DEF B, step
  <2> QED
    BY <1>5 DEF Surjection
<1>7. ASSUME NEW b \in B PROVE node[b].prev \in B
  <2>1. PICK a \in B : step[a] = b
    BY <1>6
  <2>2. node[a].next = b
    BY <2>1
  <2> QED
    BY <1>2, <2>2
<1>8. ASSUME NEW b \in B PROVE FALSE
  <2>1. PICK h \in live : b \in Inside(h)
    BY DEF Lists, Placed
  <2>2. PICK i \in Buckets(h) : b \in At(h, i)
    BY <2>1 DEF Inside
  <2>3. head[h][i] \in CellsIn(node) /\ node[head[h][i]].prev = Null
    BY <2>2, BucketsAre, <1>1 DEF Lists, Heads, At
  <2>4. B \in SUBSET CellsIn(node)
    OBVIOUS
  <2> HIDE DEF B
  <2> QED
    BY <1>7, <1>8, <2>2, <2>3, <2>4, NoLoop DEF Lists, At
<1> QED
  BY <1>1, <1>8

LEMMA ChainIs ==
  ASSUME Lists
  PROVE  /\ Cells = CellsIn(node)
         /\ \A h \in live : \A i \in Buckets(h) : Chain(h, i) = At(h, i)
         /\ \A h \in Tables : In(h) = Inside(h)
<1>1. Cells = CellsIn(node)
  BY DEF Cells, CellsIn
<1>2. ASSUME NEW h \in live, NEW i \in Buckets(h) PROVE Chain(h, i) = At(h, i)
  BY BucketsAre, TrailIs DEF Lists, Chain, At
<1>3. ASSUME NEW h \in Tables PROVE In(h) = Inside(h)
  <2>1. CASE h \in live
    BY <1>2, <2>1 DEF In, Inside
  <2>2. CASE h \notin live
    BY <2>2, DeadEmpty DEF In, Inside, Lists
  <2> QED
    BY <2>1, <2>2
<1> QED
  BY <1>1, <1>2, <1>3

LEMMA LookupIs ==
  ASSUME Lists, NEW h \in live, NEW k \in Keys
  PROVE  Lookup(h, k) = {a \in Inside(h) : node[a].text = k}
<1>1. Bucket(h, k) \in Buckets(h) /\ Chain(h, Bucket(h, k)) = At(h, Bucket(h, k))
  BY BucketsAre, ChainIs DEF Lists
<1>2. \A a \in Inside(h) : node[a].text = k => a \in At(h, Bucket(h, k))
  BY DEF Lists, Placed, Inside
<1> QED
  BY <1>1, <1>2 DEF Lookup, Inside

-----------------------------------------------------------------------------
(***************************************************************************)
(* What the steps do to the lists.                                         *)
(***************************************************************************)
\* Only values change.
SameLinks ==
  /\ UNCHANGED <<use, live, head>> /\ CellsIn(node') = CellsIn(node)
  /\ \A a \in CellsIn(node) : /\ node'[a].text = node[a].text
                              /\ node'[a].next = node[a].next /\ node'[a].prev = node[a].prev

LEMMA SameLists ==
  ASSUME Lists, SameLinks, node' \in [Nodes -> Cell \cup {Null}]
  PROVE  /\ Lists'
         /\ \A a \in CellsIn(node) \cup {Null} : Reach(node', a) = Reach(node, a)
         /\ \A h \in live : \A i \in Buckets(h) : At(h, i)' = At(h, i)
         /\ \A h \in Tables : Inside(h)' = Inside(h)
<1>1. Links(node')
  BY DEF Lists, Links, SameLinks
<1>2. ASSUME NEW a \in CellsIn(node) \cup {Null} PROVE Reach(node', a) = Reach(node, a)
  <2>1. SameNext(node, node', Reach(node, a))
    BY DEF SameNext, SameLinks, Reach
  <2> QED
    BY <2>1, ReachFrame DEF Lists
<1>3. \A h \in Tables : Buckets(h)' = Buckets(h)
  BY DEF Buckets, SameLinks
<1>4. \A h \in live : \A i \in Buckets(h) : head'[h][i] = head[h][i] /\ head[h][i] \in CellsIn(node) \cup {Null}
  BY BucketsAre DEF Lists, SameLinks
<1>5. \A h \in live : \A i \in Buckets(h) : At(h, i)' = At(h, i)
  BY <1>2, <1>4 DEF At
<1>6. Heads'
  <2>1. ASSUME NEW h \in live, NEW i \in Buckets(h), head[h][i] # Null PROVE node'[head[h][i]].prev = Null
    BY <1>4, <2>1 DEF Lists, Heads, SameLinks
  <2> QED
    BY <1>3, <1>4, <2>1 DEF Lists, Heads, SameLinks
<1>7. ASSUME NEW h \in Tables PROVE Inside(h)' = Inside(h)
  <2>1. CASE h \in live
    BY <1>3, <1>5, <2>1 DEF Inside
  <2>2. CASE h \notin live
    <3>1. Buckets(h) = {}
      BY <2>2, DeadEmpty DEF Lists
    <3> QED
      BY <1>3, <3>1 DEF Inside
  <2> QED
    BY <2>1, <2>2
<1>8. \A h \in live : h \in Tables /\ Inside(h) \subseteq CellsIn(node)
  BY InsideIs DEF Lists, Heads
<1>9. \A h \in Tables, k \in Keys : Bucket(h, k)' = Bucket(h, k)
  BY <1>3 DEF Bucket
<1>10. Placed'
  <2>1. ASSUME NEW h \in live, NEW i \in Buckets(h), NEW a \in At(h, i) PROVE Bucket(h, node[a].text)' = i
    <3>1. a \in CellsIn(node) /\ node'[a].text = node[a].text /\ node[a].text \in Keys
      BY CellTyped DEF At, Reach, SameLinks, Lists
    <3>2. Bucket(h, node[a].text)' = Bucket(h, node[a].text)
      BY <1>8, <1>3, <3>1 DEF Bucket
    <3> QED
      BY <3>2 DEF Lists, Placed
  <2>2. \A h \in live : \A a, b \in Inside(h) : node'[a].text = node'[b].text => a = b
    BY <1>8 DEF Lists, Placed, SameLinks
  <2>3. UNCHANGED live /\ CellsIn(node') = CellsIn(node)
    BY DEF SameLinks
  <2>4. CellsIn(node') = UNION {Inside(h)' : h \in live}
    BY <1>7, <1>8, <2>3 DEF Lists, Placed
  <2>5. \A g, h \in live : g # h => Inside(g)' \cap Inside(h)' = {}
    BY <1>7, <1>8 DEF Lists, Placed
  <2> QED
    BY <1>3, <1>5, <1>7, <1>8, <2>1, <2>2, <2>3, <2>4, <2>5 DEF Placed
<1> QED
  BY <1>1, <1>2, <1>5, <1>6, <1>7, <1>10 DEF Lists

\* Table h has a new node x for k, in front of its bucket.
PushedNode(h, k, x, c) ==
  /\ UNCHANGED <<use, live>> /\ x \in Nodes /\ node[x] = Null /\ c.text = k
  /\ InFront(node, node', x, head[h][Bucket(h, k)], c)
  /\ head' = [head EXCEPT ![h][Bucket(h, k)] = x]

LEMMA PushLists ==
  ASSUME Lists, NEW h \in live, NEW k \in Keys, \A a \in Inside(h) : node[a].text # k,
         NEW x, NEW c, PushedNode(h, k, x, c)
  PROVE  /\ Lists'
         /\ CellsIn(node') = CellsIn(node) \cup {x} /\ node'[x] = c /\ x \notin CellsIn(node)
         /\ \A m \in CellsIn(node) :
              /\ node'[m].text = node[m].text /\ node'[m].val = node[m].val
              /\ node'[m].bytes = node[m].bytes /\ node'[m].own = node[m].own
              /\ node'[m].next = node[m].next
         /\ \A a \in CellsIn(node) \cup {Null} : Reach(node', a) = Reach(node, a)
         /\ \A g \in Tables : Buckets(g)' = Buckets(g)
         /\ \A g \in live : \A i \in Buckets(g) : g # h => At(g, i)' = At(g, i)
         /\ Inside(h)' = Inside(h) \cup {x}
         /\ \A g \in Tables : g # h => Inside(g)' = Inside(g)
<1>0. PICK b : b = Bucket(h, k)
  OBVIOUS
<1> DEFINE first == head[h][b]
<1>1. /\ b \in Buckets(h) /\ first \in CellsIn(node) \cup {Null} /\ h \in Tables
      /\ first # Null => node[first].prev = Null
  BY <1>0, BucketsAre DEF Lists, Heads
<1>2. /\ x \in Nodes /\ node[x] = Null /\ x \notin CellsIn(node)
      /\ c.text = k /\ c.prev = Null
      /\ InFront(node, node', x, first, c)
  BY <1>0 DEF PushedNode, CellsIn, InFront
<1>3. /\ Links(node') /\ CellsIn(node') = CellsIn(node) \cup {x} /\ node'[x] = c
      /\ \A m \in CellsIn(node) :
           /\ node'[m].text = node[m].text /\ node'[m].val = node[m].val
           /\ node'[m].bytes = node[m].bytes /\ node'[m].own = node[m].own
           /\ node'[m].next = node[m].next
           /\ node'[m].prev = IF m = first THEN x ELSE node[m].prev
  BY <1>1, <1>2, InFrontLinks DEF Lists
<1>4. /\ Reach(node', x) = {x} \cup Reach(node, first)
      /\ \A a \in CellsIn(node) \cup {Null} : Reach(node', a) = Reach(node, a)
  BY <1>1, <1>2, InFrontReach DEF Lists
<1>5. PICK n \in use.sizes : head[h] \in [0..(n-1) -> CellsIn(node) \cup {Null}]
  BY DEF Lists, Heads
<1>6. /\ UNCHANGED <<use, live>> /\ DOMAIN head' = Tables
      /\ \A g \in Tables : g # h => head'[g] = head[g]
      /\ head'[h] = [head[h] EXCEPT ![b] = x]
  BY <1>0, <1>1 DEF PushedNode, Lists, Heads
<1>7. /\ head'[h] \in [0..(n-1) -> CellsIn(node') \cup {Null}]
      /\ head'[h][b] = x /\ \A i \in Buckets(h) : i # b => head'[h][i] = head[h][i]
      /\ Buckets(h)' = Buckets(h)
  <2>1. Buckets(h) = 0..(n-1) /\ Buckets(h)' = DOMAIN head'[h]
    BY <1>5 DEF Buckets
  <2> QED
    BY <1>1, <1>3, <1>5, <1>6, <2>1
<1>8. \A g \in Tables : Buckets(g)' = Buckets(g)
  BY <1>6, <1>7 DEF Buckets
<1>9. \A g \in live : g \in Tables /\ \A i \in Buckets(g) : head[g][i] \in CellsIn(node) \cup {Null}
  BY BucketsAre DEF Lists
<1>10. \A g \in live : \A i \in Buckets(g) : (g # h \/ i # b) => At(g, i)' = At(g, i)
  BY <1>4, <1>6, <1>7, <1>9 DEF At
<1>11. At(h, b)' = At(h, b) \cup {x}
  BY <1>4, <1>7 DEF At
<1>12. Inside(h)' = Inside(h) \cup {x}
  BY <1>1, <1>8, <1>10, <1>11 DEF Inside
<1>13. ASSUME NEW g \in Tables, g # h PROVE Inside(g)' = Inside(g)
  <2>1. CASE g \in live
    BY <1>8, <1>10, <1>13, <2>1 DEF Inside
  <2>2. CASE g \notin live
    BY <1>8, <2>2, DeadEmpty DEF Inside, Lists
  <2> QED
    BY <2>1, <2>2
<1>14. \A g \in live : Inside(g) \subseteq CellsIn(node)
  BY InsideIs DEF Lists
<1>15. Heads'
  <2>1. \A g \in Tables \ live : head'[g] = <<>>
    BY <1>6 DEF Lists, Heads
  <2>2. ASSUME NEW g \in live PROVE \E m \in use.sizes : head'[g] \in [0..(m-1) -> CellsIn(node') \cup {Null}]
    <3>1. CASE g = h
      BY <1>7, <3>1
    <3>2. CASE g # h
      <4>1. PICK m \in use.sizes : head[g] \in [0..(m-1) -> CellsIn(node) \cup {Null}]
        BY DEF Lists, Heads
      <4>2. head'[g] = head[g]
        BY <1>6, <1>9, <3>2
      <4>3. head'[g] \in [0..(m-1) -> CellsIn(node') \cup {Null}]
        BY <1>3, <4>1, <4>2
      <4> QED
        BY <4>3
    <3> QED
      BY <3>1, <3>2
  <2>3. ASSUME NEW g \in live, NEW i \in Buckets(g), head'[g][i] # Null PROVE node'[head'[g][i]].prev = Null
    <3>1. CASE g = h /\ i = b
      BY <1>2, <1>3, <1>7, <3>1
    <3>2. CASE g # h \/ i # b
      <4>1. head'[g][i] = head[g][i] /\ head[g][i] \in Inside(g)
        <5>1. head'[g][i] = head[g][i]
          BY <1>6, <1>7, <1>9, <3>2
        <5>2. head[g][i] \in At(g, i)
          BY <1>9, <2>3, <5>1, ReachClosed DEF Lists, At
        <5> QED
          BY <5>1, <5>2 DEF Inside
      <4>2. head[g][i] \in At(g, i) /\ (g = h => head[g][i] \notin At(h, b))
        <5>1. head[g][i] \in At(g, i)
          BY <1>9, <2>3, <4>1, ReachClosed DEF Lists, At
        <5> QED
          BY <1>1, <3>2, <5>1 DEF Lists, Placed
      <4>3. first # Null => first \in At(h, b)
        BY <1>1, ReachClosed DEF Lists, At
      <4>4. head[g][i] # first
        <5>1. CASE g = h
          BY <2>3, <4>1, <4>2, <4>3, <5>1
        <5>2. CASE g # h
          <6>1. first # Null => first \in Inside(h)
            BY <1>1, <4>3 DEF Inside
          <6> QED
            BY <2>3, <4>1, <5>2, <6>1 DEF Lists, Placed
        <5> QED
          BY <5>1, <5>2
      <4>5. node[head[g][i]].prev = Null /\ head[g][i] \in CellsIn(node)
        BY <1>9, <2>3, <4>1 DEF Lists, Heads
      <4> QED
        BY <1>3, <4>1, <4>4, <4>5
    <3> QED
      BY <3>1, <3>2
  <2> QED
    BY <1>6, <1>8, <1>9, <2>1, <2>2, <2>3 DEF Lists, Heads
<1>16. Placed'
  <2>1. ASSUME NEW g \in live, NEW i \in Buckets(g), NEW a \in At(g, i)' PROVE Bucket(g, node[a].text)' = i
    <3>1. CASE a = x
      <4>1. x \notin At(g, i)
        BY <1>2 DEF At, Reach
      <4>2. g = h /\ i = b
        BY <1>10, <3>1, <4>1
      <4> QED
        BY <1>0, <1>2, <1>3, <1>7, <3>1, <4>2 DEF Bucket
    <3>2. CASE a # x
      <4>1. a \in At(g, i)
        BY <1>10, <1>11, <3>2
      <4>2. a \in CellsIn(node) /\ node'[a].text = node[a].text
        BY <1>3, <4>1 DEF At, Reach
      <4> QED
        BY <1>8, <1>9, <4>1, <4>2 DEF Bucket, Lists, Placed
    <3> QED
      BY <3>1, <3>2
  <2>2. ASSUME NEW g \in live, NEW a \in Inside(g)', NEW d \in Inside(g)', node'[a].text = node'[d].text
        PROVE  a = d
    BY <1>2, <1>3, <1>9, <1>12, <1>13, <1>14, <2>2 DEF Lists, Placed
  <2>3. \A f, g \in live : f # g => Inside(f)' \cap Inside(g)' = {}
    BY <1>2, <1>9, <1>12, <1>13, <1>14 DEF Lists, Placed
  <2>4. CellsIn(node') = UNION {Inside(g)' : g \in live}
    <3>1. ASSUME NEW a \in CellsIn(node') PROVE \E g \in live : a \in Inside(g)'
      <4>1. CASE a = x
        BY <1>12, <4>1
      <4>2. CASE a # x
        <5>1. PICK g \in live : a \in Inside(g)
          BY <1>3, <4>2 DEF Lists, Placed
        <5> QED
          BY <1>9, <1>12, <1>13, <5>1
      <4> QED
        BY <4>1, <4>2
    <3>2. ASSUME NEW g \in live, NEW a \in Inside(g)' PROVE a \in CellsIn(node')
      BY <1>3, <1>9, <1>12, <1>13, <1>14
    <3> QED
      BY <3>1, <3>2
  <2> QED
    BY <1>6, <1>8, <1>9, <2>1, <2>2, <2>3, <2>4 DEF Placed
<1> QED
  BY <1>2, <1>3, <1>4, <1>8, <1>10, <1>12, <1>13, <1>15, <1>16 DEF Lists

\* Table h has lost its node a for k.
RemovedNode(h, k, a) ==
  /\ UNCHANGED <<use, live>>
  /\ node' = Unlinked(a)
  /\ head' = IF node[a].prev = Null THEN [head EXCEPT ![h][Bucket(h, k)] = Rest(a)] ELSE head

LEMMA RemoveLists ==
  ASSUME Lists, NEW h \in live, NEW k \in Keys, NEW a \in Inside(h), node[a].text = k, RemovedNode(h, k, a)
  PROVE  /\ Lists'
         /\ CellsIn(node') = CellsIn(node) \ {a} /\ a \in CellsIn(node)
         /\ \A m \in CellsIn(node') :
              /\ node'[m].text = node[m].text /\ node'[m].val = node[m].val
              /\ node'[m].bytes = node[m].bytes /\ node'[m].own = node[m].own
         /\ Inside(h)' = Inside(h) \ {a}
         /\ \A g \in Tables : g # h => Inside(g)' = Inside(g)
<1>0. PICK b : b = Bucket(h, k)
  OBVIOUS
<1> DEFINE f == head[h][b]
           n == node[a].next
<1>1. /\ b \in Buckets(h) /\ h \in Tables /\ a \in At(h, b)
  BY <1>0, BucketsAre DEF Lists, Placed, Inside
<1>2. /\ a \in CellsIn(node) /\ a # Null
      /\ f \in CellsIn(node) /\ node[f].prev = Null
  <2>1. a \in CellsIn(node) /\ a # Null
    BY <1>1, NullOutside DEF At, Reach, CellsIn
  <2>2. f \in CellsIn(node) \cup {Null}
    BY <1>1, BucketsAre DEF Lists
  <2>3. f # Null
    BY <1>1, <2>2, ReachClosed DEF At, Lists
  <2> QED
    BY <1>1, <2>1, <2>2, <2>3 DEF Lists, Heads
<1>3. a \in Reach(node, f)
  BY <1>1 DEF At
<1>4. /\ node[a].prev # a /\ n # a
      /\ node[a].prev = n => node[a].prev = Null
  BY <1>2, <1>3, NotItsNeighbour DEF Lists
<1>5. node[a].prev = Null <=> a = f
  <2>1. a # f => node[a].prev \in Reach(node, f)
    BY <1>2, <1>3, ReachBack DEF Lists
  <2> QED
    BY <1>2, <2>1, NullOutside DEF Reach, CellsIn
<1>6. /\ Links(node') /\ CellsIn(node') = CellsIn(node) \ {a}
      /\ \A m \in CellsIn(node') :
           /\ node'[m].text = node[m].text /\ node'[m].val = node[m].val
           /\ node'[m].bytes = node[m].bytes /\ node'[m].own = node[m].own
           /\ node'[m].next = IF m = node[a].prev THEN n ELSE node[m].next
           /\ node'[m].prev = IF m = n THEN node[a].prev ELSE node[m].prev
  BY <1>2, <1>4, UnlinkedLinks DEF Lists, RemovedNode
<1>7. Reach(node', IF a = f THEN n ELSE f) = Reach(node, f) \ {a}
  BY <1>2, <1>3, UnlinkedReach DEF Lists, RemovedNode
<1>8. \A x \in CellsIn(node) \cup {Null} : a \notin Reach(node, x) => Reach(node', x) = Reach(node, x)
  BY <1>2, <1>4, UnlinkedElsewhere DEF Lists, RemovedNode
<1>9. n \in CellsIn(node) \cup {Null}
  BY <1>2, CellTyped DEF Lists
<1>10. PICK s \in use.sizes : head[h] \in [0..(s-1) -> CellsIn(node) \cup {Null}]
  BY DEF Lists, Heads
<1>11. /\ UNCHANGED <<use, live>> /\ DOMAIN head' = Tables
       /\ \A g \in Tables : g # h => head'[g] = head[g]
       /\ head'[h] = IF a = f THEN [head[h] EXCEPT ![b] = n] ELSE head[h]
  BY <1>0, <1>1, <1>5 DEF RemovedNode, Rest, Lists, Heads
<1>12. Buckets(h) = 0..(s-1)
  BY <1>10 DEF Buckets
<1>13. /\ head'[h][b] = IF a = f THEN n ELSE f
       /\ \A i \in Buckets(h) : i # b => head'[h][i] = head[h][i]
       /\ Buckets(h)' = Buckets(h)
  <2>1. Buckets(h)' = DOMAIN head'[h]
    BY DEF Buckets
  <2> QED
    BY <1>1, <1>10, <1>11, <1>12, <2>1
<1>14. \A g \in Tables : Buckets(g)' = Buckets(g)
  BY <1>11, <1>13 DEF Buckets
<1>15. \A g \in live : g \in Tables /\ \A i \in Buckets(g) : head[g][i] \in CellsIn(node) \cup {Null}
  BY BucketsAre DEF Lists
<1>16. \A g \in live : \A i \in Buckets(g) : (g # h \/ i # b) => a \notin At(g, i)
  BY <1>1 DEF Lists, Placed, Inside
<1>17. \A g \in live : \A i \in Buckets(g) : (g # h \/ i # b) => At(g, i)' = At(g, i)
  BY <1>8, <1>11, <1>13, <1>15, <1>16 DEF At
<1>18. At(h, b)' = At(h, b) \ {a}
  BY <1>7, <1>13 DEF At
<1>19. Inside(h)' = Inside(h) \ {a}
  BY <1>1, <1>14, <1>16, <1>17, <1>18 DEF Inside
<1>20. ASSUME NEW g \in Tables, g # h PROVE Inside(g)' = Inside(g)
  <2>1. CASE g \in live
    BY <1>14, <1>17, <1>20, <2>1 DEF Inside
  <2>2. CASE g \notin live
    BY <1>14, <2>2, DeadEmpty DEF Inside, Lists
  <2> QED
    BY <2>1, <2>2
<1>21. \A g \in live : Inside(g) \subseteq CellsIn(node)
  BY InsideIs DEF Lists
<1>22. ASSUME NEW g \in live, NEW i \in Buckets(g)
       PROVE  /\ head'[g][i] \in CellsIn(node') \cup {Null}
              /\ head'[g][i] # Null => node'[head'[g][i]].prev = Null
  <2>1. CASE g = h /\ i = b /\ a = f
    <3>1. head'[g][i] = n /\ n # a
      BY <1>4, <1>13, <2>1
    <3>2. n # Null => n \in CellsIn(node') /\ node'[n].prev = node[a].prev
      BY <1>6, <1>9, <3>1
    <3> QED
      BY <1>5, <2>1, <3>1, <3>2
  <2>2. CASE ~(g = h /\ i = b /\ a = f)
    <3>1. head'[g][i] = head[g][i]
      BY <1>11, <1>13, <1>15, <2>2
    <3>2. head[g][i] # Null => head[g][i] \in At(g, i) /\ head[g][i] \in CellsIn(node) /\ node[head[g][i]].prev = Null
      BY <1>15, ReachClosed DEF Lists, Heads, At
    <3>3. head[g][i] # a
      BY <1>2, <1>16, <2>2, <3>2
    <3>4. head[g][i] # Null => head[g][i] # n
      <4>1. n # Null => node[n].prev = a
        BY <1>2 DEF Lists, Links
      <4> QED
        BY <1>2, <3>2, <4>1
    <3> QED
      BY <1>6, <3>1, <3>2, <3>3, <3>4
  <2> QED
    BY <2>1, <2>2
<1>23. Heads'
  <2>1. ASSUME NEW g \in live PROVE \E m \in use.sizes : head'[g] \in [0..(m-1) -> CellsIn(node') \cup {Null}]
    <3>1. PICK m \in use.sizes : head[g] \in [0..(m-1) -> CellsIn(node) \cup {Null}]
      BY DEF Lists, Heads
    <3>2. Buckets(g) = 0..(m-1)
      BY <3>1 DEF Buckets
    <3>3. head'[g] = [i \in 0..(m-1) |-> head'[g][i]]
      <4>1. CASE g = h
        BY <1>11, <3>1, <4>1
      <4>2. CASE g # h
        BY <1>11, <1>15, <3>1, <4>2
      <4> QED
        BY <4>1, <4>2
    <3> QED
      BY <1>22, <3>2, <3>3
  <2>2. \A g \in Tables \ live : head'[g] = <<>>
    BY <1>1, <1>11 DEF Lists, Heads
  <2> QED
    BY <1>11, <1>14, <1>15, <1>22, <2>1, <2>2 DEF Lists, Heads
<1>24. Placed'
  <2>1. ASSUME NEW g \in live, NEW i \in Buckets(g), NEW x \in At(g, i)' PROVE Bucket(g, node[x].text)' = i
    <3>1. x \in At(g, i) /\ x # a
      BY <1>16, <1>17, <1>18
    <3>2. x \in CellsIn(node') /\ node'[x].text = node[x].text
      BY <1>6, <3>1 DEF At, Reach
    <3> QED
      BY <1>14, <1>15, <3>1, <3>2 DEF Bucket, Lists, Placed
  <2>2. ASSUME NEW g \in live, NEW x \in Inside(g)', NEW y \in Inside(g)', node'[x].text = node'[y].text
        PROVE  x = y
    <3>1. x \in Inside(g) \ {a} /\ y \in Inside(g) \ {a}
      <4>1. a \in Inside(g) => g = h
        BY DEF Lists, Placed
      <4> QED
        BY <1>15, <1>19, <1>20, <4>1
    <3>2. node'[x].text = node[x].text /\ node'[y].text = node[y].text
      BY <1>6, <1>21, <3>1
    <3> QED
      BY <2>2, <3>1, <3>2 DEF Lists, Placed
  <2>3. \A e, g \in live : e # g => Inside(e)' \cap Inside(g)' = {}
    BY <1>15, <1>19, <1>20 DEF Lists, Placed
  <2>4. CellsIn(node') = UNION {Inside(g)' : g \in live}
    <3>1. ASSUME NEW x \in CellsIn(node') PROVE \E g \in live : x \in Inside(g)'
      <4>1. PICK g \in live : x \in Inside(g)
        BY <1>6 DEF Lists, Placed
      <4> QED
        BY <1>6, <1>15, <1>19, <1>20, <4>1
    <3>2. ASSUME NEW g \in live, NEW x \in Inside(g)' PROVE x \in CellsIn(node')
      <4>1. a \in Inside(g) => g = h
        BY DEF Lists, Placed
      <4> QED
        BY <1>6, <1>15, <1>19, <1>20, <1>21, <4>1
    <3> QED
      BY <3>1, <3>2
  <2> QED
    BY <1>11, <1>14, <1>15, <2>1, <2>2, <2>3, <2>4 DEF Placed
<1> QED
  BY <1>2, <1>6, <1>19, <1>20, <1>23, <1>24 DEF Lists

\* The nodes of table t are released.  Every other table is taken over by one that then has
\* its buckets: from says which.
TakenOver(t, from) ==
  /\ UNCHANGED use /\ live' \subseteq Tables /\ DOMAIN head' = Tables
  /\ from \in [live' -> live \ {t}]
  /\ \A g \in live \ {t} : \E h \in live' : from[h] = g
  /\ \A g, h \in live' : from[g] = from[h] => g = h
  /\ \A h \in live' : head'[h] = head[from[h]]
  /\ \A h \in Tables \ live' : head'[h] = <<>>
Released(t, from) ==
  /\ TakenOver(t, from)
  /\ node' = [a \in Nodes |-> IF a \in Inside(t) THEN Null ELSE node[a]]

LEMMA ReleaseLists ==
  ASSUME Lists, NEW t \in live, NEW from, Released(t, from)
  PROVE  /\ Lists'
         /\ CellsIn(node') = CellsIn(node) \ Inside(t)
         /\ \A m \in CellsIn(node') : node'[m] = node[m]
         /\ \A h \in live' : Inside(h)' = Inside(from[h]) /\ Buckets(h)' = Buckets(from[h])
<1>1. /\ UNCHANGED use /\ live' \subseteq Tables /\ DOMAIN head' = Tables
      /\ \A h \in live' : from[h] \in live \ {t} /\ head'[h] = head[from[h]]
      /\ \A g \in live \ {t} : \E h \in live' : from[h] = g
      /\ \A g, h \in live' : from[g] = from[h] => g = h
      /\ \A h \in Tables \ live' : head'[h] = <<>>
      /\ node' = [a \in Nodes |-> IF a \in Inside(t) THEN Null ELSE node[a]]
  BY DEF Released, TakenOver
<1>2. \A h \in live : h \in Tables /\ Inside(h) \subseteq CellsIn(node) /\ Closed(node, Inside(h))
  BY InsideIs DEF Lists, Heads
<1>3. /\ CellsIn(node') = CellsIn(node) \ Inside(t)
      /\ \A m \in CellsIn(node') : node'[m] = node[m]
      /\ node' \in [Nodes -> Cell \cup {Null}]
  BY <1>1, <1>2 DEF CellsIn, Lists, Links
<1>4. \A g \in live \ {t} : Inside(g) \subseteq CellsIn(node')
  BY <1>2, <1>3 DEF Lists, Placed
<1>5. ASSUME NEW a \in CellsIn(node')
      PROVE  /\ node[a].next # Null => node[a].next \in CellsIn(node')
             /\ node[a].prev # Null => node[a].prev \in CellsIn(node')
  <2>1. PICK g \in live \ {t} : a \in Inside(g)
    BY <1>3 DEF Lists, Placed
  <2>2. node[a].next # Null => node[a].next \in Inside(g)
    BY <1>2, <2>1 DEF Closed
  <2>3. node[a].prev # Null => node[a].prev \in Inside(g)
    BY <2>1, PrevInside
  <2> QED
    BY <1>4, <2>2, <2>3
<1>6. Links(node')
  <2>1. CellsIn(node') \subseteq CellsIn(node)
    BY <1>3
  <2>2. ASSUME NEW a \in CellsIn(node')
        PROVE /\ node'[a].next # Null => node'[a].next \in CellsIn(node') /\ node'[node'[a].next].prev = a
              /\ node'[a].prev # Null => node'[a].prev \in CellsIn(node') /\ node'[node'[a].prev].next = a
    BY <1>3, <1>5, <2>1 DEF Lists, Links
  <2> QED
    BY <1>3, <2>2 DEF Links
<1>7. ASSUME NEW h \in live', NEW i \in Buckets(from[h])
      PROVE  /\ Buckets(h)' = Buckets(from[h]) /\ At(h, i)' = At(from[h], i)
             /\ head[from[h]][i] \in CellsIn(node') \cup {Null}
  <2>1. At(from[h], i) \subseteq CellsIn(node') /\ head[from[h]][i] \in CellsIn(node) \cup {Null}
    BY <1>1, <1>4, InsideIs, BucketsAre DEF Lists
  <2>2. SameNext(node, node', At(from[h], i))
    BY <1>3, <2>1 DEF SameNext
  <2>3. Reach(node', head[from[h]][i]) = Reach(node, head[from[h]][i])
    BY <2>1, <2>2, ReachFrame DEF At, Lists
  <2>4. head[from[h]][i] # Null => head[from[h]][i] \in At(from[h], i)
    BY <2>1, ReachClosed DEF At, Lists
  <2> QED
    BY <1>1, <2>1, <2>3, <2>4 DEF Buckets, At
<1>8. \A h \in live' : Buckets(h)' = Buckets(from[h])
  BY <1>1 DEF Buckets
<1>9. \A h \in live' : Inside(h)' = Inside(from[h])
  BY <1>7, <1>8 DEF Inside
<1>10. Heads'
  <2>1. ASSUME NEW h \in live' PROVE \E n \in use.sizes : head'[h] \in [0..(n-1) -> CellsIn(node') \cup {Null}]
    <3>1. PICK n \in use.sizes : head[from[h]] \in [0..(n-1) -> CellsIn(node) \cup {Null}]
      BY <1>1 DEF Lists, Heads
    <3>2. Buckets(from[h]) = 0..(n-1)
      BY <3>1 DEF Buckets
    <3>3. head'[h] = head[from[h]]
      BY <1>1
    <3>4. head[from[h]] \in [0..(n-1) -> CellsIn(node') \cup {Null}]
      BY <1>7, <3>1, <3>2
    <3> QED
      BY <3>3, <3>4
  <2>2. ASSUME NEW h \in live', NEW i \in Buckets(h)', head'[h][i] # Null PROVE node'[head'[h][i]].prev = Null
    <3>1. i \in Buckets(from[h]) /\ head'[h][i] = head[from[h]][i] /\ head'[h][i] \in CellsIn(node')
      BY <1>1, <1>7, <1>8, <2>2
    <3>2. node[head[from[h]][i]].prev = Null
      BY <1>1, <2>2, <3>1 DEF Lists, Heads
    <3> QED
      BY <1>3, <3>1, <3>2
  <2> QED
    BY <1>1, <2>1, <2>2 DEF Lists, Heads
<1>11. Placed'
  <2>1. ASSUME NEW h \in live', NEW i \in Buckets(h)', NEW a \in At(h, i)' PROVE Bucket(h, node[a].text)' = i
    <3>1. i \in Buckets(from[h]) /\ a \in At(from[h], i) /\ from[h] \in live /\ Buckets(h)' = Buckets(from[h])
      BY <1>1, <1>7, <1>8
    <3>2. a \in CellsIn(node')
      BY <1>1, <1>4, <3>1, InsideIs DEF Lists
    <3>3. Bucket(from[h], node[a].text) = i
      BY <3>1 DEF Lists, Placed
    <3> QED
      BY <1>3, <3>1, <3>2, <3>3 DEF Bucket
  <2>2. ASSUME NEW h \in live', NEW a \in Inside(h)', NEW b \in Inside(h)', node'[a].text = node'[b].text
        PROVE  a = b
    <3>1. from[h] \in live \ {t} /\ a \in Inside(from[h]) /\ b \in Inside(from[h])
      BY <1>1, <1>9
    <3>2. node[a].text = node[b].text
      BY <1>3, <1>4, <2>2, <3>1
    <3> QED
      BY <3>1, <3>2 DEF Lists, Placed
  <2>3. \A g, h \in live' : g # h => Inside(g)' \cap Inside(h)' = {}
    BY <1>1, <1>9 DEF Lists, Placed
  <2>4. CellsIn(node') = UNION {Inside(h)' : h \in live'}
    <3>1. ASSUME NEW a \in CellsIn(node') PROVE \E h \in live' : a \in Inside(h)'
      <4>1. PICK g \in live \ {t} : a \in Inside(g)
        BY <1>3 DEF Lists, Placed
      <4> QED
        BY <1>1, <1>9, <4>1
    <3>2. ASSUME NEW h \in live', NEW a \in Inside(h)' PROVE a \in CellsIn(node')
      BY <1>1, <1>4, <1>9
    <3> QED
      BY <3>1, <3>2
  <2> QED
    BY <2>1, <2>2, <2>3, <2>4 DEF Placed
<1> QED
  BY <1>3, <1>6, <1>8, <1>9, <1>10, <1>11 DEF Lists

\* Table h, which was not live, is empty.
Fresh(h, n) ==
  /\ UNCHANGED <<use, node>> /\ live' = live \cup {h} /\ n \in use.sizes
  /\ head' = [head EXCEPT ![h] = [i \in 0..(n-1) |-> Null]]

LEMMA FreshLists ==
  ASSUME Lists, NEW h \in Tables \ live, NEW n, Fresh(h, n)
  PROVE  /\ Lists' /\ Inside(h)' = {}
         /\ \A g \in Tables : g # h => Inside(g)' = Inside(g) /\ Buckets(g)' = Buckets(g)
<1>1. /\ UNCHANGED <<use, node>> /\ live' = live \cup {h} /\ n \in use.sizes /\ h \in Tables /\ h \notin live
      /\ DOMAIN head' = Tables /\ head'[h] = [i \in 0..(n-1) |-> Null]
      /\ \A g \in Tables : g # h => head'[g] = head[g]
  BY DEF Lists, Heads, Fresh
<1>2. \A g \in Tables : g # h =>
        /\ Buckets(g)' = Buckets(g)
        /\ \A i \in Buckets(g) : At(g, i)' = At(g, i) /\ head'[g][i] = head[g][i]
  BY <1>1 DEF Buckets, At
<1>3. \A g \in Tables : g # h => Inside(g)' = Inside(g)
  BY <1>2 DEF Inside
<1>4. Buckets(h)' = 0..(n-1) /\ \A i \in 0..(n-1) : head'[h][i] = Null
  BY <1>1 DEF Buckets
<1>5. \A i \in 0..(n-1) : At(h, i)' = {}
  <2>1. Reach(node', Null) = {}
    BY <1>1, ReachClosed DEF Lists
  <2> QED
    BY <1>4, <2>1 DEF At
<1>6. Inside(h)' = {}
  BY <1>4, <1>5 DEF Inside
<1>7. Heads'
  <2>1. ASSUME NEW g \in live' PROVE \E m \in use.sizes : head'[g] \in [0..(m-1) -> CellsIn(node') \cup {Null}]
    <3>1. CASE g = h
      BY <1>1, <3>1
    <3>2. CASE g # h
      BY <1>1, <3>2 DEF Lists, Heads
    <3> QED
      BY <3>1, <3>2
  <2>2. ASSUME NEW g \in live', NEW i \in Buckets(g)', head'[g][i] # Null PROVE node'[head'[g][i]].prev = Null
    <3>1. g \in live /\ g # h /\ g \in Tables
      BY <1>1, <1>4, <2>2 DEF Lists, Heads
    <3> QED
      BY <1>1, <1>2, <2>2, <3>1 DEF Lists, Heads
  <2> QED
    BY <1>1, <2>1, <2>2 DEF Lists, Heads
<1>8. Placed'
  <2>1. ASSUME NEW g \in live', NEW i \in Buckets(g)', NEW a \in At(g, i)' PROVE Bucket(g, node[a].text)' = i
    <3>1. g \in live /\ g # h /\ g \in Tables
      BY <1>1, <1>4, <1>5 DEF Lists, Heads
    <3> QED
      BY <1>1, <1>2, <3>1 DEF Lists, Placed, Bucket
  <2>2. \A g \in live' : \A a, b \in Inside(g)' : node'[a].text = node'[b].text => a = b
    BY <1>1, <1>3, <1>6 DEF Lists, Heads, Placed
  <2>3. \A f, g \in live' : f # g => Inside(f)' \cap Inside(g)' = {}
    BY <1>1, <1>3, <1>6 DEF Lists, Heads, Placed
  <2>4. CellsIn(node') = UNION {Inside(g)' : g \in live'}
    <3>1. CellsIn(node) = UNION {Inside(g) : g \in live} /\ \A g \in live : g \in Tables /\ g # h
      BY <1>1 DEF Lists, Placed, Heads
    <3> QED
      BY <1>1, <1>3, <1>6, <3>1
  <2> QED
    BY <2>1, <2>2, <2>3, <2>4 DEF Placed
<1> QED
  BY <1>1, <1>2, <1>3, <1>6, <1>7, <1>8 DEF Lists

-----------------------------------------------------------------------------
(***************************************************************************)
(* Values, and what the tables hold.                                       *)
(***************************************************************************)
\* Every buffer in use is the value of one node, which owns it.
Values ==
  /\ buf \in [Bufs -> 0..MaxCount]
  /\ \A a \in CellsIn(node) : node[a].val # Null => buf[node[a].val] # 0 /\ node[a].own
  /\ \A a, b \in CellsIn(node) : node[a].val = node[b].val /\ node[a].val # Null => a = b
  /\ \A b \in Bufs : buf[b] # 0 => \E a \in CellsIn(node) : node[a].val = b

Slot(a) == [count |-> IF node[a].val = Null THEN 0 ELSE buf[node[a].val], bytes |-> node[a].bytes]

LEMMA ContentsIs ==
  Lists => \A h \in Tables :
    /\ Contents(h) = [k \in Keys |-> Contents(h)[k]]
    /\ \A a \in Inside(h) : Contents(h)[node[a].text] = Slot(a)
    /\ \A k \in Keys : (\A a \in Inside(h) : node[a].text # k) => Contents(h)[k] = Null
<1> SUFFICES ASSUME Lists, NEW h \in Tables
             PROVE  /\ Contents(h) = [k \in Keys |-> Contents(h)[k]]
                    /\ \A a \in Inside(h) : Contents(h)[node[a].text] = Slot(a)
                    /\ \A k \in Keys : (\A a \in Inside(h) : node[a].text # k) => Contents(h)[k] = Null
  OBVIOUS
<1>1. Contents(h) = [k \in Keys |-> Contents(h)[k]]
  BY DEF Contents
<1>2. ASSUME NEW a \in Inside(h) PROVE Contents(h)[node[a].text] = Slot(a)
  <2>1. h \in live
    BY DeadEmpty DEF Lists
  <2>2. PICK k \in Keys : k = node[a].text
    BY <2>1, InsideIs, CellTyped DEF Lists
  <2>3. Lookup(h, k) = {a}
    BY <2>1, <2>2, LookupIs DEF Lists, Placed
  <2>4. Found(h, k) = a
    BY <2>3 DEF Found
  <2>5. ~Missing(h, k)
    BY <2>3 DEF Missing
  <2>6. Contents(h)[k] = [count |-> IF node[a].val = Null THEN 0 ELSE buf[node[a].val], bytes |-> node[a].bytes]
    BY <2>1, <2>4, <2>5 DEF Contents
  <2> QED
    BY <2>2, <2>6 DEF Slot
<1>3. ASSUME NEW k \in Keys, \A a \in Inside(h) : node[a].text # k PROVE Contents(h)[k] = Null
  <2>1. h \in live => Missing(h, k)
    BY <1>3, LookupIs DEF Missing
  <2> QED
    BY <2>1 DEF Contents
<1> QED
  BY <1>1, <1>2, <1>3

\* The same of the next state.
LEMMA ContentsNext ==
  Lists' => \A h \in Tables :
    /\ Contents(h)' = [k \in Keys |-> Contents(h)'[k]]
    /\ \A a \in Inside(h)' : Contents(h)'[node'[a].text] = Slot(a)'
    /\ \A k \in Keys : (\A a \in Inside(h)' : node'[a].text # k) => Contents(h)'[k] = Null
<1>1. Lists' => (\A h \in Tables :
        /\ Contents(h) = [k \in Keys |-> Contents(h)[k]]
        /\ \A a \in Inside(h) : Contents(h)[node[a].text] = Slot(a)
        /\ \A k \in Keys : (\A a \in Inside(h) : node[a].text # k) => Contents(h)[k] = Null)'
  BY ContentsIs, PTL
<1> QED
  BY <1>1

LEMMA SlotHeld ==
  ASSUME Links(node), Values, NEW a \in CellsIn(node)
  PROVE  /\ Slot(a) \in Held /\ Slot(a) # Null
         /\ Slot(a).count = (IF node[a].val = Null THEN 0 ELSE buf[node[a].val])
         /\ Slot(a).bytes = node[a].bytes
         /\ Slot(a).count = 0 <=> node[a].val = Null
<1>1. node[a].val \in Bufs \cup {Null} /\ node[a].bytes \in {0, 1}
  BY CellTyped
<1>2. (IF node[a].val = Null THEN 0 ELSE buf[node[a].val]) \in 0..MaxCount
  BY <1>1, ChainAssumption DEF Values
<1>3. Slot(a) \in Held
  BY <1>1, <1>2 DEF Slot, Held
<1> QED
  BY <1>3, NullOutside DEF Slot, Values

LEMMA ContentsTyped ==
  ASSUME Lists, Values, NEW h \in Tables
  PROVE  /\ Contents(h) \in [Keys -> Held \cup {Null}]
         /\ \A a \in Inside(h) : Contents(h)[node[a].text] = Slot(a) /\ node[a].text \in Keys /\ Slot(a) # Null
         /\ \A k \in Keys : Contents(h)[k] # Null => \E a \in Inside(h) : node[a].text = k
         /\ \A k \in Keys : (\A a \in Inside(h) : node[a].text # k) => Contents(h)[k] = Null
<1>1. /\ Contents(h) = [k \in Keys |-> Contents(h)[k]]
      /\ \A a \in Inside(h) : Contents(h)[node[a].text] = Slot(a)
      /\ \A k \in Keys : (\A a \in Inside(h) : node[a].text # k) => Contents(h)[k] = Null
  BY ContentsIs
<1>2. Inside(h) \subseteq CellsIn(node)
  BY InsideIs, DeadEmpty DEF Lists
<1>3. \A a \in Inside(h) : node[a].text \in Keys /\ Slot(a) \in Held /\ Slot(a) # Null
  BY <1>2, SlotHeld, CellTyped DEF Lists
<1>4. \A k \in Keys : Contents(h)[k] \in Held \cup {Null}
  BY <1>1, <1>3
<1> QED
  BY <1>1, <1>3, <1>4

\* A table that has the nodes another had, with the same values, holds the same.
LEMMA SameHeld ==
  ASSUME Lists, Lists', NEW g \in Tables, NEW h \in Tables, NEW k \in Keys,
         \A a : a \in Inside(h)' /\ node'[a].text = k <=> a \in Inside(g) /\ node[a].text = k,
         \A a \in Inside(g) : node[a].text = k => Slot(a)' = Slot(a)
  PROVE  Contents(h)'[k] = Contents(g)[k]
<1>1. CASE \E a \in Inside(g) : node[a].text = k
  <2>1. PICK a \in Inside(g) : node[a].text = k
    BY <1>1
  <2>2. Contents(g)[k] = Slot(a)
    BY <2>1, ContentsIs
  <2>3. Contents(h)'[k] = Slot(a)'
    BY <2>1, ContentsNext
  <2> QED
    BY <2>1, <2>2, <2>3
<1>2. CASE \A a \in Inside(g) : node[a].text # k
  <2>1. Contents(g)[k] = Null
    BY <1>2, ContentsIs
  <2>2. Contents(h)'[k] = Null
    BY <1>2, ContentsNext
  <2> QED
    BY <2>1, <2>2
<1> QED
  BY <1>1, <1>2

SameTable(h) == \A k \in Keys : Contents(h)'[k] = Contents(h)[k]

LEMMA SameTableIs ==
  ASSUME Lists, Lists', NEW h \in Tables, Inside(h)' = Inside(h),
         \A a \in Inside(h) : node'[a].text = node[a].text /\ Slot(a)' = Slot(a)
  PROVE  SameTable(h) /\ Contents(h)' = Contents(h)
<1>1. \A k \in Keys : Contents(h)'[k] = Contents(h)[k]
  BY SameHeld
<1>2. Contents(h) = [k \in Keys |-> Contents(h)[k]] /\ Contents(h)' = [k \in Keys |-> Contents(h)'[k]]
  BY ContentsIs, ContentsNext
<1> QED
  BY <1>1, <1>2 DEF SameTable

\* Table h has c for k after the step, and nothing else has changed.
Puts(h, k, c) ==
  /\ \A g \in Tables : g # h => Contents(g)' = Contents(g)
  /\ \A j \in Keys : j # k => Contents(h)'[j] = Contents(h)[j]
  /\ Contents(h)'[k] = c

\* The buffer a new or changed value is in.
NewValue(v, n) ==
  \/ v.val = Null /\ n = 0 /\ UNCHANGED buf
  \/ v.val \in Bufs /\ buf[v.val] = 0 /\ v.own /\ n \in 1..MaxCount /\ buf' = [buf EXCEPT ![v.val] = n]

LEMMA PushStep ==
  ASSUME Lists, Values, NEW h \in live, NEW k \in Keys, Missing(h, k), UNCHANGED <<use, live>>,
         NEW v \in [val : Bufs \cup {Null}, bytes : {0, 1}, own : BOOLEAN], Push(h, k, v), NEW n, NewValue(v, n)
  PROVE  /\ Lists' /\ Values' /\ Puts(h, k, [count |-> n, bytes |-> v.bytes])
         /\ \A m \in CellsIn(node) : m \in CellsIn(node') /\ node'[m].next = node[m].next /\ node'[m].text = node[m].text
         /\ \A a \in CellsIn(node) \cup {Null} : Reach(node', a) = Reach(node, a)
         /\ \A g \in Tables : Buckets(g)' = Buckets(g)
         /\ \A g \in live : \A i \in Buckets(g) : g # h => At(g, i)' = At(g, i)
<1>0. PICK x : x = NewNode
  OBVIOUS
<1> DEFINE first == head[h][Bucket(h, k)]
           c == [text |-> k, next |-> first, prev |-> Null, val |-> v.val, bytes |-> v.bytes, own |-> v.own]
<1>1. x \in Nodes /\ node[x] = Null
  BY <1>0 DEF Push, NodeLeft, NewNode
<1>2. first \in CellsIn(node) \cup {Null}
  BY BucketsAre DEF Lists
<1>3. c \in Cell
  BY <1>2 DEF Cell, CellsIn
<1>4. PICK cc : cc = c
  OBVIOUS
<1>5. /\ cc \in Cell /\ cc.text = k /\ cc.next = first /\ cc.prev = Null
      /\ cc.val = v.val /\ cc.bytes = v.bytes /\ cc.own = v.own
  BY <1>3, <1>4
<1>6. PushedNode(h, k, x, cc)
  <2>1. node' = [m \in Nodes |-> IF m = x THEN cc
                           ELSE IF m = first THEN [node[m] EXCEPT !.prev = x] ELSE node[m]]
    BY <1>0, <1>4 DEF Push, Linked
  <2>2. head' = [head EXCEPT ![h][Bucket(h, k)] = x]
    BY <1>0 DEF Push
  <2> HIDE DEF c
  <2> QED
    BY <1>1, <1>5, <2>1, <2>2 DEF PushedNode, InFront
<1> HIDE DEF c, first
<1>7. \A a \in Inside(h) : node[a].text # k
  BY LookupIs DEF Missing
<1>8. /\ Lists'
      /\ CellsIn(node') = CellsIn(node) \cup {x} /\ node'[x] = cc /\ x \notin CellsIn(node)
      /\ \A m \in CellsIn(node) :
           /\ node'[m].text = node[m].text /\ node'[m].val = node[m].val
           /\ node'[m].bytes = node[m].bytes /\ node'[m].own = node[m].own
           /\ node'[m].next = node[m].next
      /\ \A a \in CellsIn(node) \cup {Null} : Reach(node', a) = Reach(node, a)
      /\ \A g \in Tables : Buckets(g)' = Buckets(g)
      /\ \A g \in live : \A i \in Buckets(g) : g # h => At(g, i)' = At(g, i)
      /\ Inside(h)' = Inside(h) \cup {x}
      /\ \A g \in Tables : g # h => Inside(g)' = Inside(g)
  BY <1>6, <1>7, PushLists
<1>9. /\ n \in Nat /\ (v.val = Null => n = 0) /\ (v.val # Null => buf'[v.val] = n /\ n # 0 /\ v.own /\ buf[v.val] = 0)
      /\ \A b \in Bufs : b # v.val => buf'[b] = buf[b]
      /\ buf' \in [Bufs -> 0..MaxCount]
  BY NullOutside, ChainAssumption DEF NewValue, Values
<1>10. \A a \in CellsIn(node) : (node[a].val \in Bufs \cup {Null} /\ node[a].val # v.val) \/ node[a].val = Null
  BY <1>9, CellTyped DEF Lists, Values
<1>11. \A a \in CellsIn(node) : Slot(a)' = Slot(a)
  <2> SUFFICES ASSUME NEW a \in CellsIn(node) PROVE Slot(a)' = Slot(a)
    OBVIOUS
  <2>1. node[a].val # Null => buf'[node[a].val] = buf[node[a].val]
    BY <1>9, <1>10
  <2> QED
    BY <1>8, <2>1 DEF Slot
<1>12. Values'
  <2>1. ASSUME NEW a \in CellsIn(node'), node'[a].val # Null PROVE buf'[node'[a].val] # 0 /\ node'[a].own
    BY <1>5, <1>8, <1>9, <1>10, <2>1 DEF Values
  <2>2. ASSUME NEW a \in CellsIn(node'), NEW b \in CellsIn(node'), node'[a].val = node'[b].val, node'[a].val # Null
        PROVE  a = b
    BY <1>5, <1>8, <1>9, <1>10, <2>2 DEF Values
  <2>3. ASSUME NEW b \in Bufs, buf'[b] # 0 PROVE \E a \in CellsIn(node') : node'[a].val = b
    <3>1. CASE b = v.val
      BY <1>5, <1>8, <3>1
    <3>2. CASE b # v.val
      BY <1>8, <1>9, <2>3, <3>2 DEF Values
    <3> QED
      BY <3>1, <3>2
  <2> QED
    BY <1>9, <2>1, <2>2, <2>3 DEF Values
<1>13. h \in Tables /\ \A g \in Tables : Inside(g) \subseteq CellsIn(node)
  BY InsideIs, DeadEmpty DEF Lists, Heads
<1>14. \A g \in Tables : g # h => Contents(g)' = Contents(g)
  BY <1>8, <1>11, <1>13, SameTableIs
<1>15. ASSUME NEW j \in Keys, j # k PROVE Contents(h)'[j] = Contents(h)[j]
  <2>1. \A a : a \in Inside(h)' /\ node'[a].text = j <=> a \in Inside(h) /\ node[a].text = j
    BY <1>5, <1>8, <1>13, <1>15
  <2> QED
    BY <1>8, <1>11, <1>13, <2>1, SameHeld
<1>16. Contents(h)'[k] = Slot(x)'
  BY <1>5, <1>8, <1>13, ContentsNext
<1>17. Slot(x)' = [count |-> n, bytes |-> v.bytes]
  BY <1>5, <1>8, <1>9 DEF Slot
<1> QED
  BY <1>8, <1>12, <1>14, <1>15, <1>16, <1>17 DEF Puts

\* The value of node a of table h changes.
Sets(a) ==
  /\ SameLinks /\ node' \in [Nodes -> Cell \cup {Null}] /\ buf' \in [Bufs -> 0..MaxCount]
  /\ \A m \in CellsIn(node) \ {a} : node'[m] = node[m]
  /\ \A b \in Bufs : b # node[a].val /\ b # node'[a].val => buf'[b] = buf[b]
  /\ node'[a].val # Null => buf'[node'[a].val] # 0 /\ node'[a].own
  /\ node'[a].val # node[a].val => /\ node'[a].val # Null => buf[node'[a].val] = 0
                                   /\ node[a].val # Null => buf'[node[a].val] = 0

LEMMA SetStep ==
  ASSUME Lists, Values, NEW h \in live, NEW a \in Inside(h), Sets(a)
  PROVE  Lists' /\ Values' /\ Puts(h, node[a].text, Slot(a)')
<1>1. /\ Lists' /\ CellsIn(node') = CellsIn(node)
      /\ \A g \in Tables : Inside(g)' = Inside(g)
      /\ \A m \in CellsIn(node) : node'[m].text = node[m].text
  BY SameLists DEF Sets, SameLinks
<1>2. h \in Tables /\ a \in CellsIn(node) /\ \A g \in Tables : Inside(g) \subseteq CellsIn(node)
  BY InsideIs, DeadEmpty DEF Lists, Heads
<1>3. ASSUME NEW m \in CellsIn(node), m # a
      PROVE  /\ node'[m] = node[m] /\ node[m].val \in Bufs \cup {Null}
             /\ node[m].val # Null => node[m].val # node[a].val /\ node[m].val # node'[a].val
                                      /\ buf'[node[m].val] = buf[node[m].val]
  <2>1. node'[m] = node[m] /\ node[m].val \in Bufs \cup {Null}
    BY <1>3, CellTyped DEF Sets, Lists
  <2>2. ASSUME node[m].val # Null
        PROVE  node[m].val # node[a].val /\ node[m].val # node'[a].val /\ buf[node[m].val] # 0
    BY <1>2, <1>3, <2>2 DEF Values, Sets
  <2> QED
    BY <2>1, <2>2 DEF Sets
<1>4. ASSUME NEW m \in CellsIn(node), m # a PROVE Slot(m)' = Slot(m)
  BY <1>3, <1>4 DEF Slot
<1>5. Values'
  <2>1. ASSUME NEW m \in CellsIn(node), node'[m].val # Null PROVE buf'[node'[m].val] # 0 /\ node'[m].own
    BY <1>3, <2>1 DEF Values, Sets
  <2>2. ASSUME NEW m \in CellsIn(node), NEW b \in CellsIn(node), node'[m].val = node'[b].val, node'[m].val # Null
        PROVE  m = b
    BY <1>3, <2>2 DEF Values
  <2>3. ASSUME NEW b \in Bufs, buf'[b] # 0 PROVE \E m \in CellsIn(node) : node'[m].val = b
    <3>1. CASE b = node'[a].val
      BY <1>2, <3>1
    <3>2. CASE b # node'[a].val
      <4>1. b # node[a].val
        BY <2>3, <3>2, NullOutside DEF Sets
      <4>2. buf[b] # 0
        BY <2>3, <3>2, <4>1 DEF Sets
      <4>3. PICK m \in CellsIn(node) : node[m].val = b
        BY <4>2 DEF Values
      <4> QED
        BY <1>3, <4>1, <4>3
    <3> QED
      BY <3>1, <3>2
  <2>4. buf' \in [Bufs -> 0..MaxCount]
    BY DEF Sets
  <2> QED
    BY <1>1, <2>1, <2>2, <2>3, <2>4 DEF Values
<1>6. \A g \in Tables : g # h => a \notin Inside(g)
  BY DeadEmpty DEF Lists, Placed
<1>7. ASSUME NEW g \in Tables, g # h PROVE Contents(g)' = Contents(g)
  BY <1>1, <1>2, <1>4, <1>6, <1>7, SameTableIs
<1>8. ASSUME NEW j \in Keys, j # node[a].text PROVE Contents(h)'[j] = Contents(h)[j]
  <2>1. \A m : m \in Inside(h)' /\ node'[m].text = j <=> m \in Inside(h) /\ node[m].text = j
    BY <1>1, <1>2
  <2>2. \A m \in Inside(h) : node[m].text = j => Slot(m)' = Slot(m)
    BY <1>2, <1>4, <1>8
  <2> QED
    BY <1>1, <1>2, <2>1, <2>2, SameHeld
<1>9. Contents(h)'[node[a].text] = Slot(a)'
  BY <1>1, <1>2, ContentsNext
<1> QED
  BY <1>1, <1>5, <1>7, <1>8, <1>9 DEF Puts

LEMMA RemoveStep ==
  ASSUME Lists, Values, NEW h \in live, NEW k \in Keys, NEW a \in Inside(h), node[a].text = k,
         RemovedNode(h, k, a),
         buf' = [b \in Bufs |-> IF b = node[a].val /\ node[a].own THEN 0 ELSE buf[b]]
  PROVE  Lists' /\ Values' /\ Puts(h, k, Null)
<1>1. /\ Lists' /\ CellsIn(node') = CellsIn(node) \ {a} /\ a \in CellsIn(node)
      /\ \A m \in CellsIn(node') : node'[m].text = node[m].text /\ node'[m].val = node[m].val
                                   /\ node'[m].bytes = node[m].bytes /\ node'[m].own = node[m].own
      /\ Inside(h)' = Inside(h) \ {a}
      /\ \A g \in Tables : g # h => Inside(g)' = Inside(g)
  BY RemoveLists
<1>2. /\ buf' \in [Bufs -> 0..MaxCount]
      /\ \A b \in Bufs : b # node[a].val => buf'[b] = buf[b]
      /\ node[a].val # Null => buf'[node[a].val] = 0
  <2>1. /\ buf \in [Bufs -> 0..MaxCount] /\ 0 \in 0..MaxCount /\ (node[a].val # Null => node[a].own)
        /\ node[a].val \in Bufs \cup {Null}
    BY <1>1, ChainAssumption, CellTyped DEF Values, Lists
  <2>2. buf' \in [Bufs -> 0..MaxCount]
    BY <2>1
  <2> QED
    BY <2>1, <2>2
<1>3. ASSUME NEW m \in CellsIn(node')
      PROVE  /\ node[m].val \in Bufs \cup {Null} /\ m \in CellsIn(node) /\ m # a
             /\ node[m].val # Null => node[m].val # node[a].val /\ buf'[node[m].val] = buf[node[m].val]
  BY <1>1, <1>2, CellTyped DEF Values, Lists
<1>4. ASSUME NEW m \in CellsIn(node') PROVE Slot(m)' = Slot(m)
  BY <1>1, <1>3 DEF Slot
<1>5. Values'
  <2>1. ASSUME NEW m \in CellsIn(node'), node'[m].val # Null PROVE buf'[node'[m].val] # 0 /\ node'[m].own
    BY <1>1, <1>3, <2>1 DEF Values
  <2>2. ASSUME NEW m \in CellsIn(node'), NEW b \in CellsIn(node'), node'[m].val = node'[b].val, node'[m].val # Null
        PROVE  m = b
    BY <1>1, <2>2 DEF Values
  <2>3. ASSUME NEW b \in Bufs, buf'[b] # 0 PROVE \E m \in CellsIn(node') : node'[m].val = b
    <3>1. b # node[a].val /\ buf[b] # 0
      BY <1>2, <2>3, NullOutside
    <3> QED
      BY <1>1, <3>1 DEF Values
  <2> QED
    BY <1>2, <2>1, <2>2, <2>3 DEF Values
<1>6. h \in Tables /\ \A g \in Tables : Inside(g) \subseteq CellsIn(node) /\ (g # h => a \notin Inside(g))
  BY InsideIs, DeadEmpty DEF Lists, Heads, Placed
<1>7. ASSUME NEW g \in Tables, g # h PROVE Contents(g)' = Contents(g)
  <2>1. Inside(g)' = Inside(g) /\ Inside(g) \subseteq CellsIn(node')
    BY <1>1, <1>6, <1>7
  <2> QED
    BY <1>1, <1>4, <2>1, SameTableIs
<1>8. ASSUME NEW j \in Keys, j # k PROVE Contents(h)'[j] = Contents(h)[j]
  <2>1. \A m : m \in Inside(h)' /\ node'[m].text = j <=> m \in Inside(h) /\ node[m].text = j
    BY <1>1, <1>6, <1>8
  <2>2. \A m \in Inside(h) : node[m].text = j => Slot(m)' = Slot(m)
    BY <1>1, <1>4, <1>6, <1>8
  <2> QED
    BY <1>1, <1>6, <2>1, <2>2, SameHeld
<1>9. Contents(h)'[k] = Null
  <2>1. \A m \in Inside(h)' : node'[m].text # k
    BY <1>1, <1>6 DEF Lists, Placed
  <2> QED
    BY <1>1, <1>6, <2>1, ContentsNext
<1> QED
  BY <1>1, <1>5, <1>7, <1>8, <1>9 DEF Puts

\* The nodes of table t and their values are released.
LEMMA ReleaseStep ==
  ASSUME Lists, Values, NEW t \in live, NEW from, Release({t}), TakenOver(t, from)
  PROVE  /\ Lists' /\ Values'
         /\ \A h \in live' : Contents(h)' = Contents(from[h])
         /\ \A h \in live' : Buckets(h)' = Buckets(from[h])
<1> DEFINE bufs == {node[a].val : a \in {a \in Inside(t) : node[a].own}}
<1>1. t \in Tables /\ In(t) = Inside(t) /\ Inside(t) \subseteq CellsIn(node)
  BY ChainIs, InsideIs DEF Lists, Heads
<1>2. /\ node' = [a \in Nodes |-> IF a \in Inside(t) THEN Null ELSE node[a]]
      /\ buf' = [b \in Bufs |-> IF b \in bufs THEN 0 ELSE buf[b]]
  <2>1. UNION {In(h) : h \in {t}} = Inside(t)
    BY <1>1
  <2> QED
    BY <2>1 DEF Release
<1>3. Released(t, from)
  BY <1>2 DEF Released
<1>4. /\ Lists' /\ CellsIn(node') = CellsIn(node) \ Inside(t)
      /\ \A m \in CellsIn(node') : node'[m] = node[m]
      /\ \A h \in live' : Inside(h)' = Inside(from[h]) /\ Buckets(h)' = Buckets(from[h])
  BY <1>3, ReleaseLists
<1>5. ASSUME NEW m \in CellsIn(node') PROVE node[m].val # Null => buf'[node[m].val] = buf[node[m].val]
  <2> SUFFICES ASSUME node[m].val # Null PROVE buf'[node[m].val] = buf[node[m].val]
    OBVIOUS
  <2>1. node[m].val \in Bufs
    BY <1>4, CellTyped DEF Lists
  <2>2. node[m].val \notin bufs
    BY <1>1, <1>4 DEF Values
  <2> QED
    BY <1>2, <2>1, <2>2
<1>6. \A m \in CellsIn(node') : Slot(m)' = Slot(m)
  BY <1>4, <1>5 DEF Slot
<1>7. Values'
  <2>1. buf' \in [Bufs -> 0..MaxCount]
    <3>1. buf \in [Bufs -> 0..MaxCount] /\ 0 \in 0..MaxCount
      BY ChainAssumption DEF Values
    <3> HIDE DEF bufs
    <3> QED
      BY <1>2, <3>1
  <2>2. ASSUME NEW m \in CellsIn(node'), node'[m].val # Null PROVE buf'[node'[m].val] # 0 /\ node'[m].own
    BY <1>4, <1>5, <2>2 DEF Values
  <2>3. ASSUME NEW m \in CellsIn(node'), NEW b \in CellsIn(node'), node'[m].val = node'[b].val, node'[m].val # Null
        PROVE  m = b
    BY <1>4, <2>3 DEF Values
  <2>4. ASSUME NEW b \in Bufs, buf'[b] # 0 PROVE \E m \in CellsIn(node') : node'[m].val = b
    <3>1. b \notin bufs /\ buf[b] # 0
      BY <1>2, <2>4
    <3>2. PICK m \in CellsIn(node) : node[m].val = b
      BY <3>1 DEF Values
    <3>3. node[m].own
      BY <3>2, NullOutside DEF Values
    <3> QED
      BY <1>4, <3>1, <3>2, <3>3
  <2> HIDE DEF bufs
  <2> QED
    BY <2>1, <2>2, <2>3, <2>4 DEF Values
<1>8. ASSUME NEW h \in live' PROVE Contents(h)' = Contents(from[h])
  <2>1. from[h] \in live \ {t} /\ h \in Tables /\ from[h] \in Tables
    BY DEF Lists, Heads, TakenOver
  <2>2. Inside(from[h]) \subseteq CellsIn(node')
    BY <1>4, <2>1, InsideIs DEF Lists, Placed
  <2>3. ASSUME NEW k \in Keys PROVE Contents(h)'[k] = Contents(from[h])[k]
    <3>1. \A m : m \in Inside(h)' /\ node'[m].text = k <=> m \in Inside(from[h]) /\ node[m].text = k
      BY <1>4, <2>2
    <3>2. \A m \in Inside(from[h]) : node[m].text = k => Slot(m)' = Slot(m)
      BY <1>6, <2>2
    <3> QED
      BY <1>4, <2>1, <3>1, <3>2, SameHeld
  <2>4. /\ Contents(h)' = [k \in Keys |-> Contents(h)'[k]]
        /\ Contents(from[h]) = [k \in Keys |-> Contents(from[h])[k]]
    BY <1>4, <2>1, ContentsIs, ContentsNext
  <2> QED
    BY <2>3, <2>4
<1> QED
  BY <1>4, <1>7, <1>8

LEMMA FreshStep ==
  ASSUME Lists, Values, NEW h \in Tables \ live, NEW n, Fresh(h, n), UNCHANGED buf
  PROVE  /\ Lists' /\ Values' /\ \A k \in Keys : Contents(h)'[k] = Null
         /\ \A g \in Tables : g # h => Contents(g)' = Contents(g)
<1>1. /\ Lists' /\ Inside(h)' = {} /\ UNCHANGED node
      /\ \A g \in Tables : g # h => Inside(g)' = Inside(g)
  BY FreshLists DEF Fresh
<1>2. \A a : Slot(a)' = Slot(a)
  BY <1>1 DEF Slot
<1>3. \A k \in Keys : Contents(h)'[k] = Null
  BY <1>1, ContentsNext
<1>4. ASSUME NEW g \in Tables, g # h PROVE Contents(g)' = Contents(g)
  BY <1>1, <1>2, <1>4, SameTableIs
<1>5. Values'
  BY <1>1 DEF Values
<1> QED
  BY <1>1, <1>3, <1>4, <1>5

-----------------------------------------------------------------------------
(***************************************************************************)
(* The inductive invariant.                                                *)
(***************************************************************************)
JobRight ==
  /\ job \in Jobs \cup {NoJob}
  /\ IF job = NoJob THEN Temp \notin live
     ELSE /\ answer = NoJob /\ {job.to, job.from, job.file, job.fills} \subseteq live /\ job.to # job.file
          /\ IF job.op = "merge" THEN job.fills = job.to /\ job.from = job.file /\ Temp \notin live
             ELSE job.fills = Temp /\ job.from \in {job.to, job.file}
          /\ job.bucket \in DOMAIN head[job.from]
          /\ job.at \in Reach(node, head[job.from][job.bucket]) \cup {Null}

\* The walk has still to come to the node of k.
Comes(k) ==
  \E a \in CellsIn(node) :
    /\ node[a].text = k
    /\ \/ a \in Reach(node, job.at)
       \/ \E i \in DOMAIN head[job.from] : i > job.bucket /\ a \in Reach(node, head[job.from][i])

Source(k) == job.was[job.from][k]

\* The table t that is being filled has for k what it should.
CopiedSoFar(t, k) ==
  LET now == Contents(t)[k]
  IN  IF Given(k) # Null THEN now = Given(k)
      ELSE now \in {Null, CopyOf(Source(k))} /\ (now = Null /\ Source(k) # Null => Comes(k))

ProgressRight ==
  job # NoJob =>
    /\ \A h \in Handles : h # job.fills => Contents(h) = job.was[h]
    /\ \A t \in Tables : t = job.fills => \A k \in Keys : CopiedSoFar(t, k)

\* What table t has for k after a merge.
Merged(t, k) ==
  LET old == answer.was[t][k]
      new == answer.was[answer.file][k]
      now == Contents(t)[k]
  IN  IF answer.op = "merge"
      THEN IF old # Null THEN now = old
           ELSE now = CopyOf(new) \/ (~answer.ok /\ now \in {Null, CopyOf([count |-> 0, bytes |-> 0])})
      ELSE now = IF ~answer.ok THEN old ELSE IF old # Null THEN CopyOf(old) ELSE CopyOf(new)

Outcome ==
  answer # NoJob =>
    answer.to \in Handles /\ \A t \in Handles : t = answer.to => \A k \in Keys : Merged(t, k)

IInv == Lists /\ Values /\ JobRight /\ ProgressRight /\ Outcome

LEMMA JobIs ==
  ASSUME Lists, JobRight, job # NoJob
  PROVE  /\ job \in Jobs /\ job.op \in {"merge", "clone"} /\ answer = NoJob
         /\ {job.to, job.from, job.file} \subseteq Handles \cap live /\ job.to # job.file
         /\ job.fills \in live /\ job.fills \in Tables /\ job.fills # job.from
         /\ job.op = "merge" => job.fills = job.to /\ job.from = job.file /\ Temp \notin live
         /\ job.op # "merge" => job.fills = Temp /\ job.from \in {job.to, job.file}
         /\ job.bucket \in Nat /\ job.bucket \in Buckets(job.from)
         /\ job.at \in At(job.from, job.bucket) \cup {Null} /\ job.at \in CellsIn(node) \cup {Null}
         /\ job.was \in [Handles -> [Keys -> Held \cup {Null}]]
<1>1. job \in Jobs
  BY DEF JobRight
<1>2. /\ job.op \in {"merge", "clone"} /\ {job.to, job.from, job.file} \subseteq Handles /\ job.fills \in Tables
      /\ job.bucket \in Nat /\ job.was \in [Handles -> [Keys -> Held \cup {Null}]]
  <2> DEFINE W == [Handles -> [Keys -> Held \cup {Null}]]
  <2>1. job \in [op : {"merge", "clone"}, to : Handles, from : Handles, file : Handles, fills : Tables,
                 bucket : Nat, at : Nodes \cup {Null}, was : W]
    BY <1>1 DEF Jobs
  <2> HIDE DEF W
  <2>2. /\ job.op \in {"merge", "clone"} /\ {job.to, job.from, job.file} \subseteq Handles /\ job.fills \in Tables
        /\ job.bucket \in Nat /\ job.was \in W
    BY <2>1
  <2> QED
    BY <2>2 DEF W
<1>3. /\ answer = NoJob /\ {job.to, job.from, job.file, job.fills} \subseteq live /\ job.to # job.file
      /\ IF job.op = "merge" THEN job.fills = job.to /\ job.from = job.file /\ Temp \notin live
         ELSE job.fills = Temp /\ job.from \in {job.to, job.file}
      /\ job.bucket \in Buckets(job.from) /\ job.at \in At(job.from, job.bucket) \cup {Null}
  BY DEF JobRight, Buckets, At
<1>4. job.at \in CellsIn(node) \cup {Null}
  BY <1>3 DEF At, Reach
<1>5. job.fills # job.from
  BY <1>2, <1>3, ChainAssumption
<1> QED
  BY <1>1, <1>2, <1>3, <1>4, <1>5

\* A walk that goes on changes nothing else about the merge.
LEMMA JobKept ==
  ASSUME job \in Jobs, NEW x \in Nodes \cup {Null}, NEW i \in Nat, NEW f \in Handles,
         \/ job' = [job EXCEPT !.at = x] /\ i = job.bucket /\ f = job.from
         \/ job' = [job EXCEPT !.bucket = i, !.at = x] /\ f = job.from
         \/ job' = [job EXCEPT !.from = f, !.bucket = i, !.at = x]
  PROVE  /\ job' \in Jobs /\ job' # NoJob
         /\ job'.op = job.op /\ job'.to = job.to /\ job'.file = job.file /\ job'.fills = job.fills
         /\ job'.was = job.was /\ job'.from = f /\ job'.bucket = i /\ job'.at = x
<1> DEFINE W == [Handles -> [Keys -> Held \cup {Null}]]
           J == [op : {"merge", "clone"}, to : Handles, from : Handles, file : Handles, fills : Tables,
                 bucket : Nat, at : Nodes \cup {Null}, was : W]
<1>1. job \in J
  BY DEF Jobs
<1> HIDE DEF W
<1>2. /\ job' \in J
      /\ job'.op = job.op /\ job'.to = job.to /\ job'.file = job.file /\ job'.fills = job.fills
      /\ job'.was = job.was /\ job'.from = f /\ job'.bucket = i /\ job'.at = x
  BY <1>1
<1>3. job' # NoJob
  <2>1. job'.op \in {"merge", "clone"}
    BY <1>1, <1>2
  <2>2. NoJob.op = "none"
    BY DEF NoJob
  <2> QED
    BY <2>1, <2>2
<1>4. job' \in Jobs
  BY <1>2 DEF Jobs, W
<1> QED
  BY <1>2, <1>3, <1>4

KeptBut(S) ==
  \A h \in live \cap live' \cap Handles : \A k \in Keys : <<h, k>> \notin S => Contents(h)'[k] = Contents(h)[k]

LEMMA ChangedIs ==
  ASSUME NEW S, KeptBut(S)
  PROVE  Changed \subseteq S
<1> SUFFICES ASSUME NEW c \in Changed PROVE c \in S
  OBVIOUS
<1>1. PICK h \in live \cap live' \cap Handles, k \in Keys : c = <<h, k>> /\ Contents(h)[k] # Contents(h)'[k]
  <2>1. c \in (live \cap live' \cap Handles) \X Keys /\ Contents(c[1])[c[2]] # Contents(c[1])'[c[2]]
    BY DEF Changed
  <2>2. PICK h \in live \cap live' \cap Handles, k \in Keys : c = <<h, k>>
    BY <2>1
  <2>3. c[1] = h /\ c[2] = k
    BY <2>2
  <2> QED
    BY <2>1, <2>2, <2>3
<1> QED
  BY <1>1 DEF KeptBut

LEMMA PutsOneKey ==
  ASSUME NEW h \in Tables, NEW k \in Keys, NEW c, Puts(h, k, c)
  PROVE  OneKey
<1>1. CASE h \in Handles
  <2>2. Changed \subseteq {<<h, k>>}
    <3>1. ASSUME NEW g \in live \cap live' \cap Handles, NEW j \in Keys, <<g, j>> \notin {<<h, k>>}
          PROVE  Contents(g)'[j] = Contents(g)[j]
      <4>1. g # h \/ j # k
        BY <3>1
      <4> QED
        BY <4>1 DEF Puts, Tables
    <3> QED
      BY <3>1, ChangedIs DEF KeptBut
  <2>3. Cardinality(Changed) <= 1
    <3> DEFINE one == {<<h, k>>}
    <3>1. IsFiniteSet(one) /\ Cardinality(one) = 1
      BY FS_Singleton
    <3>2. Changed \in SUBSET one
      BY <2>2
    <3> HIDE DEF one
    <3> QED
      BY <3>1, <3>2, FS_Subset
  <2> QED
    BY <2>3 DEF OneKey
<1>2. CASE h \notin Handles
  <2>1. KeptBut({})
    BY <1>2 DEF Puts, Tables, KeptBut
  <2>2. Changed = {}
    BY <2>1, ChangedIs
  <2>3. Cardinality(Changed) = 0
    BY <2>2, FS_EmptySet
  <2> QED
    BY <2>3 DEF OneKey
<1> QED
  BY <1>1, <1>2

LEMMA SameOneKey ==
  ASSUME \A h \in live \cap live' \cap Handles : Contents(h)' = Contents(h)
  PROVE  OneKey
<1>1. Changed = {}
  <2>1. KeptBut({})
    BY DEF KeptBut
  <2> QED
    BY <2>1, ChangedIs
<1>2. Cardinality(Changed) = 0
  BY <1>1, FS_EmptySet
<1> QED
  BY <1>2 DEF OneKey

\* A call leaves no merge and no answer.
LEMMA CallEnds ==
  ASSUME JobRight, Call, UNCHANGED job, Lists', Values', Temp \notin live'
  PROVE  IInv'
<1>1. job' = NoJob /\ answer' = NoJob
  BY DEF Call
<1> QED
  BY <1>1 DEF IInv, JobRight, ProgressRight, Outcome

LEMMA NewCell ==
  ASSUME BufLeft
  PROVE  NewBuf \in Bufs /\ buf[NewBuf] = 0
BY DEF BufLeft, NewBuf

-----------------------------------------------------------------------------
(***************************************************************************)
(* The calls of one step.                                                  *)
(***************************************************************************)
LEMMA UseIs ==
  ASSUME Lists
  PROVE  /\ use.tables \subseteq Handles /\ use.tables \subseteq Tables /\ use.keys \subseteq Keys
         /\ SetBytes \subseteq {0, 1} /\ Temp \notin Handles
BY ChainAssumption DEF Lists, Heads, Tables

\* A node whose value changes.
NewNodeValue(md, a, v, bytes) ==
  \/ md = [node EXCEPT ![a].val = v, ![a].bytes = bytes, ![a].own = TRUE]
  \/ md = [node EXCEPT ![a].bytes = bytes, ![a].own = TRUE] /\ v = node[a].val
  \/ md = [node EXCEPT ![a].own = TRUE] /\ v = node[a].val /\ bytes = node[a].bytes

LEMMA NewNodeIs ==
  ASSUME Links(node), NEW a \in CellsIn(node), NEW v \in Bufs \cup {Null}, NEW bytes \in {0, 1},
         NEW md, NewNodeValue(md, a, v, bytes)
  PROVE  /\ md \in [Nodes -> Cell \cup {Null}] /\ md[a] \in Cell /\ CellsIn(md) = CellsIn(node)
         /\ \A m \in Nodes : m # a => md[m] = node[m]
         /\ md[a].text = node[a].text /\ md[a].next = node[a].next /\ md[a].prev = node[a].prev
         /\ md[a].val = v /\ md[a].bytes = bytes /\ md[a].own
<1>1. a \in Nodes /\ node[a] \in Cell /\ node \in [Nodes -> Cell \cup {Null}]
  BY CellTyped DEF Links
<1>2. \/ md[a] = [node[a] EXCEPT !.val = v, !.bytes = bytes, !.own = TRUE]
      \/ md[a] = [node[a] EXCEPT !.bytes = bytes, !.own = TRUE] /\ v = node[a].val
      \/ md[a] = [node[a] EXCEPT !.own = TRUE] /\ v = node[a].val /\ bytes = node[a].bytes
  BY <1>1 DEF NewNodeValue
<1>3. DOMAIN md = Nodes /\ md = [m \in Nodes |-> md[m]] /\ \A m \in Nodes : m # a => md[m] = node[m]
  BY <1>1 DEF NewNodeValue
<1>4. /\ md[a] \in Cell
      /\ md[a].text = node[a].text /\ md[a].next = node[a].next /\ md[a].prev = node[a].prev
      /\ md[a].val = v /\ md[a].bytes = bytes /\ md[a].own
  BY <1>1, <1>2 DEF Cell
<1>5. CellsIn(md) = CellsIn(node)
  BY <1>1, <1>3, <1>4, NullOutside DEF CellsIn
<1> QED
  BY <1>1, <1>3, <1>4, <1>5

LEMMA NewRight ==
  ASSUME IInv, UNCHANGED use, NEW h \in use.tables, New(h)
  PROVE  IInv' /\ OneKey
<1>1. h \in Tables \ live /\ h # Temp /\ Temp \notin live /\ live' = live \cup {h}
  BY UseIs DEF IInv, New, Call, JobRight
<1>2. PICK n \in use.sizes : head' = [head EXCEPT ![h] = [i \in 0..(n-1) |-> Null]]
  BY DEF New
<1>3. Fresh(h, n)
  BY <1>2 DEF New, Fresh
<1>4. /\ Lists' /\ Values'
      /\ \A g \in Tables : g # h => Contents(g)' = Contents(g)
  BY <1>1, <1>3, FreshStep DEF IInv, New
<1>5. IInv'
  BY <1>1, <1>4, CallEnds DEF IInv, New
<1>6. OneKey
  BY <1>1, <1>4, SameOneKey DEF Tables
<1> QED
  BY <1>5, <1>6

LEMMA CleanupRight ==
  ASSUME IInv, UNCHANGED use, NEW h \in use.tables, Cleanup(h)
  PROVE  IInv' /\ OneKey
<1>1. /\ h \in live /\ h \in Tables /\ Temp \notin live /\ live' = live \ {h} /\ live \subseteq Tables
      /\ head' = [head EXCEPT ![h] = <<>>] /\ DOMAIN head = Tables
      /\ \A g \in Tables \ live : head[g] = <<>>
  BY UseIs DEF IInv, Cleanup, Call, JobRight, NoBuckets, Lists, Heads
<1> DEFINE from == [g \in live' |-> g]
<1>2. /\ live' \subseteq Tables /\ DOMAIN head' = Tables
      /\ from \in [live' -> live \ {h}] /\ \A g \in live' : from[g] = g
      /\ \A g \in live' : head'[g] = head[g]
      /\ \A g \in Tables \ live' : head'[g] = <<>>
  BY <1>1
<1> HIDE DEF from
<1>3. TakenOver(h, from)
  BY <1>1, <1>2 DEF TakenOver
<1>4. Lists' /\ Values' /\ \A g \in live' : Contents(g)' = Contents(g)
  BY <1>1, <1>2, <1>3, ReleaseStep DEF IInv, Cleanup
<1>5. IInv'
  BY <1>1, <1>4, CallEnds DEF IInv, Cleanup
<1>6. OneKey
  BY <1>4, SameOneKey
<1> QED
  BY <1>5, <1>6

LEMMA InsertRight ==
  ASSUME IInv, UNCHANGED use, NEW h \in use.tables, NEW k \in use.keys, Insert(h, k)
  PROVE  IInv' /\ OneKey
<1>1. h \in live /\ h \in Tables /\ k \in Keys /\ Temp \notin live /\ UNCHANGED live
  BY UseIs DEF IInv, Insert, Call, JobRight
<1>2. NoValue \in [val : Bufs \cup {Null}, bytes : {0, 1}, own : BOOLEAN] /\ NewValue(NoValue, 0)
  BY DEF NoValue, NewValue, Insert
<1>3. Lists' /\ Values' /\ \E c : Puts(h, k, c)
  BY <1>1, <1>2, PushStep DEF IInv, Insert
<1> QED
  BY <1>1, <1>3, PutsOneKey, CallEnds DEF IInv, Insert

\* What a call does to the buffers that replaces the value of node a by v.
BufsAfter(a, v) ==
  /\ buf' \in [Bufs -> 0..MaxCount]
  /\ \A b \in Bufs : b # node[a].val /\ b # v => buf'[b] = buf[b]
  /\ v # Null => buf'[v] # 0
  /\ v # node[a].val => (v # Null => buf[v] = 0) /\ (node[a].val # Null => buf'[node[a].val] = 0)

LEMMA OverwriteRight ==
  ASSUME IInv, Call, UNCHANGED <<use, live, head, job>>, NEW h \in live, NEW k \in Keys, NEW a \in Lookup(h, k),
         NEW v \in Bufs \cup {Null}, NEW bytes \in {0, 1}, NewNodeValue(node', a, v, bytes), BufsAfter(a, v)
  PROVE  IInv' /\ OneKey
<1>1. /\ a \in Inside(h) /\ a \in CellsIn(node) /\ h \in Tables /\ Temp \notin live /\ Links(node)
      /\ node[a].text = k
  BY LookupIs, InsideIs DEF IInv, Lists, Heads, Call, JobRight
<1>2. /\ node' \in [Nodes -> Cell \cup {Null}] /\ CellsIn(node') = CellsIn(node)
      /\ \A m \in Nodes : m # a => node'[m] = node[m]
      /\ node'[a].text = node[a].text /\ node'[a].next = node[a].next /\ node'[a].prev = node[a].prev
      /\ node'[a].val = v /\ node'[a].own
  BY <1>1, NewNodeIs
<1>3. SameLinks
  BY <1>2 DEF SameLinks, CellsIn
<1>4. Sets(a)
  <2>1. \A m \in CellsIn(node) \ {a} : node'[m] = node[m]
    BY <1>2 DEF CellsIn
  <2> QED
    BY <1>2, <1>3, <2>1 DEF Sets, BufsAfter
<1>5. Lists' /\ Values' /\ \E c : Puts(h, k, c)
  BY <1>1, <1>4, SetStep DEF IInv
<1> QED
  BY <1>1, <1>5, PutsOneKey, CallEnds DEF IInv

LEMMA SetRight ==
  ASSUME IInv, UNCHANGED use, NEW h \in use.tables, NEW k \in use.keys, NEW bytes \in SetBytes, Set(h, k, bytes)
  PROVE  IInv' /\ OneKey
<1>1. /\ h \in live /\ h \in Tables /\ k \in Keys /\ bytes \in {0, 1} /\ Temp \notin live /\ UNCHANGED live
      /\ NewBuf \in Bufs /\ buf[NewBuf] = 0 /\ 1 \in 1..MaxCount /\ 1 \in 0..MaxCount /\ 0 \in 0..MaxCount
  <2>1. h \in live /\ h \in Tables /\ k \in Keys /\ bytes \in {0, 1} /\ UNCHANGED live
    BY UseIs DEF IInv, Set
  <2>2. Temp \notin live
    BY DEF IInv, Set, Call, JobRight
  <2>3. NewBuf \in Bufs /\ buf[NewBuf] = 0
    BY NewCell DEF Set
  <2>4. 1 \in 1..MaxCount /\ 1 \in 0..MaxCount /\ 0 \in 0..MaxCount
    BY ChainAssumption
  <2> QED
    BY <2>1, <2>2, <2>3, <2>4
<1>2. PICK n : n = NewBuf
  OBVIOUS
<1> DEFINE v == [val |-> n, bytes |-> bytes, own |-> TRUE]
<1>3. /\ v \in [val : Bufs \cup {Null}, bytes : {0, 1}, own : BOOLEAN]
      /\ v.val = n /\ v.own /\ v.bytes = bytes
  BY <1>1, <1>2
<1>4. CASE Missing(h, k) /\ Push(h, k, v) /\ buf' = [buf EXCEPT ![n] = 1]
  <2>1. NewValue(v, 1)
    BY <1>1, <1>2, <1>4 DEF NewValue
  <2>2. Lists' /\ Values' /\ \E c : Puts(h, k, c)
    <3> HIDE DEF v
    <3> QED
      BY <1>1, <1>3, <1>4, <2>1, PushStep DEF IInv
  <2> QED
    BY <1>1, <2>2, PutsOneKey, CallEnds DEF IInv, Set
<1>5. ASSUME NEW a \in Lookup(h, k),
             node' = [node EXCEPT ![a].val = n, ![a].bytes = bytes, ![a].own = TRUE],
             buf' = [b \in Bufs |-> IF b = n THEN 1 ELSE IF b = node[a].val /\ node[a].own THEN 0 ELSE buf[b]],
             UNCHANGED head
      PROVE  IInv' /\ OneKey
  <2>1. a \in CellsIn(node) /\ node[a].val \in Bufs \cup {Null}
    BY <1>1, LookupIs, InsideIs, CellTyped DEF IInv, Lists
  <2>2. node[a].val # Null => node[a].own
    BY <2>1 DEF IInv, Values
  <2>3. buf' \in [Bufs -> 0..MaxCount]
    <3>1. buf \in [Bufs -> 0..MaxCount]
      BY DEF IInv, Values
    <3> QED
      BY <1>1, <1>5, <3>1
  <2>4. BufsAfter(a, n)
    BY <1>1, <1>2, <1>5, <2>1, <2>2, <2>3 DEF BufsAfter
  <2>5. NewNodeValue(node', a, n, bytes)
    BY <1>5 DEF NewNodeValue
  <2> QED
    BY <1>1, <1>2, <1>5, <2>4, <2>5, OverwriteRight DEF Set
<1>6. \/ Missing(h, k) /\ Push(h, k, v) /\ buf' = [buf EXCEPT ![n] = 1]
      \/ \E a \in Lookup(h, k) :
           /\ node' = [node EXCEPT ![a].val = v.val, ![a].bytes = v.bytes, ![a].own = v.own]
           /\ buf' = [b \in Bufs |-> IF b = n THEN 1 ELSE IF b = node[a].val /\ node[a].own THEN 0 ELSE buf[b]]
           /\ UNCHANGED head
  BY <1>2 DEF Set
<1> QED
  BY <1>3, <1>4, <1>5, <1>6

LEMMA SetValueRight ==
  ASSUME IInv, UNCHANGED use, NEW h \in use.tables, NEW k \in use.keys, SetValue(h, k)
  PROVE  IInv' /\ OneKey
<1>1. /\ h \in live /\ h \in Tables /\ k \in Keys /\ UNCHANGED <<live, job>> /\ Call
      /\ buf \in [Bufs -> 0..MaxCount]
  BY UseIs DEF IInv, SetValue, Values
<1>2. Temp \notin live
  BY <1>1 DEF IInv, Call, JobRight
<1>3. 1 \in 1..MaxCount /\ 1 \in 0..MaxCount /\ MaxCount \in Nat
  BY ChainAssumption
<1>4. PICK n : n = NewBuf
  OBVIOUS
<1>5. BufLeft => n \in Bufs /\ buf[n] = 0
  BY <1>4, NewCell
<1>6. ASSUME NEW b \in Bufs \cup {Null}, NEW c, NewValue(Value(b), c), Missing(h, k), Push(h, k, Value(b))
      PROVE  IInv' /\ OneKey
  <2>1. Value(b) \in [val : Bufs \cup {Null}, bytes : {0, 1}, own : BOOLEAN]
    BY DEF Value
  <2>2. Lists' /\ Values' /\ \E d : Puts(h, k, d)
    BY <1>1, <1>6, <2>1, PushStep DEF IInv
  <2> QED
    BY <1>1, <1>2, <2>2, PutsOneKey, CallEnds DEF IInv
<1>7. CASE Missing(h, k) /\ BufLeft /\ Push(h, k, Value(n)) /\ buf' = [buf EXCEPT ![n] = 1]
  <2>1. NewValue(Value(n), 1)
    BY <1>3, <1>5, <1>7 DEF NewValue, Value
  <2> QED
    BY <1>5, <1>6, <1>7, <2>1
<1>8. CASE Missing(h, k) /\ Push(h, k, Value(Null)) /\ UNCHANGED buf
  <2>1. NewValue(Value(Null), 0)
    BY <1>8 DEF NewValue, Value
  <2> QED
    BY <1>6, <1>8, <2>1
<1>9. ASSUME NEW a \in Lookup(h, k), UNCHANGED head,
             \/ /\ node[a].val = Null /\ BufLeft
                /\ node' = [node EXCEPT ![a].val = n, ![a].bytes = 1, ![a].own = TRUE]
                /\ buf' = [buf EXCEPT ![n] = 1]
             \/ /\ node[a].val = Null
                /\ node' = [node EXCEPT ![a].bytes = 1, ![a].own = TRUE]
                /\ UNCHANGED buf
             \/ /\ node[a].val # Null /\ buf[node[a].val] < MaxCount
                /\ node' = [node EXCEPT ![a].own = TRUE]
                /\ buf' = [buf EXCEPT ![node[a].val] = @ + 1]
      PROVE  IInv' /\ OneKey
  <2>1. /\ a \in CellsIn(node) /\ node[a].val \in Bufs \cup {Null} /\ node[a].bytes \in {0, 1}
        /\ node[a].val # Null => buf[node[a].val] # 0
    BY <1>1, LookupIs, InsideIs, CellTyped DEF IInv, Lists, Values
  <2>2. ASSUME node[a].val = Null, BufLeft,
               node' = [node EXCEPT ![a].val = n, ![a].bytes = 1, ![a].own = TRUE], buf' = [buf EXCEPT ![n] = 1]
        PROVE  IInv' /\ OneKey
    <3>1. BufsAfter(a, n)
      BY <1>1, <1>3, <1>5, <2>2, NullOutside DEF BufsAfter
    <3>2. NewNodeValue(node', a, n, 1)
      BY <2>2 DEF NewNodeValue
    <3> QED
      BY <1>1, <1>5, <1>9, <2>2, <3>1, <3>2, OverwriteRight
  <2>3. ASSUME node[a].val = Null, node' = [node EXCEPT ![a].bytes = 1, ![a].own = TRUE], UNCHANGED buf
        PROVE  IInv' /\ OneKey
    <3>1. BufsAfter(a, Null)
      BY <1>1, <2>3 DEF BufsAfter
    <3>2. NewNodeValue(node', a, Null, 1)
      BY <2>3 DEF NewNodeValue
    <3> QED
      BY <1>1, <1>9, <3>1, <3>2, OverwriteRight
  <2>4. ASSUME node[a].val # Null, buf[node[a].val] < MaxCount,
               node' = [node EXCEPT ![a].own = TRUE], buf' = [buf EXCEPT ![node[a].val] = @ + 1]
        PROVE  IInv' /\ OneKey
    <3>1. PICK b \in Bufs : b = node[a].val
      BY <2>1, <2>4
    <3>2. buf[b] \in 0..MaxCount /\ buf[b] + 1 \in 0..MaxCount /\ buf[b] + 1 # 0
      BY <1>1, <1>3, <2>4, <3>1
    <3>3. BufsAfter(a, b)
      BY <1>1, <2>4, <3>1, <3>2 DEF BufsAfter
    <3>4. NewNodeValue(node', a, b, node[a].bytes)
      BY <2>4, <3>1 DEF NewNodeValue
    <3> QED
      BY <1>1, <1>9, <2>1, <3>3, <3>4, OverwriteRight
  <2> QED
    BY <1>9, <2>2, <2>3, <2>4
<1> QED
  BY <1>4, <1>7, <1>8, <1>9 DEF SetValue

LEMMA RemoveRight ==
  ASSUME IInv, UNCHANGED use, NEW h \in use.tables, NEW k \in use.keys, Remove(h, k)
  PROVE  IInv' /\ OneKey
<1>1. /\ h \in live /\ h \in Tables /\ k \in Keys /\ UNCHANGED <<live, job>> /\ Call
  BY UseIs DEF IInv, Remove
<1>2. Temp \notin live
  BY <1>1 DEF IInv, Call, JobRight
<1>3. PICK a \in Lookup(h, k) :
        /\ node' = Unlinked(a)
        /\ head' = IF node[a].prev = Null THEN [head EXCEPT ![h][Bucket(h, k)] = Rest(a)] ELSE head
        /\ buf' = [b \in Bufs |-> IF b = node[a].val /\ node[a].own THEN 0 ELSE buf[b]]
  BY DEF Remove
<1>4. a \in Inside(h) /\ node[a].text = k
  BY <1>1, LookupIs DEF IInv
<1>5. RemovedNode(h, k, a)
  BY <1>1, <1>3 DEF RemovedNode
<1>6. Lists' /\ Values' /\ Puts(h, k, Null)
  BY <1>1, <1>3, <1>4, <1>5, RemoveStep DEF IInv
<1> QED
  BY <1>1, <1>2, <1>6, PutsOneKey, CallEnds DEF IInv

-----------------------------------------------------------------------------
(***************************************************************************)
(* The steps of a merge.                                                   *)
(***************************************************************************)
LEMMA StillLists ==
  ASSUME Lists, Values, UNCHANGED <<use, live, head, node, buf>>
  PROVE  /\ Lists' /\ Values'
         /\ \A h \in Tables : Contents(h)' = Contents(h)
<1>1. SameLinks /\ node' \in [Nodes -> Cell \cup {Null}]
  BY DEF SameLinks, Lists, Links
<1>2. Lists' /\ \A h \in Tables : Inside(h)' = Inside(h)
  BY <1>1, SameLists
<1>3. Values'
  BY DEF Values
<1>4. \A a : Slot(a)' = Slot(a)
  BY DEF Slot
<1> QED
  BY <1>2, <1>3, <1>4, SameTableIs

LEMMA MergeIs ==
  ASSUME Lists, Values, NEW op \in {"merge", "clone"}, NEW t \in Handles, NEW from \in Handles \cap live,
         NEW file \in Handles, NEW filling \in Tables, Merge(op, t, from, file, filling)
  PROVE  /\ job' \in Jobs /\ job' # NoJob
         /\ job'.op = op /\ job'.to = t /\ job'.from = from /\ job'.file = file /\ job'.fills = filling
         /\ job'.bucket = 0 /\ job'.at = head[from][0] /\ job'.at \in CellsIn(node) \cup {Null}
         /\ \A h \in Handles : job'.was[h] = Contents(h)
<1>1. head[from][0] \in CellsIn(node) \cup {Null}
  BY BucketsAre DEF Lists
<1> DEFINE was == [h \in Handles |-> Contents(h)]
           W == [Handles -> [Keys -> Held \cup {Null}]]
<1>2. was \in W
  <2>1. \A h \in Handles : Contents(h) \in [Keys -> Held \cup {Null}]
    BY ContentsTyped DEF Tables
  <2> QED
    BY <2>1
<1>3. \A h \in Handles : was[h] = Contents(h)
  OBVIOUS
<1>4. job' = [op |-> op, to |-> t, from |-> from, file |-> file, fills |-> filling,
              bucket |-> 0, at |-> head[from][0], was |-> was]
  BY DEF Merge
<1> HIDE DEF was, W
<1>5. /\ job'.op = op /\ job'.to = t /\ job'.from = from /\ job'.file = file /\ job'.fills = filling
      /\ job'.bucket = 0 /\ job'.at = head[from][0] /\ job'.was = was
  BY <1>4
<1>6. job' \in [op : {"merge", "clone"}, to : Handles, from : Handles, file : Handles, fills : Tables,
                bucket : Nat, at : Nodes \cup {Null}, was : W]
  BY <1>1, <1>2, <1>4 DEF CellsIn
<1>7. job' \in Jobs
  BY <1>6 DEF Jobs, W
<1>8. job' # NoJob
  <2>1. NoJob.op = "none"
    BY DEF NoJob
  <2> QED
    BY <1>5, <2>1
<1> QED
  BY <1>1, <1>3, <1>5, <1>7, <1>8

\* Before the first step the whole table is still to come.
LEMMA AllComes ==
  ASSUME Lists, Values, NEW f \in Handles \cap live, NEW k \in Keys, Contents(f)[k] # Null
  PROVE  \E a \in CellsIn(node) :
           /\ node[a].text = k
           /\ a \in Reach(node, head[f][0]) \/ \E i \in DOMAIN head[f] : i > 0 /\ a \in Reach(node, head[f][i])
<1>1. PICK a \in Inside(f) : node[a].text = k
  BY ContentsTyped DEF Tables
<1>2. PICK i \in Buckets(f) : a \in At(f, i)
  BY <1>1 DEF Inside
<1>3. a \in CellsIn(node) /\ i \in Nat
  BY <1>2, BucketsAre DEF At, Reach, Lists
<1>4. i = 0 \/ i > 0
  BY <1>3
<1> QED
  BY <1>1, <1>2, <1>3, <1>4 DEF At, Buckets

LEMMA StartMergeRight ==
  ASSUME IInv, UNCHANGED use, NEW t \in use.tables, NEW f \in use.tables \ {t}, StartMerge(t, f)
  PROVE  IInv' /\ OneKey
<1>1. /\ t \in Handles /\ f \in Handles /\ t # f /\ t \in live /\ f \in live /\ t \in Tables /\ f \in Tables
      /\ UNCHANGED <<live, head, node, buf>> /\ answer' = NoJob /\ Lists /\ Values
  BY UseIs DEF IInv, StartMerge, Call
<1>2. Temp \notin live
  BY DEF IInv, StartMerge, Call, JobRight
<1>3. Lists' /\ Values' /\ \A h \in Tables : Contents(h)' = Contents(h)
  BY <1>1, StillLists
<1>4. /\ job' \in Jobs /\ job' # NoJob
      /\ job'.op = "merge" /\ job'.to = t /\ job'.from = f /\ job'.file = f /\ job'.fills = t
      /\ job'.bucket = 0 /\ job'.at = head[f][0]
      /\ \A h \in Handles : job'.was[h] = Contents(h)
  BY <1>1, MergeIs DEF StartMerge
<1>5. 0 \in DOMAIN head[f] /\ head[f][0] \in Reach(node, head[f][0]) \cup {Null}
  BY <1>1, BucketsAre, ReachClosed DEF Lists, Buckets
<1>6. JobRight'
  BY <1>1, <1>2, <1>4, <1>5 DEF JobRight
<1>7. ProgressRight'
  <2>1. ASSUME NEW h \in Handles PROVE Contents(h)' = job'.was[h]
    BY <1>3, <1>4 DEF Tables
  <2>2. ASSUME NEW k \in Keys PROVE CopiedSoFar(t, k)'
    <3>1. /\ Given(k)' = Contents(t)[k] /\ Source(k)' = Contents(f)[k]
          /\ Contents(t)'[k] = Contents(t)[k]
      BY <1>1, <1>3, <1>4 DEF Given, Source
    <3>2. Contents(f)[k] # Null => Comes(k)'
      BY <1>1, <1>4, AllComes DEF Comes
    <3> QED
      BY <3>1, <3>2 DEF CopiedSoFar
  <2> QED
    BY <1>4, <2>1, <2>2 DEF ProgressRight
<1>8. Outcome'
  BY <1>1 DEF Outcome
<1>9. OneKey
  BY <1>3, SameOneKey DEF Tables
<1> QED
  BY <1>3, <1>6, <1>7, <1>8, <1>9 DEF IInv

LEMMA StartCloneMergeRight ==
  ASSUME IInv, UNCHANGED use, NEW g \in use.tables, NEW f \in use.tables \ {g}, StartCloneMerge(g, f)
  PROVE  IInv' /\ OneKey
<1>1. /\ g \in Handles /\ f \in Handles /\ g # f /\ g \in live /\ f \in live /\ g \in Tables /\ f \in Tables
      /\ UNCHANGED <<node, buf>> /\ answer' = NoJob /\ Lists /\ Values
      /\ live' = live \cup {Temp} /\ head' = [head EXCEPT ![Temp] = [i \in Buckets(g) |-> Null]]
      /\ Temp \in Tables /\ Temp \notin Handles /\ DOMAIN head = Tables
  BY UseIs DEF IInv, StartCloneMerge, Call, Tables, Lists, Heads
<1>2. Temp \notin live
  BY DEF IInv, StartCloneMerge, Call, JobRight
<1>3. PICK n \in use.sizes : Buckets(g) = 0..(n-1)
  BY <1>1, BucketsAre DEF Lists
<1>4. Fresh(Temp, n)
  BY <1>1, <1>3 DEF Fresh
<1>5. /\ Lists' /\ Values' /\ \A k \in Keys : Contents(Temp)'[k] = Null
      /\ \A h \in Tables : h # Temp => Contents(h)' = Contents(h)
  BY <1>1, <1>2, <1>4, FreshStep
<1>6. \A h \in Handles : Contents(h)' = Contents(h)
  BY <1>1, <1>5 DEF Tables
<1>7. /\ job' \in Jobs /\ job' # NoJob
      /\ job'.op = "clone" /\ job'.to = g /\ job'.from = g /\ job'.file = f /\ job'.fills = Temp
      /\ job'.bucket = 0 /\ job'.at = head[g][0]
      /\ \A h \in Handles : job'.was[h] = Contents(h)
  BY <1>1, MergeIs DEF StartCloneMerge
<1>8. /\ 0 \in DOMAIN head[g] /\ head[g][0] \in Reach(node, head[g][0]) \cup {Null} /\ head'[g] = head[g]
  BY <1>1, BucketsAre, ReachClosed DEF Lists, Buckets
<1>9. JobRight'
  BY <1>1, <1>7, <1>8 DEF JobRight
<1>10. ProgressRight'
  <2>1. ASSUME NEW k \in Keys PROVE CopiedSoFar(Temp, k)'
    <3>1. Given(k)' = Null /\ Source(k)' = Contents(g)[k] /\ Contents(Temp)'[k] = Null
      BY <1>1, <1>5, <1>7 DEF Given, Source, Cloned
    <3>2. Contents(g)[k] # Null => Comes(k)'
      BY <1>1, <1>7, <1>8, AllComes DEF Comes
    <3> QED
      BY <3>1, <3>2 DEF CopiedSoFar
  <2> QED
    BY <1>6, <1>7, <2>1 DEF ProgressRight
<1>11. Outcome'
  BY <1>1 DEF Outcome
<1>12. OneKey
  BY <1>6, SameOneKey
<1> QED
  BY <1>5, <1>9, <1>10, <1>11, <1>12 DEF IInv

LEMMA CopyOfIs ==
  /\ CopyOf(Null) = Null
  /\ \A c \in Held :
       /\ CopyOf(c) \in Held /\ CopyOf(c) # Null
       /\ c.bytes = 0 \/ c.count = 0 => CopyOf(c) = [count |-> 0, bytes |-> 0]
       /\ c.bytes # 0 /\ c.count # 0 => CopyOf(c) = c
<1>1. 0 \in 0..MaxCount
  BY ChainAssumption
<1>2. [count |-> 0, bytes |-> 0] \in Held
  BY <1>1 DEF Held
<1>3. \A c \in Held : c # Null
  BY NullOutside
<1>4. \A c \in Held : CopyOf(c) = IF c.bytes = 0 \/ c.count = 0 THEN [count |-> 0, bytes |-> 0] ELSE c
  BY <1>3 DEF CopyOf
<1>5. \A c \in Held : CopyOf(c) \in Held
  BY <1>2, <1>4
<1>6. CopyOf(Null) = Null
  BY DEF CopyOf
<1> QED
  BY <1>3, <1>4, <1>5, <1>6

\* The table a merge walks still has what it had.
LEMMA SourceIs ==
  ASSUME IInv, job # NoJob, NEW k \in Keys
  PROVE  /\ Source(k) = Contents(job.from)[k] /\ Source(k) \in Held \cup {Null}
         /\ Given(k) \in Held \cup {Null} /\ job.was[job.to][k] \in Held \cup {Null}
         /\ job.was[job.to][k] = Contents(job.to)[k] \/ job.op = "merge"
<1>1. /\ job.from \in Handles /\ job.to \in Handles /\ job.fills # job.from
      /\ job.was \in [Handles -> [Keys -> Held \cup {Null}]]
      /\ job.op # "merge" => job.fills = Temp
  BY JobIs DEF IInv
<1>2. job.fills # job.to \/ job.op = "merge"
  BY <1>1, ChainAssumption
<1>3. Contents(job.from) = job.was[job.from] /\ (job.op # "merge" => Contents(job.to) = job.was[job.to])
  BY <1>1, <1>2 DEF IInv, ProgressRight
<1>4. \A h \in Handles : job.was[h][k] \in Held \cup {Null}
  BY <1>1
<1>5. Given(k) \in Held \cup {Null}
  BY <1>1, <1>4, CopyOfIs DEF Given
<1> QED
  BY <1>1, <1>3, <1>4, <1>5 DEF Source

\* The node it is at.
LEMMA AtIs ==
  ASSUME IInv, Merging
  PROVE  /\ job # NoJob /\ job.at \in CellsIn(node) /\ job.at \in Nodes /\ job.at # Null
         /\ node[job.at].next \in CellsIn(node) \cup {Null}
         /\ Key \in Keys /\ Source(Key) = Slot(job.at) /\ Slot(job.at) \in Held
         /\ node[job.at].val \in Bufs \cup {Null} /\ node[job.at].bytes \in {0, 1}
         /\ node[job.at].val # Null => buf[node[job.at].val] \in 1..MaxCount /\ node[job.at].own
<1>1. /\ job # NoJob /\ job.at # Null /\ job.from \in live /\ job.from \in Tables
      /\ job.bucket \in Buckets(job.from) /\ job.at \in At(job.from, job.bucket)
      /\ Lists /\ Values /\ Links(node)
  BY JobIs DEF IInv, Merging, Tables, Lists
<1>2. job.at \in Inside(job.from) /\ job.at \in CellsIn(node)
  BY <1>1, InsideIs DEF Lists
<1>3. /\ Key \in Keys /\ job.at \in Nodes /\ node[job.at].next \in CellsIn(node) \cup {Null}
      /\ node[job.at].val \in Bufs \cup {Null} /\ node[job.at].bytes \in {0, 1}
  BY <1>1, <1>2, CellTyped DEF Key
<1>4. Source(Key) = Slot(job.at)
  BY <1>1, <1>2, <1>3, SourceIs, ContentsTyped DEF Key
<1>5. Slot(job.at) \in Held
  BY <1>1, <1>2, SlotHeld
<1>6. ASSUME node[job.at].val # Null PROVE buf[node[job.at].val] \in 1..MaxCount /\ node[job.at].own
  <2>1. buf[node[job.at].val] # 0 /\ node[job.at].own
    BY <1>1, <1>2, <1>6 DEF Values
  <2>2. buf[node[job.at].val] \in 0..MaxCount
    BY <1>1, <1>3, <1>6 DEF Values
  <2> QED
    BY <2>1, <2>2, ChainAssumption
<1> QED
  BY <1>1, <1>2, <1>3, <1>4, <1>5, <1>6

\* What the walk goes through stays when it takes a step.
Walks ==
  /\ UNCHANGED <<live, answer>> /\ head'[job.from] = head[job.from]
  /\ \A m \in CellsIn(node) : m \in CellsIn(node') /\ node'[m].text = node[m].text
  /\ \A a \in CellsIn(node) \cup {Null} : Reach(node', a) = Reach(node, a)

LEMMA AdvanceIs ==
  ASSUME IInv, Merging, Advance, Walks
  PROVE  /\ JobRight' /\ job' # NoJob /\ job'.fills = job.fills /\ job'.was = job.was
         /\ \A k \in Keys : Given(k)' = Given(k) /\ Source(k)' = Source(k)
         /\ \A k \in Keys : k # Key /\ Comes(k) => Comes(k)'
<1> DEFINE next == node[job.at].next
<1>1. /\ Lists /\ Links(node) /\ JobRight /\ job # NoJob /\ job.at \in CellsIn(node)
      /\ next \in CellsIn(node) \cup {Null} /\ next \in Nodes \cup {Null}
  BY AtIs DEF IInv, Lists, CellsIn
<1>2. /\ job \in Jobs /\ job.bucket \in Nat /\ job.from \in Handles /\ job.from \in live
      /\ job.bucket \in Buckets(job.from) /\ job.at \in At(job.from, job.bucket) \cup {Null}
  BY <1>1, JobIs
<1>3. /\ job' \in Jobs /\ job' # NoJob
      /\ job'.op = job.op /\ job'.to = job.to /\ job'.file = job.file /\ job'.fills = job.fills
      /\ job'.was = job.was /\ job'.from = job.from /\ job'.bucket = job.bucket /\ job'.at = next
  <2>1. job' = [job EXCEPT !.at = next]
    BY DEF Advance
  <2> HIDE DEF next
  <2> QED
    BY <1>1, <1>2, <2>1, JobKept
<1>4. job.from \in Tables /\ head[job.from][job.bucket] \in CellsIn(node) \cup {Null}
  BY <1>1, <1>2, BucketsAre DEF Lists, Tables
<1>5. next \in Reach(node, head[job.from][job.bucket]) \cup {Null}
  <2>1. Closed(node, At(job.from, job.bucket))
    BY <1>1, <1>2, InsideIs DEF Lists
  <2>2. job.at \in At(job.from, job.bucket)
    BY <1>2, AtIs
  <2> QED
    BY <2>1, <2>2 DEF Closed, At
<1>6. JobRight'
  <2>1. Reach(node', head[job.from][job.bucket]) = Reach(node, head[job.from][job.bucket])
    BY <1>4 DEF Walks
  <2>2. job'.at \in Reach(node', head'[job'.from][job'.bucket]) \cup {Null}
    BY <1>3, <1>5, <2>1 DEF Walks
  <2> QED
    BY <1>1, <1>3, <2>2 DEF JobRight, Walks
<1>7. \A k \in Keys : Given(k)' = Given(k) /\ Source(k)' = Source(k)
  BY <1>3 DEF Given, Source, Cloned
<1>8. ASSUME NEW k \in Keys, k # Key, Comes(k) PROVE Comes(k)'
  <2>1. PICK a \in CellsIn(node) :
          /\ node[a].text = k
          /\ \/ a \in Reach(node, job.at)
             \/ \E i \in DOMAIN head[job.from] : i > job.bucket /\ a \in Reach(node, head[job.from][i])
    BY <1>8 DEF Comes
  <2>2. a \in CellsIn(node') /\ node'[a].text = k
    BY <2>1 DEF Walks
  <2>3. CASE a \in Reach(node, job.at)
    <3>1. a # job.at
      BY <1>8, <2>1 DEF Key
    <3>2. a \in Reach(node, next)
      BY <1>1, <2>3, <3>1, ReachStep
    <3>3. a \in Reach(node', job'.at)
      BY <1>1, <1>3, <3>2 DEF Walks
    <3> QED
      BY <2>2, <3>3 DEF Comes
  <2>4. ASSUME NEW i \in DOMAIN head[job.from], i > job.bucket, a \in Reach(node, head[job.from][i])
        PROVE  Comes(k)'
    <3>1. head[job.from][i] \in CellsIn(node) \cup {Null}
      BY <1>1, <1>2, <2>4, BucketsAre DEF Lists, Buckets
    <3>2. a \in Reach(node', head'[job'.from][i]) /\ i \in DOMAIN head'[job'.from] /\ i > job'.bucket
      BY <1>3, <2>4, <3>1 DEF Walks
    <3> QED
      BY <2>2, <3>2 DEF Comes
  <2> QED
    BY <2>1, <2>3, <2>4
<1> QED
  BY <1>3, <1>6, <1>7, <1>8

LEMMA SkipRight ==
  ASSUME IInv, UNCHANGED use, Skip
  PROVE  IInv' /\ OneKey
<1>1. /\ Merging /\ Advance /\ ~Missing(job.fills, Key) /\ UNCHANGED <<live, head, node, buf, answer>>
      /\ Lists /\ Values
  BY DEF Skip, IInv
<1>2. Lists' /\ Values' /\ \A h \in Tables : Contents(h)' = Contents(h)
  BY <1>1, StillLists
<1>3. Walks
  BY <1>1 DEF Walks
<1>4. /\ JobRight' /\ job' # NoJob /\ job'.fills = job.fills /\ job'.was = job.was
      /\ \A k \in Keys : Given(k)' = Given(k) /\ Source(k)' = Source(k)
      /\ \A k \in Keys : k # Key /\ Comes(k) => Comes(k)'
  BY <1>1, <1>3, AdvanceIs
<1>5. PICK t \in live : t = job.fills
  BY <1>1, JobIs DEF IInv, Merging
<1>6. t \in Tables /\ Key \in Keys /\ job # NoJob
  BY <1>1, <1>5, AtIs DEF Lists, Heads
<1>7. Contents(t)[Key] # Null
  <2>1. PICK a \in Lookup(t, Key) : TRUE
    BY <1>1, <1>5 DEF Missing
  <2>2. a \in Inside(t) /\ node[a].text = Key
    BY <1>1, <1>6, LookupIs
  <2> QED
    BY <1>1, <1>6, <2>2, ContentsTyped
<1>8. ProgressRight'
  <2>1. ASSUME NEW h \in Handles, h # job'.fills PROVE Contents(h)' = job'.was[h]
    BY <1>2, <1>4, <1>6, <2>1 DEF IInv, ProgressRight, Tables
  <2>2. ASSUME NEW k \in Keys PROVE CopiedSoFar(t, k)'
    <3>1. CopiedSoFar(t, k)
      BY <1>5, <1>6 DEF IInv, ProgressRight
    <3>2. Contents(t)'[k] = Contents(t)[k] /\ Given(k)' = Given(k) /\ Source(k)' = Source(k)
      BY <1>2, <1>4, <1>6
    <3> QED
      BY <1>4, <1>7, <3>1, <3>2 DEF CopiedSoFar
  <2> QED
    BY <1>4, <1>5, <2>1, <2>2 DEF ProgressRight
<1>9. Outcome'
  BY <1>1, <1>6, JobIs DEF Outcome, IInv
<1>10. OneKey
  BY <1>2, SameOneKey DEF Tables
<1> QED
  BY <1>2, <1>4, <1>8, <1>9, <1>10 DEF IInv

LEMMA MissingIs ==
  ASSUME Lists, Values, NEW h \in live, NEW k \in Keys
  PROVE  Missing(h, k) <=> Contents(h)[k] = Null
<1>1. h \in Tables /\ Lookup(h, k) = {a \in Inside(h) : node[a].text = k}
  BY LookupIs DEF Lists, Heads
<1> QED
  BY <1>1, ContentsTyped DEF Missing

\* What a merge finds where it has no key, and what it then gives a key.
LEMMA GapIs ==
  ASSUME IInv, Merging, Missing(job.fills, Key)
  PROVE  /\ Given(Key) = Null /\ Contents(job.fills)[Key] = Null
         /\ HasValue => /\ CopyOf(Source(Key)) = [count |-> buf[node[job.at].val], bytes |-> node[job.at].bytes]
                        /\ node[job.at].val \in Bufs
         /\ ~HasValue => CopyOf(Source(Key)) = [count |-> 0, bytes |-> 0]
<1>1. job.fills \in live /\ job # NoJob /\ Key \in Keys /\ Lists /\ Values /\ job.fills \in Tables
  BY JobIs, AtIs DEF IInv
<1>2. Contents(job.fills)[Key] = Null
  BY <1>1, MissingIs
<1>3. PICK t \in Tables : t = job.fills
  BY <1>1
<1>4. CopiedSoFar(t, Key)
  BY <1>1, <1>3 DEF IInv, ProgressRight
<1>5. Given(Key) = Null
  BY <1>2, <1>3, <1>4 DEF CopiedSoFar
<1>6. /\ Source(Key) = Slot(job.at) /\ Slot(job.at) \in Held /\ job.at \in CellsIn(node) /\ Links(node)
      /\ node[job.at].val \in Bufs \cup {Null}
  BY AtIs DEF IInv, Lists
<1>7. /\ Slot(job.at).count = (IF node[job.at].val = Null THEN 0 ELSE buf[node[job.at].val])
      /\ Slot(job.at).bytes = node[job.at].bytes /\ (Slot(job.at).count = 0 <=> node[job.at].val = Null)
  BY <1>1, <1>6, SlotHeld
<1>8. CASE HasValue
  <2>1. node[job.at].val # Null /\ node[job.at].bytes # 0
    BY <1>8 DEF HasValue
  <2>2. CopyOf(Source(Key)) = Slot(job.at)
    BY <1>6, <1>7, <2>1, CopyOfIs
  <2> QED
    BY <1>2, <1>5, <1>6, <1>8, <2>1, <2>2 DEF Slot
<1>9. CASE ~HasValue
  <2>1. Slot(job.at).count = 0 \/ Slot(job.at).bytes = 0
    BY <1>7, <1>9 DEF HasValue
  <2> QED
    BY <1>2, <1>5, <1>6, <1>9, <2>1, CopyOfIs
<1> QED
  BY <1>8, <1>9

\* The copy the merge makes, of value v with count n.
CopyWith(v, n) ==
  /\ v \in [val : Bufs \cup {Null}, bytes : {0, 1}, own : BOOLEAN]
  /\ NewValue(v, n) /\ CopyOf(Source(Key)) = [count |-> n, bytes |-> v.bytes]
  /\ Push(job.fills, Key, v)

LEMMA CopyIs ==
  ASSUME IInv, Copy
  PROVE  \E v, n : CopyWith(v, n)
<1>1. /\ job # NoJob /\ job.at \in CellsIn(node) /\ job.at \in Nodes /\ node[job.at].val \in Bufs \cup {Null}
      /\ node[job.at].bytes \in {0, 1}
      /\ node[job.at].val # Null => buf[node[job.at].val] \in 1..MaxCount /\ node[job.at].own
  BY AtIs DEF Copy
<1>2. CASE HasValue
  <2>1. /\ BufLeft /\ Push(job.fills, Key, Copied) /\ buf' = [buf EXCEPT ![NewBuf] = buf[node[job.at].val]]
    BY <1>2 DEF Copy
  <2>2. PICK b \in Bufs : b = NewBuf /\ buf[b] = 0
    BY <2>1, NewCell
  <2>3. PICK n \in 1..MaxCount : n = buf[node[job.at].val]
    BY <1>1, <1>2 DEF HasValue
  <2>4. node[job.at] \in Cell /\ node[job.at].own
    BY <1>1, <1>2, CellTyped DEF IInv, Lists, HasValue
  <2>5. node[job.at].own \in BOOLEAN
    BY <2>4 DEF Cell
  <2>6. /\ Copied \in [val : Bufs \cup {Null}, bytes : {0, 1}, own : BOOLEAN]
        /\ Copied.val = b /\ Copied.bytes = node[job.at].bytes
    BY <1>1, <2>2, <2>5 DEF Copied
  <2>7. Copied.own
    BY <2>4 DEF Copied
  <2>8. NewValue(Copied, n)
    BY <2>1, <2>2, <2>3, <2>6, <2>7 DEF NewValue
  <2>9. CopyOf(Source(Key)) = [count |-> n, bytes |-> Copied.bytes]
    BY <1>2, <2>3, <2>6, GapIs DEF Copy
  <2> QED
    BY <2>1, <2>6, <2>8, <2>9 DEF CopyWith
<1>3. CASE ~HasValue
  <2>1. Push(job.fills, Key, NoValue) /\ UNCHANGED buf
    BY <1>3 DEF Copy
  <2>2. /\ NoValue \in [val : Bufs \cup {Null}, bytes : {0, 1}, own : BOOLEAN]
        /\ NoValue.val = Null /\ NoValue.bytes = 0
    BY DEF NoValue
  <2>3. NewValue(NoValue, 0)
    BY <2>1, <2>2 DEF NewValue
  <2>4. CopyOf(Source(Key)) = [count |-> 0, bytes |-> NoValue.bytes]
    BY <1>3, <2>2, GapIs DEF Copy
  <2> QED
    BY <2>1, <2>2, <2>3, <2>4 DEF CopyWith
<1> QED
  BY <1>2, <1>3

LEMMA CopyRight ==
  ASSUME IInv, UNCHANGED use, Copy
  PROVE  IInv' /\ OneKey
<1>1. /\ Merging /\ Advance /\ Missing(job.fills, Key) /\ UNCHANGED <<live, answer>>
      /\ Lists /\ Values /\ job # NoJob /\ Key \in Keys
  BY AtIs DEF Copy, IInv
<1>2. PICK v, n : CopyWith(v, n)
  BY CopyIs
<1>3. PICK t \in live : t = job.fills
  BY <1>1, JobIs DEF IInv
<1>4. PICK key \in Keys : key = Key
  BY <1>1
<1>5. PICK c : c = CopyOf(Source(Key))
  OBVIOUS
<1>6. /\ Lists' /\ Values' /\ Puts(t, key, c)
      /\ \A m \in CellsIn(node) : m \in CellsIn(node') /\ node'[m].text = node[m].text
      /\ \A a \in CellsIn(node) \cup {Null} : Reach(node', a) = Reach(node, a)
  <2>1. c = [count |-> n, bytes |-> v.bytes]
    BY <1>2, <1>5 DEF CopyWith
  <2>2. /\ v \in [val : Bufs \cup {Null}, bytes : {0, 1}, own : BOOLEAN] /\ NewValue(v, n) /\ Push(t, key, v)
        /\ Missing(t, key)
    BY <1>1, <1>2, <1>3, <1>4 DEF CopyWith
  <2> QED
    BY <1>1, <2>1, <2>2, PushStep
<1>7. head'[job.from] = head[job.from]
  <2>1. /\ job.from # t /\ job.from \in Tables /\ DOMAIN head = Tables
        /\ head' = [head EXCEPT ![t][Bucket(t, key)] = NewNode]
    BY <1>1, <1>2, <1>3, <1>4, JobIs DEF IInv, Lists, Heads, CopyWith, Push, Tables
  <2> QED
    BY <2>1
<1>8. Walks
  BY <1>1, <1>6, <1>7 DEF Walks
<1>9. /\ JobRight' /\ job' # NoJob /\ job'.fills = job.fills /\ job'.was = job.was
      /\ \A k \in Keys : Given(k)' = Given(k) /\ Source(k)' = Source(k)
      /\ \A k \in Keys : k # key /\ Comes(k) => Comes(k)'
  BY <1>1, <1>4, <1>8, AdvanceIs
<1>10. t \in Tables
  BY <1>1 DEF Lists, Heads
<1>11. c # Null /\ Given(key) = Null
  <2>1. Source(Key) \in Held
    BY <1>1, AtIs
  <2> QED
    BY <1>1, <1>4, <1>5, <2>1, CopyOfIs, GapIs
<1>12. ProgressRight'
  <2>1. ASSUME NEW h \in Handles, h # job'.fills PROVE Contents(h)' = job'.was[h]
    BY <1>1, <1>3, <1>6, <1>9, <2>1 DEF IInv, ProgressRight, Puts, Tables
  <2>2. ASSUME NEW k \in Keys PROVE CopiedSoFar(t, k)'
    <3>1. CopiedSoFar(t, k)
      BY <1>1, <1>3, <1>10 DEF IInv, ProgressRight
    <3>2. Given(k)' = Given(k) /\ Source(k)' = Source(k)
      BY <1>9
    <3>3. CASE k = key
      <4>1. Contents(t)'[k] = CopyOf(Source(k)) /\ Given(k) = Null /\ Contents(t)'[k] # Null
        BY <1>4, <1>5, <1>6, <1>11, <3>3 DEF Puts
      <4> QED
        BY <3>2, <4>1 DEF CopiedSoFar
    <3>4. CASE k # key
      <4>1. Contents(t)'[k] = Contents(t)[k]
        BY <1>6, <3>4 DEF Puts
      <4> QED
        BY <1>9, <3>1, <3>2, <3>4, <4>1 DEF CopiedSoFar
    <3> QED
      BY <3>3, <3>4
  <2> QED
    BY <1>3, <1>9, <2>1, <2>2 DEF ProgressRight
<1>13. Outcome'
  BY <1>1, JobIs DEF Outcome, IInv
<1>14. OneKey
  BY <1>6, <1>10, PutsOneKey
<1> QED
  BY <1>6, <1>9, <1>12, <1>13, <1>14 DEF IInv

LEMMA AnswerIs ==
  ASSUME Lists, JobRight, job # NoJob, NEW ok \in BOOLEAN, Return(ok)
  PROVE  /\ job' = NoJob /\ answer' # NoJob
         /\ answer'.op = job.op /\ answer'.to = job.to /\ answer'.file = job.file /\ answer'.was = job.was
         /\ answer'.ok <=> ok
<1>1. job.op \in {"merge", "clone"}
  BY JobIs
<1>2. NoJob.op = "none"
  BY DEF NoJob
<1>3. /\ job' = NoJob
      /\ answer'.op = job.op /\ answer'.to = job.to /\ answer'.file = job.file /\ answer'.was = job.was
  BY DEF Return
<1>4. answer'.ok <=> ok
  BY DEF Return
<1> QED
  BY <1>1, <1>2, <1>3, <1>4

\* A merge that returns with t as it should be.
LEMMA ReturnEnds ==
  ASSUME Lists, JobRight, job # NoJob, NEW ok \in BOOLEAN, Return(ok), Lists', Values', Temp \notin live',
         \A t \in Handles : t = job.to => \A k \in Keys : Merged(t, k)'
  PROVE  IInv'
<1>1. job' = NoJob /\ answer' # NoJob /\ answer'.to = job.to /\ job.to \in Handles
  BY AnswerIs, JobIs
<1> QED
  BY <1>1 DEF IInv, JobRight, ProgressRight, Outcome

LEMMA MergeFailsRight ==
  ASSUME IInv, UNCHANGED use, MergeFails
  PROVE  IInv' /\ OneKey
<1>1. /\ Merging /\ job.op = "merge" /\ Missing(job.fills, Key) /\ UNCHANGED <<live, buf>> /\ Return(FALSE)
      /\ Lists /\ Values /\ JobRight /\ job # NoJob /\ Key \in Keys
  BY AtIs DEF MergeFails, IInv
<1>2. /\ job.fills = job.to /\ job.from = job.file /\ job.fills \in live /\ Temp \notin live /\ job.to \in Handles
  BY <1>1, JobIs
<1>3. PICK t \in live : t = job.fills
  BY <1>2
<1>4. t \in Tables /\ t \in Handles
  BY <1>1, <1>2, <1>3 DEF Lists, Heads
<1>5. PICK key \in Keys : key = Key
  BY <1>1
<1> DEFINE Null0 == [count |-> 0, bytes |-> 0]
<1>6. /\ Lists' /\ Values' /\ OneKey
      /\ \A k \in Keys : \/ Contents(t)'[k] = Contents(t)[k]
                         \/ k = key /\ Contents(t)'[k] = Null0
  <2>1. CASE UNCHANGED <<head, node>>
    <3>1. Lists' /\ Values' /\ \A h \in Tables : Contents(h)' = Contents(h)
      BY <1>1, <2>1, StillLists
    <3>2. OneKey
      BY <3>1, SameOneKey DEF Tables
    <3> QED
      BY <1>4, <3>1, <3>2
  <2>2. CASE Push(job.fills, Key, NoValue)
    <3>1. NoValue \in [val : Bufs \cup {Null}, bytes : {0, 1}, own : BOOLEAN] /\ NewValue(NoValue, 0)
      BY <1>1 DEF NoValue, NewValue
    <3>2. NoValue.bytes = 0
      BY DEF NoValue
    <3>3. Push(t, key, NoValue) /\ Missing(t, key)
      BY <1>1, <1>3, <1>5, <2>2
    <3>4. Lists' /\ Values' /\ Puts(t, key, Null0)
      BY <1>1, <3>1, <3>2, <3>3, PushStep
    <3>5. OneKey
      BY <1>4, <3>4, PutsOneKey
    <3> QED
      BY <3>4, <3>5 DEF Puts
  <2> QED
    BY <2>1, <2>2 DEF MergeFails
<1>7. /\ answer'.op = "merge" /\ answer'.to = t /\ answer'.file = job.from /\ answer'.was = job.was /\ ~answer'.ok
  BY <1>1, <1>2, <1>3, AnswerIs
<1>8. ASSUME NEW k \in Keys PROVE Merged(t, k)'
  <2>1. CopiedSoFar(t, k)
    BY <1>1, <1>3, <1>4 DEF IInv, ProgressRight
  <2>2. Given(k) = job.was[t][k] /\ Source(k) = job.was[job.from][k]
    BY <1>1, <1>2, <1>3 DEF Given, Source
  <2>3. Given(key) = Null
    BY <1>1, <1>5, GapIs
  <2>4. CopyOf([count |-> 0, bytes |-> 0]) = Null0
    BY DEF CopyOf
  <2>5. Merged(t, k)' <=> LET old == job.was[t][k]
                              new == job.was[job.from][k]
                              now == Contents(t)'[k]
                          IN  IF old # Null THEN now = old
                              ELSE now = CopyOf(new) \/ now \in {Null, CopyOf([count |-> 0, bytes |-> 0])}
    BY <1>7 DEF Merged
  <2>6. CASE Contents(t)'[k] = Contents(t)[k]
    BY <2>1, <2>2, <2>5, <2>6 DEF CopiedSoFar
  <2>7. CASE k = key /\ Contents(t)'[k] = Null0
    BY <2>2, <2>3, <2>4, <2>5, <2>7
  <2> QED
    BY <1>6, <2>6, <2>7
<1>9. IInv'
  BY <1>1, <1>2, <1>3, <1>6, <1>8, ReturnEnds
<1> QED
  BY <1>6, <1>9

LEMMA CloneFailsRight ==
  ASSUME IInv, UNCHANGED use, CloneFails
  PROVE  IInv' /\ OneKey
<1>1. /\ Merging /\ job.op = "clone" /\ Return(FALSE) /\ Release({Temp}) /\ Temp \in Tables /\ Temp \notin Handles
      /\ live' = live \ {Temp} /\ head' = [head EXCEPT ![Temp] = <<>>] /\ job # NoJob
      /\ Lists /\ Values /\ JobRight /\ live \subseteq Tables /\ DOMAIN head = Tables
      /\ \A h \in Tables \ live : head[h] = <<>>
  BY ChainAssumption DEF CloneFails, Discard, IInv, Lists, Heads, Tables, Merging
<1>2. job.fills = Temp /\ Temp \in live /\ job.to \in Handles \cap live
  BY <1>1, JobIs
<1> DEFINE from == [h \in live' |-> h]
<1>3. /\ live' \subseteq Tables /\ DOMAIN head' = Tables
      /\ from \in [live' -> live \ {Temp}] /\ \A h \in live' : from[h] = h
      /\ \A h \in live' : head'[h] = head[h]
      /\ \A h \in Tables \ live' : head'[h] = <<>>
  BY <1>1
<1> HIDE DEF from
<1>4. TakenOver(Temp, from)
  BY <1>1, <1>3 DEF TakenOver
<1>5. Lists' /\ Values' /\ \A h \in live' : Contents(h)' = Contents(h)
  BY <1>1, <1>2, <1>3, <1>4, ReleaseStep
<1>6. /\ answer'.op = "clone" /\ answer'.to = job.to /\ answer'.was = job.was /\ ~answer'.ok
  BY <1>1, AnswerIs
<1>7. ASSUME NEW t \in Handles, t = job.to, NEW k \in Keys PROVE Merged(t, k)'
  <2>1. Contents(t)' = Contents(t) /\ Contents(t) = job.was[t]
    BY <1>1, <1>2, <1>5, <1>7 DEF IInv, ProgressRight
  <2>2. Contents(t)'[k] = job.was[t][k]
    BY <2>1
  <2> QED
    BY <1>6, <2>2 DEF Merged
<1>8. IInv'
  BY <1>1, <1>5, <1>7, ReturnEnds
<1>9. OneKey
  BY <1>5, SameOneKey
<1> QED
  BY <1>8, <1>9

LEMMA NothingAhead ==
  ASSUME IInv, Walked, LastBucket, NEW k \in Keys
  PROVE  ~Comes(k)
<1>1. /\ Lists /\ job # NoJob /\ job.at = Null /\ job.bucket \in Nat /\ job.from \in live
  BY JobIs DEF IInv, Walked
<1>2. PICK n \in use.sizes : Buckets(job.from) = 0..(n-1) /\ Cardinality(Buckets(job.from)) = n /\ n \in Nat \ {0}
  BY <1>1, BucketsAre DEF Lists
<1>3. ~\E i \in DOMAIN head[job.from] : i > job.bucket
  BY <1>1, <1>2 DEF LastBucket, Buckets
<1>4. Reach(node, job.at) = {}
  BY <1>1, ReachClosed DEF Lists
<1> QED
  BY <1>3, <1>4 DEF Comes

\* What a table is filled with once a walk has ended.
LEMMA AllCopied ==
  ASSUME IInv, Walked, LastBucket, NEW t \in Tables, t = job.fills, NEW k \in Keys
  PROVE  Contents(t)[k] = IF Given(k) # Null THEN Given(k) ELSE CopyOf(Source(k))
<1>1. CopiedSoFar(t, k)
  BY DEF IInv, ProgressRight, Walked
<1>2. ~Comes(k)
  BY NothingAhead
<1> QED
  BY <1>1, <1>2, CopyOfIs DEF CopiedSoFar

LEMMA NextBucketRight ==
  ASSUME IInv, UNCHANGED use, NextBucket
  PROVE  IInv' /\ OneKey
<1>1. /\ job # NoJob /\ job.at = Null /\ ~LastBucket /\ UNCHANGED <<live, head, node, buf, answer>>
      /\ job' = [job EXCEPT !.bucket = job.bucket + 1, !.at = head[job.from][job.bucket + 1]]
      /\ Lists /\ Values /\ JobRight
  BY DEF NextBucket, Walked, IInv
<1>2. /\ job \in Jobs /\ job.bucket \in Nat /\ job.from \in Handles \cap live /\ job.bucket \in Buckets(job.from)
      /\ job.fills \in Tables
  BY <1>1, JobIs
<1>3. job.bucket + 1 \in Nat /\ job.bucket + 1 \in Buckets(job.from)
  <2>1. PICK n \in use.sizes : Buckets(job.from) = 0..(n-1) /\ Cardinality(Buckets(job.from)) = n /\ n \in Nat \ {0}
    BY <1>1, <1>2, BucketsAre DEF Lists
  <2> QED
    BY <1>1, <1>2, <2>1 DEF LastBucket
<1>4. PICK first \in CellsIn(node) \cup {Null} : first = head[job.from][job.bucket + 1]
  BY <1>1, <1>2, <1>3, BucketsAre DEF Lists
<1>5. first \in Nodes \cup {Null} /\ first \in Reach(node, first) \cup {Null}
  BY <1>1, <1>4, ReachClosed DEF CellsIn, Lists
<1>6. PICK b \in Nat : b = job.bucket + 1
  BY <1>3
<1>7. /\ job' \in Jobs /\ job' # NoJob
      /\ job'.op = job.op /\ job'.to = job.to /\ job'.file = job.file /\ job'.fills = job.fills
      /\ job'.was = job.was /\ job'.from = job.from /\ job'.bucket = b /\ job'.at = first
  <2>1. job' = [job EXCEPT !.bucket = b, !.at = first]
    BY <1>1, <1>4, <1>6
  <2> QED
    BY <1>2, <1>5, <2>1, JobKept
<1>8. Lists' /\ Values' /\ \A h \in Tables : Contents(h)' = Contents(h)
  BY <1>1, StillLists
<1>9. JobRight'
  BY <1>1, <1>3, <1>4, <1>5, <1>6, <1>7 DEF JobRight, Buckets
<1>10. ASSUME NEW k \in Keys, Comes(k) PROVE Comes(k)'
  <2>1. Reach(node, job.at) = {}
    BY <1>1, ReachClosed DEF Lists
  <2>2. PICK a \in CellsIn(node), i \in DOMAIN head[job.from] :
          node[a].text = k /\ i > job.bucket /\ a \in Reach(node, head[job.from][i])
    BY <1>10, <2>1 DEF Comes
  <2>3. i \in Nat
    BY <1>1, <1>2, <2>2, BucketsAre DEF Lists, Buckets
  <2>4. i = b \/ i > b
    BY <1>2, <1>6, <2>2, <2>3
  <2>5. CASE i = b
    <3>1. a \in Reach(node, first)
      BY <1>4, <1>6, <2>2, <2>5
    <3> QED
      BY <1>1, <1>7, <2>2, <3>1 DEF Comes
  <2>6. CASE i > b
    BY <1>1, <1>7, <2>2, <2>6 DEF Comes
  <2> QED
    BY <2>4, <2>5, <2>6
<1>11. ProgressRight'
  <2>1. ASSUME NEW h \in Handles, h # job'.fills PROVE Contents(h)' = job'.was[h]
    BY <1>1, <1>7, <1>8, <2>1 DEF IInv, ProgressRight, Tables
  <2>2. ASSUME NEW t \in Tables, t = job.fills, NEW k \in Keys PROVE CopiedSoFar(t, k)'
    <3>1. CopiedSoFar(t, k)
      BY <1>1, <2>2 DEF IInv, ProgressRight
    <3>2. Contents(t)'[k] = Contents(t)[k] /\ Given(k)' = Given(k) /\ Source(k)' = Source(k)
      BY <1>7, <1>8 DEF Given, Source, Cloned
    <3> QED
      BY <1>10, <3>1, <3>2 DEF CopiedSoFar
  <2> QED
    BY <1>7, <2>1, <2>2 DEF ProgressRight
<1>12. Outcome'
  BY <1>1, JobIs DEF Outcome, IInv
<1>13. OneKey
  BY <1>8, SameOneKey DEF Tables
<1> QED
  BY <1>8, <1>9, <1>11, <1>12, <1>13 DEF IInv

LEMMA CopyFileRight ==
  ASSUME IInv, UNCHANGED use, CopyFile
  PROVE  IInv' /\ OneKey
<1>1. /\ Walked /\ LastBucket /\ job # NoJob /\ job.op = "clone" /\ job.from = job.to
      /\ UNCHANGED <<live, head, node, buf, answer>>
      /\ job' = [job EXCEPT !.from = job.file, !.bucket = 0, !.at = head[job.file][0]]
      /\ Lists /\ Values /\ JobRight
  BY DEF CopyFile, Walked, Cloned, IInv
<1>2. /\ job \in Jobs /\ job.to # job.file /\ job.fills = Temp /\ job.fills \in Tables
  BY <1>1, JobIs
<1>3. PICK f \in Handles \cap live : f = job.file
  BY <1>1, JobIs
<1>4. PICK first \in CellsIn(node) \cup {Null} : first = head[f][0]
  BY <1>1, BucketsAre DEF Lists
<1>5. /\ first \in Nodes \cup {Null} /\ first \in Reach(node, first) \cup {Null} /\ 0 \in DOMAIN head[f]
  BY <1>1, <1>4, ReachClosed, BucketsAre DEF CellsIn, Lists, Buckets
<1>6. /\ job' \in Jobs /\ job' # NoJob
      /\ job'.op = job.op /\ job'.to = job.to /\ job'.file = job.file /\ job'.fills = job.fills
      /\ job'.was = job.was /\ job'.from = f /\ job'.bucket = 0 /\ job'.at = first
  <2>1. job' = [job EXCEPT !.from = f, !.bucket = 0, !.at = first]
    BY <1>1, <1>3, <1>4
  <2> QED
    BY <1>2, <1>5, <2>1, JobKept
<1>7. Lists' /\ Values' /\ \A h \in Tables : Contents(h)' = Contents(h)
  BY <1>1, StillLists
<1>8. JobRight'
  BY <1>1, <1>2, <1>3, <1>4, <1>5, <1>6 DEF JobRight
<1>9. ProgressRight'
  <2>1. ASSUME NEW h \in Handles, h # job'.fills PROVE Contents(h)' = job'.was[h]
    BY <1>1, <1>6, <1>7, <2>1 DEF IInv, ProgressRight, Tables
  <2>2. ASSUME NEW t \in Tables, t = job.fills, NEW k \in Keys PROVE CopiedSoFar(t, k)'
    <3>1. Contents(t)[k] = CopyOf(job.was[job.to][k])
      <4>1. Given(k) = Null /\ Source(k) = job.was[job.to][k]
        BY <1>1 DEF Given, Source, Cloned
      <4> QED
        BY <1>1, <2>2, <4>1, AllCopied
    <3>2. Given(k)' = CopyOf(job.was[job.to][k]) /\ Source(k)' = job.was[f][k]
      BY <1>1, <1>2, <1>3, <1>6 DEF Given, Source, Cloned
    <3>3. job.was[f] = Contents(f)
      BY <1>1, <1>2, <1>3, ChainAssumption DEF IInv, ProgressRight
    <3>4. Contents(f)[k] # Null => Comes(k)'
      BY <1>1, <1>4, <1>6, AllComes DEF Comes
    <3> QED
      BY <1>7, <3>1, <3>2, <3>3, <3>4 DEF CopiedSoFar
  <2> QED
    BY <1>6, <2>1, <2>2 DEF ProgressRight
<1>10. Outcome'
  BY <1>1, JobIs DEF Outcome, IInv
<1>11. OneKey
  BY <1>7, SameOneKey DEF Tables
<1> QED
  BY <1>7, <1>8, <1>9, <1>10, <1>11 DEF IInv

LEMMA MergeDoneRight ==
  ASSUME IInv, UNCHANGED use, MergeDone
  PROVE  IInv' /\ OneKey
<1>1. /\ Walked /\ LastBucket /\ job # NoJob /\ job.op = "merge" /\ Return(TRUE)
      /\ UNCHANGED <<live, head, node, buf>> /\ Lists /\ Values /\ JobRight
  BY DEF MergeDone, Walked, IInv
<1>2. job.fills = job.to /\ job.from = job.file /\ Temp \notin live /\ job.to \in Handles
  BY <1>1, JobIs
<1>3. Lists' /\ Values' /\ \A h \in Tables : Contents(h)' = Contents(h)
  BY <1>1, StillLists
<1>4. /\ answer'.op = "merge" /\ answer'.to = job.to /\ answer'.file = job.from /\ answer'.was = job.was /\ answer'.ok
  BY <1>1, <1>2, AnswerIs
<1>5. ASSUME NEW t \in Handles, t = job.to, NEW k \in Keys PROVE Merged(t, k)'
  <2>1. Given(k) = job.was[t][k] /\ Source(k) = job.was[job.from][k]
    BY <1>1, <1>5 DEF Given, Source
  <2>2. Contents(t)'[k] = IF Given(k) # Null THEN Given(k) ELSE CopyOf(Source(k))
    BY <1>1, <1>2, <1>3, <1>5, AllCopied DEF Tables
  <2> QED
    BY <1>4, <2>1, <2>2 DEF Merged
<1>6. IInv'
  BY <1>1, <1>2, <1>3, <1>5, ReturnEnds
<1>7. OneKey
  BY <1>3, SameOneKey DEF Tables
<1> QED
  BY <1>6, <1>7

LEMMA SwapRight ==
  ASSUME IInv, UNCHANGED use, Swap
  PROVE  IInv' /\ OneKey
<1>1. PICK t : t = job.to
  OBVIOUS
<1>2. /\ Walked /\ LastBucket /\ job # NoJob /\ job.op = "clone" /\ ~Cloned /\ Return(TRUE) /\ Release({t})
      /\ live' = live \ {Temp} /\ head' = [head EXCEPT ![t] = head[Temp], ![Temp] = <<>>]
      /\ Lists /\ Values /\ JobRight
  BY <1>1 DEF Swap, Walked, IInv
<1>3. /\ t \in Handles /\ t \in live /\ t # Temp /\ job.fills = Temp /\ Temp \in live /\ job.from = job.file
      /\ Temp \in Tables /\ t \in Tables /\ Temp \notin Handles /\ DOMAIN head = Tables
      /\ live \subseteq Tables /\ \A h \in Tables \ live : head[h] = <<>>
  BY <1>1, <1>2, JobIs, ChainAssumption DEF Tables, Cloned, Lists, Heads
<1> DEFINE from == [h \in live' |-> IF h = t THEN Temp ELSE h]
<1>4. /\ live' \subseteq Tables /\ DOMAIN head' = Tables
      /\ from \in [live' -> live \ {t}]
      /\ \A h \in live' : from[h] = IF h = t THEN Temp ELSE h
      /\ \A h \in live' : head'[h] = head[from[h]]
      /\ \A h \in Tables \ live' : head'[h] = <<>>
  BY <1>2, <1>3
<1> HIDE DEF from
<1>5. TakenOver(t, from)
  <2>1. \A g \in live \ {t} : \E h \in live' : from[h] = g
    BY <1>2, <1>3, <1>4
  <2>2. \A g, h \in live' : from[g] = from[h] => g = h
    BY <1>2, <1>3, <1>4
  <2> QED
    BY <1>4, <2>1, <2>2 DEF TakenOver
<1>6. Lists' /\ Values' /\ \A h \in live' : Contents(h)' = Contents(from[h])
  BY <1>2, <1>3, <1>5, ReleaseStep
<1>7. Contents(t)' = Contents(Temp) /\ \A h \in live' : h # t => Contents(h)' = Contents(h)
  BY <1>2, <1>3, <1>4, <1>6
<1>8. /\ answer'.op = "clone" /\ answer'.to = t /\ answer'.file = job.from /\ answer'.was = job.was /\ answer'.ok
  BY <1>1, <1>2, <1>3, AnswerIs
<1>9. ASSUME NEW k \in Keys PROVE Merged(t, k)'
  <2>1. Given(k) = CopyOf(job.was[t][k]) /\ Source(k) = job.was[job.from][k]
    BY <1>1, <1>2 DEF Given, Source
  <2>2. job.was[t][k] \in Held \cup {Null}
    BY <1>1, <1>2, SourceIs
  <2>3. Given(k) # Null <=> job.was[t][k] # Null
    BY <2>1, <2>2, CopyOfIs
  <2>4. Contents(t)'[k] = IF Given(k) # Null THEN Given(k) ELSE CopyOf(Source(k))
    BY <1>2, <1>3, <1>7, AllCopied
  <2> QED
    BY <1>8, <2>1, <2>3, <2>4 DEF Merged
<1>10. IInv'
  BY <1>1, <1>2, <1>6, <1>9, ReturnEnds
<1>11. OneKey
  <2>1. KeptBut({t} \X Keys)
    <3>1. ASSUME NEW h \in live \cap live' \cap Handles, NEW k \in Keys, <<h, k>> \notin {t} \X Keys
          PROVE  Contents(h)'[k] = Contents(h)[k]
      BY <1>7, <3>1
    <3> QED
      BY <3>1 DEF KeptBut
  <2>2. Changed \subseteq {t} \X Keys
    BY <2>1, ChangedIs
  <2>3. \A c \in Changed : c[1] = job.to
    BY <1>1, <2>2
  <2> QED
    BY <1>2, <2>3 DEF OneKey
<1> QED
  BY <1>10, <1>11

LEMMA StutterRight ==
  ASSUME IInv, UNCHANGED vars
  PROVE  IInv'
<1>1. UNCHANGED <<use, live, head, node, buf, job, answer>>
  BY DEF vars
<1>2. Lists' /\ Values' /\ \A h \in Tables : Contents(h)' = Contents(h)
  BY <1>1, StillLists DEF IInv
<1>3. JobRight'
  BY <1>1 DEF IInv, JobRight
<1>4. ProgressRight'
  <2>1. ASSUME NEW t \in Tables, job # NoJob, t = job.fills, NEW k \in Keys PROVE CopiedSoFar(t, k)'
    <3>1. CopiedSoFar(t, k)
      BY <2>1 DEF IInv, ProgressRight
    <3>2. Comes(k)' <=> Comes(k)
      BY <1>1 DEF Comes
    <3>3. Contents(t)'[k] = Contents(t)[k] /\ Given(k)' = Given(k) /\ Source(k)' = Source(k)
      BY <1>1, <1>2 DEF Given, Source, Cloned
    <3> QED
      BY <3>1, <3>2, <3>3 DEF CopiedSoFar
  <2>2. ASSUME NEW h \in Handles, job # NoJob, h # job.fills PROVE Contents(h)' = job.was[h]
    BY <1>2, <2>2 DEF IInv, ProgressRight, Tables
  <2> QED
    BY <1>1, <2>1, <2>2 DEF ProgressRight
<1>5. Outcome'
  <2>1. ASSUME NEW t \in Handles, answer # NoJob, t = answer.to, NEW k \in Keys PROVE Merged(t, k)'
    <3>1. Merged(t, k)
      BY <2>1 DEF IInv, Outcome
    <3>2. Contents(t)'[k] = Contents(t)[k]
      BY <1>2 DEF Tables
    <3> QED
      BY <1>1, <3>1, <3>2 DEF Merged
  <2> QED
    BY <1>1, <2>1 DEF IInv, Outcome
<1> QED
  BY <1>2, <1>3, <1>4, <1>5 DEF IInv

LEMMA InitRight == Init => IInv
<1> SUFFICES ASSUME Init PROVE IInv
  OBVIOUS
<1>1. /\ use \in Uses /\ live = {} /\ head = [h \in Tables |-> <<>>] /\ job = NoJob /\ answer = NoJob
      /\ node = [a \in Nodes |-> Null] /\ buf = [b \in Bufs |-> 0]
  BY DEF Init
<1>2. CellsIn(node) = {}
  BY <1>1 DEF CellsIn
<1>3. Lists
  BY <1>1, <1>2 DEF Lists, Links, Heads, Placed
<1>4. Values
  <2>1. 0 \in 0..MaxCount
    BY ChainAssumption
  <2> QED
    BY <1>1, <1>2, <2>1 DEF Values
<1>5. JobRight
  BY <1>1 DEF JobRight
<1> QED
  BY <1>1, <1>3, <1>4, <1>5 DEF IInv, ProgressRight, Outcome

LEMMA NextRight ==
  ASSUME IInv, [Next]_vars
  PROVE  IInv' /\ [OneKey]_vars
<1>1. CASE UNCHANGED vars
  BY <1>1, StutterRight
<1>2. CASE Next
  <2> SUFFICES ASSUME Step, UNCHANGED use PROVE IInv' /\ OneKey
    BY <1>2 DEF Next
  <2>1. CASE Skip
    BY <2>1, SkipRight
  <2>2. CASE Copy
    BY <2>2, CopyRight
  <2>3. CASE MergeFails
    BY <2>3, MergeFailsRight
  <2>4. CASE CloneFails
    BY <2>4, CloneFailsRight
  <2>5. CASE NextBucket
    BY <2>5, NextBucketRight
  <2>6. CASE CopyFile
    BY <2>6, CopyFileRight
  <2>7. CASE MergeDone
    BY <2>7, MergeDoneRight
  <2>8. CASE Swap
    BY <2>8, SwapRight
  <2>9. ASSUME NEW h \in use.tables, New(h) PROVE IInv' /\ OneKey
    BY <2>9, NewRight
  <2>10. ASSUME NEW h \in use.tables, Cleanup(h) PROVE IInv' /\ OneKey
    BY <2>10, CleanupRight
  <2>11. ASSUME NEW h \in use.tables, NEW k \in use.keys, Insert(h, k) PROVE IInv' /\ OneKey
    BY <2>11, InsertRight
  <2>12. ASSUME NEW h \in use.tables, NEW k \in use.keys, SetValue(h, k) PROVE IInv' /\ OneKey
    BY <2>12, SetValueRight
  <2>13. ASSUME NEW h \in use.tables, NEW k \in use.keys, Remove(h, k) PROVE IInv' /\ OneKey
    BY <2>13, RemoveRight
  <2>14. ASSUME NEW h \in use.tables, NEW k \in use.keys, NEW bytes \in SetBytes, Set(h, k, bytes)
         PROVE  IInv' /\ OneKey
    BY <2>14, SetRight
  <2>15. ASSUME NEW h \in use.tables, NEW f \in use.tables \ {h}, StartMerge(h, f) PROVE IInv' /\ OneKey
    BY <2>15, StartMergeRight
  <2>16. ASSUME NEW h \in use.tables, NEW f \in use.tables \ {h}, StartCloneMerge(h, f) PROVE IInv' /\ OneKey
    BY <2>16, StartCloneMergeRight
  <2> QED
    BY <2>1, <2>2, <2>3, <2>4, <2>5, <2>6, <2>7, <2>8, <2>9, <2>10, <2>11, <2>12, <2>13, <2>14, <2>15, <2>16
    DEF Step
<1> QED
  BY <1>1, <1>2

LEMMA AlwaysIInv == Spec => []IInv
<1>1. IInv /\ [Next]_vars => IInv'
  BY NextRight
<1> QED
  BY <1>1, InitRight, PTL DEF Spec

-----------------------------------------------------------------------------
(***************************************************************************)
(* What the invariant says.                                                *)
(***************************************************************************)
LEMMA TypeRight == IInv => TypeOK
<1> SUFFICES ASSUME IInv PROVE TypeOK
  OBVIOUS
<1>1. Cells = CellsIn(node) /\ Lists /\ JobRight /\ Values
  BY ChainIs DEF IInv
<1>2. /\ use \in Uses /\ live \subseteq Tables /\ DOMAIN head = Tables
      /\ node \in [Nodes -> Cell \cup {Null}] /\ buf \in [Bufs -> 0..MaxCount]
      /\ \A h \in Tables \ live : head[h] = <<>>
      /\ \A h \in live : \E n \in use.sizes : head[h] \in [0..(n-1) -> Cells \cup {Null}]
  BY <1>1 DEF Lists, Links, Heads, Values
<1>3. ASSUME job # NoJob
      PROVE  job.bucket \in Buckets(job.from) /\ job.at \in Chain(job.from, job.bucket) \cup {Null}
  BY <1>1, <1>3, JobIs, ChainIs
<1> QED
  BY <1>1, <1>2, <1>3 DEF TypeOK, JobRight

LEMMA ChainsRight == IInv => Chains
<1> SUFFICES ASSUME IInv PROVE Chains
  OBVIOUS
<1>1. /\ Lists /\ Links(node) /\ Heads /\ Placed /\ Cells = CellsIn(node) /\ live \subseteq Tables
      /\ \A h \in live : \A i \in Buckets(h) : Chain(h, i) = At(h, i) /\ At(h, i) \subseteq Inside(h)
      /\ \A h \in Tables : In(h) = Inside(h)
  BY ChainIs, InsideIs DEF IInv, Lists, Heads
<1>2. \A a \in Cells :
       /\ node[a].next # Null => node[a].next \in Cells /\ node[node[a].next].prev = a
       /\ node[a].prev # Null => node[a].prev \in Cells /\ node[node[a].prev].next = a
  BY <1>1 DEF Links
<1>3. ASSUME NEW h \in live, NEW i \in Buckets(h)
      PROVE  /\ head[h][i] # Null => node[head[h][i]].prev = Null
             /\ \A a \in Chain(h, i) : /\ Bucket(h, node[a].text) = i
                                       /\ \A b \in Chain(h, i) : node[b].text = node[a].text => a = b
  BY <1>1 DEF Heads, Placed
<1>4. \A g, h \in live : g # h => In(g) \cap In(h) = {}
  BY <1>1 DEF Placed
<1> QED
  BY <1>2, <1>3, <1>4 DEF Chains

LEMMA NoLeakRight == IInv => NoLeak
<1> SUFFICES ASSUME IInv PROVE NoLeak
  OBVIOUS
<1>1. /\ Lists /\ Placed /\ Values /\ Cells = CellsIn(node) /\ live \subseteq Tables
      /\ \A h \in Tables : In(h) = Inside(h)
  BY ChainIs DEF IInv, Lists, Heads
<1>2. Cells = UNION {In(h) : h \in live}
  <2>1. \A h \in live : In(h) = Inside(h)
    BY <1>1
  <2>2. CellsIn(node) = UNION {Inside(h) : h \in live}
    BY <1>1 DEF Placed
  <2> QED
    BY <1>1, <2>1, <2>2
<1>3. ASSUME NEW b \in Bufs
      PROVE  LET users == {a \in Cells : node[a].val = b}
             IN  IF buf[b] = 0 THEN users = {}
                 ELSE Cardinality(users) = 1 /\ \A a \in users : node[a].own
  <2> DEFINE users == {a \in Cells : node[a].val = b}
  <2>0. b # Null
    BY NullOutside
  <2>1. CASE buf[b] = 0
    <3>1. users = {}
      BY <1>1, <2>0, <2>1 DEF Values
    <3> QED
      BY <2>1, <3>1
  <2>2. CASE buf[b] # 0
    <3>1. PICK a \in Cells : node[a].val = b
      BY <1>1, <2>2 DEF Values
    <3>2. users = {a}
      BY <1>1, <2>0, <3>1 DEF Values
    <3>3. Cardinality(users) = 1
      BY <3>2, FS_Singleton
    <3>4. \A m \in users : node[m].own
      BY <1>1, <2>0 DEF Values
    <3> QED
      BY <2>2, <3>3, <3>4
  <2> QED
    BY <2>1, <2>2
<1> QED
  BY <1>2, <1>3 DEF NoLeak

LEMMA OutcomeRight == IInv => MergeRight /\ CloneMergeAtomic
<1> SUFFICES ASSUME IInv, answer # NoJob PROVE MergeRight /\ CloneMergeAtomic
  BY DEF MergeRight, CloneMergeAtomic
<1>1. PICK t \in Handles : t = answer.to
  BY DEF IInv, Outcome
<1>2. \A k \in Keys : Merged(t, k)
  BY <1>1 DEF IInv, Outcome
<1>3. MergeRight
  BY <1>1, <1>2 DEF Merged, MergeRight
<1>4. ASSUME answer.op = "clone" PROVE CloneMergeAtomic
  BY <1>1, <1>2, <1>4 DEF Merged, CloneMergeAtomic
<1> QED
  BY <1>3, <1>4 DEF CloneMergeAtomic

LEMMA ProgressIs == IInv => MergeProgress
<1> SUFFICES ASSUME IInv, job # NoJob PROVE MergeProgress
  BY DEF MergeProgress
<1>1. /\ Lists /\ JobRight /\ Cells = CellsIn(node) /\ job.fills \in Tables /\ job.from \in live
      /\ job.at \in CellsIn(node) \cup {Null}
      /\ \A i \in Buckets(job.from) : Chain(job.from, i) = At(job.from, i)
  BY JobIs, ChainIs DEF IInv
<1>2. PICK t \in Tables : t = job.fills
  BY <1>1
<1>3. \A h \in Handles \ {job.fills} : Contents(h) = job.was[h]
  BY DEF IInv, ProgressRight
<1>4. ASSUME NEW k \in Keys, Comes(k) PROVE k \in Ahead
  <2> DEFINE later == {i \in Buckets(job.from) : i > job.bucket}
             nodes == Trail[job.at] \cup UNION {Chain(job.from, i) : i \in later}
  <2>1. PICK a \in CellsIn(node) :
          /\ node[a].text = k
          /\ \/ a \in Reach(node, job.at)
             \/ \E i \in DOMAIN head[job.from] : i > job.bucket /\ a \in Reach(node, head[job.from][i])
    BY <1>4 DEF Comes
  <2>2. ASSUME a \in Reach(node, job.at) PROVE a \in nodes
    <3>1. Trail[job.at] = Reach(node, job.at)
      BY <1>1, TrailIs
    <3> QED
      BY <2>2, <3>1
  <2>3. ASSUME NEW i \in DOMAIN head[job.from], i > job.bucket, a \in Reach(node, head[job.from][i])
        PROVE  a \in nodes
    <3>1. i \in later /\ a \in Chain(job.from, i)
      BY <1>1, <2>3 DEF Buckets, At
    <3> QED
      BY <3>1
  <2>4. a \in nodes
    BY <2>1, <2>2, <2>3
  <2>5. Ahead = {node[m].text : m \in nodes}
    BY DEF Ahead
  <2> HIDE DEF nodes
  <2> QED
    BY <2>1, <2>4, <2>5
<1>5. ASSUME NEW k \in Keys
      PROVE  LET source == job.was[job.from]
                 now == Contents(job.fills)
             IN  IF Given(k) # Null THEN now[k] = Given(k)
                 ELSE /\ now[k] \in {Null, CopyOf(source[k])}
                      /\ now[k] = Null /\ source[k] # Null => k \in Ahead
  <2>1. CopiedSoFar(t, k)
    BY <1>2 DEF IInv, ProgressRight
  <2> QED
    BY <1>2, <1>4, <2>1 DEF CopiedSoFar, Source
<1> QED
  BY <1>3, <1>5 DEF MergeProgress

\* The hash table stays sound whatever sequence of calls a program makes, and wherever an
\* allocation fails: its lists are well linked, each key is in its bucket once, no two tables
\* share a node, and no node or buffer leaks or is released twice (hash_insert, hash_set,
\* hash_remove, hash_merge, hash_clone_merge and hash_cleanup of hashtable.c).
THEOREM TablesSound == Spec => []TablesInv
<1>1. IInv => TablesInv
  BY TypeRight, ChainsRight, NoLeakRight DEF TablesInv
<1> QED
  BY <1>1, AlwaysIInv, PTL

\* A merge keeps what the table had and adds what it lacked; hash_clone_merge does all of it
\* or nothing; and at every point in between, no table but the one being filled has changed
\* and no key that was walked past is missing.
THEOREM MergesSound == Spec => []MergesRight
<1>1. IInv => MergesRight
  BY OutcomeRight, ProgressIs DEF MergesRight
<1> QED
  BY <1>1, AlwaysIInv, PTL

\* No call changes what the tables have for a key that it is not about.
THEOREM OthersStay == Spec => OthersKeep
<1>1. IInv /\ [Next]_vars => [OneKey]_vars
  BY NextRight
<1> QED
  BY <1>1, AlwaysIInv, PTL DEF Spec, OthersKeep
=============================================================================
