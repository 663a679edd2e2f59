---------------------------- MODULE OAHashProofs -----------------------------
(***************************************************************************)
(* Proofs about OAHash for any finite set of keys, any hash codes, any     *)
(* values and any initial sizes.                                           *)
(***************************************************************************)
EXTENDS OAHash, FiniteSetTheorems, WellFoundedInduction, TLAPS

-----------------------------------------------------------------------------
(***************************************************************************)
(* Probing.                                                                *)
(***************************************************************************)
LEMMA Least ==
  ASSUME NEW P, P \subseteq Nat, P # {}
  PROVE  \E p \in P : \A q \in P : p <= q
<1> DEFINE R == OpToRel(<, Nat)
<1>1. IsWellFoundedOn(R, Nat)
  BY NatLessThanWellFounded
<1>2. \A x, y \in Nat : <<x, y>> \in R <=> x < y
  BY DEF OpToRel
<1> HIDE DEF R
<1>3. PICK p \in P : \A q \in P : ~(<<q, p>> \in R)
  BY <1>1, WFMin
<1>4. ASSUME NEW q \in P PROVE p <= q
  <2>1. p \in Nat /\ q \in Nat /\ ~(q < p)
    BY <1>2, <1>3
  <2> QED
    BY <2>1
<1> QED
  BY <1>4

LEMMA ModRange ==
  ASSUME NEW c \in Nat, NEW n \in Nat \ {0}
  PROVE  c % n \in 0..(n-1)
OBVIOUS

LEMMA HashRange ==
  ASSUME NEW k \in Keys, size \in Nat \ {0}
  PROVE  Hash(k, size) \in Indices
BY ModRange, HashAssumption DEF Hash, Indices

\* Probing stays inside the table and reaches every slot of it.
LEMMA AtRange ==
  ASSUME NEW k \in Keys, size \in Nat \ {0}
  PROVE  /\ \A p \in Indices : At(k, p) \in Indices
         /\ \A i \in Indices : \E p \in Indices : At(k, p) = i
<1>1. Hash(k, size) \in Indices
  BY HashRange
<1>2. ASSUME NEW i \in Indices PROVE \E p \in Indices : At(k, p) = i
  <2>1. CASE i >= Hash(k, size)
    <3>1. i - Hash(k, size) \in Indices /\ At(k, i - Hash(k, size)) = i
      BY <1>1, <2>1 DEF Indices, At
    <3> QED
      BY <3>1
  <2>2. CASE i < Hash(k, size)
    <3>1. /\ i - Hash(k, size) + size \in Indices
          /\ At(k, i - Hash(k, size) + size) = i
      BY <1>1, <2>2 DEF Indices, At
    <3> QED
      BY <3>1
  <2> QED
    BY <1>1, <2>1, <2>2 DEF Indices
<1> QED
  BY <1>1, <1>2 DEF Indices, At

\* The first probe with a property, if there is a probe with it.
LEMMA FirstProbe ==
  ASSUME NEW P, P \subseteq Indices, P # {}, size \in Nat
  PROVE  \E p \in P : \A q \in 0..(p-1) : q \notin P
<1>1. P \subseteq Nat
  BY DEF Indices
<1>2. PICK p \in P : \A q \in P : p <= q
  BY <1>1, Least
<1>3. ASSUME NEW q \in 0..(p-1) PROVE q \notin P
  BY <1>1, <1>2
<1> QED
  BY <1>3

\* hash_find_slot finds a key that is in some slot, and that slot.
LEMMA FindsPresent ==
  ASSUME HashInv, NEW i \in Indices, Occupied(i)
  PROVE  Found(key[i], i)
<1> DEFINE k == key[i]
<1>1. k \in Keys /\ k # Empty /\ size \in Nat \ {0}
  BY DEF HashInv, TypeOK, Occupied, Indices
<1>2. PICK p \in Indices : i = At(k, p) /\ \A q \in 0..(p-1) : key[At(k, q)] # Empty
  BY DEF HashInv, Reachable
<1> DEFINE P == {q \in Indices : key[At(k, q)] = k}
<1>3. P # {} /\ P \subseteq Indices
  BY <1>2
<1>4. PICK m \in P : \A q \in 0..(m-1) : q \notin P
  BY <1>1, <1>3, FirstProbe
<1>5. At(k, m) \in Indices /\ key[At(k, m)] = k
  BY <1>1, <1>4, AtRange
<1>6. At(k, m) = i
  BY <1>1, <1>5 DEF HashInv, NoDuplicates, Occupied
<1>7. m <= p
  <2>1. p \in P
    BY <1>2
  <2> QED
    BY <1>1, <1>3, <1>4, <2>1 DEF Indices
<1>8. \A q \in 0..(m-1) : key[At(k, q)] \notin {Empty, k}
  <2>1. ASSUME NEW q \in 0..(m-1) PROVE key[At(k, q)] \notin {Empty, k}
    <3>1. q \in 0..(p-1) /\ q \in Indices
      BY <1>1, <1>3, <1>7 DEF Indices
    <3> QED
      BY <1>2, <1>4, <3>1
  <2> QED
    BY <2>1
<1> QED
  BY <1>3, <1>4, <1>6, <1>8 DEF Found

\* If the search ends without the key, the key is in no slot.
LEMMA AbsentIfNotFound ==
  ASSUME HashInv, NEW k \in Keys, NotFound(k)
  PROVE  \A i \in Indices : key[i] # k
<1>1. k # Empty /\ k # Tomb
  BY HashAssumption
<1> QED
  BY <1>1, FindsPresent DEF NotFound, Occupied

-----------------------------------------------------------------------------
(***************************************************************************)
(* Room: there is a free slot whenever hash_insert needs one.              *)
(***************************************************************************)
OccupiedSlots == {i \in Indices : Occupied(i)}
TombSlots == {i \in Indices : key[i] = Tomb}

LEMMA SlotCount ==
  ASSUME NEW n \in Nat, NEW S, S \subseteq 0..(n-1)
  PROVE  Cardinality(S) \in Nat
<1>1. IsFiniteSet(0..(n-1))
  BY FS_Interval
<1>2. S \in SUBSET (0..(n-1))
  OBVIOUS
<1> QED
  BY <1>1, <1>2, FS_Subset, FS_CardinalityType

LEMMA Finite ==
  ASSUME size \in Nat
  PROVE  /\ IsFiniteSet(Indices) /\ Cardinality(Indices) = size
         /\ IsFiniteSet(OccupiedSlots) /\ IsFiniteSet(TombSlots)
         /\ Cardinality(OccupiedSlots) \in Nat /\ Cardinality(TombSlots) \in Nat
<1>1. IsFiniteSet(Indices) /\ Cardinality(Indices) = size
  BY FS_Interval DEF Indices
<1>2. OccupiedSlots \in SUBSET Indices /\ TombSlots \in SUBSET Indices
  BY DEF OccupiedSlots, TombSlots
<1>3. IsFiniteSet(OccupiedSlots) /\ IsFiniteSet(TombSlots)
  BY <1>1, <1>2, FS_Subset
<1> QED
  BY <1>1, <1>3, FS_CardinalityType

\* Fewer occupied slots than slots: some slot is not occupied.
LEMMA FreeSlot ==
  ASSUME size \in Nat, Cardinality(OccupiedSlots) < size
  PROVE  \E i \in Indices : ~Occupied(i)
<1>1. OccupiedSlots # Indices
  BY Finite
<1> QED
  BY <1>1 DEF OccupiedSlots

LEMMA FirstFreeExists ==
  ASSUME TypeOK, NEW k \in Keys, \E i \in Indices : ~Occupied(i)
  PROVE  \E i \in Indices : FirstFree(k, i)
<1>1. size \in Nat \ {0}
  BY DEF TypeOK, Indices
<1> DEFINE P == {p \in Indices : ~Occupied(At(k, p))}
<1>2. P # {} /\ P \subseteq Indices
  BY <1>1, AtRange
<1>3. PICK p \in P : \A q \in 0..(p-1) : q \notin P
  BY <1>1, <1>2, FirstProbe
<1>4. \A q \in 0..(p-1) : q \in Indices
  BY <1>1, <1>2 DEF Indices
<1>5. At(k, p) \in Indices
  BY <1>1, <1>2, AtRange
<1> QED
  BY <1>2, <1>3, <1>4, <1>5 DEF FirstFree

LEMMA FirstEmptyExists ==
  ASSUME TypeOK, NEW k \in Keys, \E i \in Indices : key[i] = Empty
  PROVE  \E i \in Indices : FirstEmpty(k, i)
<1>1. size \in Nat \ {0}
  BY DEF TypeOK, Indices
<1> DEFINE P == {p \in Indices : key[At(k, p)] = Empty}
<1>2. P # {} /\ P \subseteq Indices
  BY <1>1, AtRange
<1>3. PICK p \in P : \A q \in 0..(p-1) : q \notin P
  BY <1>1, <1>2, FirstProbe
<1>4. \A q \in 0..(p-1) : q \in Indices
  BY <1>1, <1>2 DEF Indices
<1>5. At(k, p) \in Indices
  BY <1>1, <1>2, AtRange
<1> QED
  BY <1>2, <1>3, <1>4, <1>5 DEF FirstEmpty

-----------------------------------------------------------------------------
(***************************************************************************)
(* What the steps do to the slots.                                         *)
(***************************************************************************)
\* Nothing but values and owners changes.
LEMMA Frame ==
  ASSUME HashInv, UNCHANGED <<pc, size, key, count, deleted, old, req>>
  PROVE  Reachable' /\ NoDuplicates' /\ Counted'
BY DEF HashInv, old, Reachable, NoDuplicates, Counted, Waiting, Occupied, Indices, At, Hash

\* A key that no slot holds is put where its probing leads.
LEMMA Fill ==
  ASSUME TypeOK, Reachable, UNCHANGED size,
         \A i, j \in Indices : Occupied(i) /\ key[i] = key[j] => i = j,
         NEW n \in Indices, ~Occupied(n), NEW x \in Keys, \A i \in Indices : key[i] # x,
         key' = [key EXCEPT ![n] = x],
         \E p \in Indices : n = At(x, p) /\ \A q \in 0..(p-1) : key[At(x, q)] # Empty
  PROVE  /\ Reachable'
         /\ \A i, j \in Indices : Occupied(i)' /\ key'[i] = key'[j] => i = j
         /\ Cardinality(OccupiedSlots') = Cardinality(OccupiedSlots) + 1
         /\ Cardinality(TombSlots') = IF key[n] = Tomb THEN Cardinality(TombSlots) - 1
                                      ELSE Cardinality(TombSlots)
<1>1. x # Empty /\ x # Tomb
  BY HashAssumption
<1>2. /\ key'[n] = x /\ Indices' = Indices
      /\ \A i \in Indices : i # n => key'[i] = key[i]
      /\ \A k, p : At(k, p)' = At(k, p)
  BY DEF TypeOK, Indices, At, Hash
<1>3. /\ Occupied(n)'
      /\ \A i \in Indices : i # n => (Occupied(i)' <=> Occupied(i))
  BY <1>1, <1>2 DEF Occupied
<1>4. ASSUME NEW k, NEW q, key[At(k, q)] # Empty PROVE key'[At(k, q)] # Empty
  <2>1. CASE At(k, q) = n
    BY <1>1, <1>2, <2>1
  <2>2. CASE At(k, q) # n
    BY <1>4, <2>2 DEF TypeOK
  <2> QED
    BY <2>1, <2>2
<1>5. Reachable'
  <2>1. ASSUME NEW i \in Indices, Occupied(i)'
        PROVE  \E p \in Indices : /\ i = At(key'[i], p)
                                  /\ \A q \in 0..(p-1) : key'[At(key'[i], q)] # Empty
    <3>1. CASE i = n
      BY <1>2, <1>4, <3>1
    <3>2. CASE i # n
      <4>1. Occupied(i) /\ key'[i] = key[i]
        BY <1>2, <1>3, <2>1, <3>2
      <4>2. PICK p \in Indices : i = At(key[i], p) /\ \A q \in 0..(p-1) : key[At(key[i], q)] # Empty
        BY <4>1 DEF Reachable
      <4> QED
        BY <1>4, <4>1, <4>2
    <3> QED
      BY <3>1, <3>2
  <2> QED
    BY <1>2, <2>1 DEF Reachable
<1>6. \A i, j \in Indices : Occupied(i)' /\ key'[i] = key'[j] => i = j
  BY <1>2, <1>3
<1>7. /\ OccupiedSlots' = OccupiedSlots \cup {n} /\ n \notin OccupiedSlots
      /\ TombSlots' = TombSlots \ {n} /\ (n \in TombSlots <=> key[n] = Tomb)
  BY <1>1, <1>2, <1>3 DEF OccupiedSlots, TombSlots
<1>8. IsFiniteSet(OccupiedSlots) /\ IsFiniteSet(TombSlots)
  BY Finite DEF TypeOK
<1>9. /\ Cardinality(OccupiedSlots') = Cardinality(OccupiedSlots) + 1
      /\ Cardinality(TombSlots') = IF key[n] = Tomb THEN Cardinality(TombSlots) - 1
                                   ELSE Cardinality(TombSlots)
  BY <1>7, <1>8, FS_AddElement, FS_RemoveElement
<1> QED
  BY <1>5, <1>6, <1>9

\* A key is removed and its slot becomes a tombstone.
LEMMA Bury ==
  ASSUME TypeOK, Reachable, UNCHANGED size,
         NEW n \in Indices, Occupied(n), key' = [key EXCEPT ![n] = Tomb]
  PROVE  /\ Reachable'
         /\ Cardinality(OccupiedSlots') = Cardinality(OccupiedSlots) - 1
         /\ Cardinality(TombSlots') = Cardinality(TombSlots) + 1
<1>1. Tomb # Empty
  BY HashAssumption
<1>2. /\ key'[n] = Tomb /\ Indices' = Indices
      /\ \A i \in Indices : i # n => key'[i] = key[i]
      /\ \A k, p : At(k, p)' = At(k, p)
  BY DEF TypeOK, Indices, At, Hash
<1>3. /\ ~Occupied(n)'
      /\ \A i \in Indices : i # n => (Occupied(i)' <=> Occupied(i))
  BY <1>1, <1>2 DEF Occupied
<1>4. ASSUME NEW k, NEW q, key[At(k, q)] # Empty PROVE key'[At(k, q)] # Empty
  <2>1. CASE At(k, q) = n
    BY <1>1, <1>2, <2>1
  <2>2. CASE At(k, q) # n
    BY <1>4, <2>2 DEF TypeOK
  <2> QED
    BY <2>1, <2>2
<1>5. Reachable'
  <2>1. ASSUME NEW i \in Indices, Occupied(i)'
        PROVE  \E p \in Indices : /\ i = At(key'[i], p)
                                  /\ \A q \in 0..(p-1) : key'[At(key'[i], q)] # Empty
    <3>1. Occupied(i) /\ key'[i] = key[i]
      BY <1>2, <1>3, <2>1
    <3>2. PICK p \in Indices : i = At(key[i], p) /\ \A q \in 0..(p-1) : key[At(key[i], q)] # Empty
      BY <3>1 DEF Reachable
    <3> QED
      BY <1>4, <3>1, <3>2
  <2> QED
    BY <1>2, <2>1 DEF Reachable
<1>6. /\ OccupiedSlots' = OccupiedSlots \ {n} /\ n \in OccupiedSlots
      /\ TombSlots' = TombSlots \cup {n} /\ n \notin TombSlots
  BY <1>1, <1>2, <1>3 DEF OccupiedSlots, TombSlots, Occupied
<1>7. IsFiniteSet(OccupiedSlots) /\ IsFiniteSet(TombSlots)
  BY Finite DEF TypeOK
<1> QED
  BY <1>5, <1>6, <1>7, FS_AddElement, FS_RemoveElement

-----------------------------------------------------------------------------
(***************************************************************************)
(* The inductive invariant.                                                *)
(***************************************************************************)
LEMMA InitInv == Init => HashInv
<1> SUFFICES ASSUME Init PROVE HashInv
  OBVIOUS
<1>1. size \in Nat \ {0}
  BY HashAssumption DEF Init
<1>2. \A i \in Indices : key[i] = Empty
  BY DEF Init, Blank, Indices
<1>3. TypeOK
  BY <1>1 DEF Init, TypeOK, Blank, Indices, NoReq
<1>4. OccupiedSlots = {} /\ TombSlots = {}
  BY <1>2, HashAssumption DEF OccupiedSlots, TombSlots, Occupied
<1>5. Cardinality(OccupiedSlots) = 0 /\ Cardinality(TombSlots) = 0
  BY <1>4, FS_EmptySet
<1>6. Reachable /\ NoDuplicates
  BY <1>2 DEF Init, Reachable, NoDuplicates, Waiting, Occupied
<1> QED
  BY <1>3, <1>5, <1>6 DEF Init, HashInv, Counted, OccupiedSlots, TombSlots

LEMMA RequestTypes ==
  ASSUME NEW r \in Requests
  PROVE  /\ r \in [op : {"none", "insert", "set", "set_value"}, key : Keys \cup {Null},
                   val : Values \cup {Null}]
         /\ r.key \in Keys
         /\ r.op # "insert" => r.val \in Values
BY DEF Requests

\* What Apply leaves: values in range, whatever the caller does with the node.
LEMMA ApplyTypes ==
  ASSUME NEW r, r.op # "insert" => r.val \in Values,
         NEW f \in [Indices -> Values \cup {Null}], NEW i \in Indices,
         NEW w, NEW new, Apply(r, f, i, w, new), owned \subseteq Values
  PROVE  val' \in [Indices -> Values \cup {Null}] /\ owned' \subseteq Values
BY DEF Apply, Swap

LEMMA AskInv == ASSUME HashInv, Ask PROVE HashInv'
<1>1. PICK r \in Requests : Existing(r) \/ Grow(r) \/ GrowFails(r) \/ Proceed(r)
  BY DEF Ask
<1>2. pc = "idle" /\ size \in Nat \ {0}
  BY DEF Ask, HashInv, TypeOK
<1>3. CASE Existing(r)
  <2>1. UNCHANGED <<pc, size, key, count, deleted, old, req>>
    BY <1>3 DEF Existing
  <2>2. val' \in [Indices -> Values \cup {Null}] /\ owned' \subseteq Values
    BY <1>3, ApplyTypes, RequestTypes DEF Existing, HashInv, TypeOK
  <2>3. TypeOK'
    BY <2>1, <2>2 DEF HashInv, TypeOK, old, Indices
  <2> QED
    BY <2>1, <2>3, Frame DEF HashInv
<1>4. CASE Grow(r)
  <2>1. /\ \A i \in Indices : key[i] # r.key
        /\ r.key \in Keys
    BY <1>4, AbsentIfNotFound, RequestTypes DEF Grow
  <2>2. NewSize \in Nat \ {0} /\ size < NewSize /\ Indices' = 0..(NewSize-1)
    BY <1>2, <1>4 DEF Grow, NewSize, Indices
  <2>3. /\ \A i \in Indices' : key'[i] = Empty
        /\ key' \in [Indices' -> Keys \cup {Empty, Tomb}]
        /\ val' \in [Indices' -> Values \cup {Null}]
    BY <1>4, <2>2 DEF Grow, Blank
  <2>4. TypeOK'
    BY <1>2, <1>4, <2>1, <2>2, <2>3, RequestTypes DEF HashInv, TypeOK, Grow, Indices
  <2>5. \A i \in Indices' : ~Occupied(i)' /\ key'[i] # Tomb
    BY <2>3, HashAssumption DEF Occupied
  <2>6. Reachable'
    BY <2>5 DEF Reachable
  <2>7. NoDuplicates'
    <3>1. \A i \in Waiting' : i \in Indices /\ Occupied(i) /\ oldKey'[i] = key[i]
      BY <1>4 DEF Grow, Waiting, Indices, Occupied
    <3> QED
      BY <1>4, <2>1, <2>3, <2>5, <3>1, HashAssumption DEF Grow, HashInv, NoDuplicates
  <2>8. Counted'
    <3>1. {i \in Indices' : Occupied(i)'} = {} /\ {i \in Indices' : key'[i] = Tomb} = {}
      BY <2>5
    <3> QED
      BY <1>4, <3>1, FS_EmptySet DEF Grow, Counted
  <2> QED
    BY <2>4, <2>6, <2>7, <2>8 DEF HashInv
<1>5. CASE GrowFails(r)
  <2>1. UNCHANGED <<pc, slots, old, req, owned>>
    BY <1>5 DEF GrowFails
  <2> QED
    BY <2>1, Frame DEF HashInv, TypeOK, slots, old, Indices
<1>6. CASE Proceed(r)
  <2>1. /\ \A i \in Indices : key[i] # r.key
        /\ r.key \in Keys
    BY <1>6, AbsentIfNotFound, RequestTypes DEF Proceed
  <2>2. UNCHANGED <<slots, old, owned>> /\ pc' = "placing" /\ req' = r /\ ~ShouldGrow
    BY <1>6 DEF Proceed
  <2>3. TypeOK'
    BY <1>2, <2>1, <2>2, RequestTypes DEF HashInv, TypeOK, slots, old, Indices
  <2>4. Reachable'
    BY <2>2 DEF HashInv, Reachable, slots, Occupied, Indices, At, Hash
  <2>5. NoDuplicates'
    <3>1. Waiting = {}
      BY <1>2 DEF HashInv, TypeOK, Waiting
    <3>2. Waiting' = Waiting /\ Indices' = Indices
      BY <2>2 DEF Waiting, old, slots, Indices
    <3> QED
      BY <2>1, <2>2, <3>1, <3>2 DEF HashInv, NoDuplicates, slots, old, Occupied
  <2>6. Counted'
    <3>1. count < size
      BY <1>2, <2>2 DEF HashInv, TypeOK, ShouldGrow
    <3> QED
      BY <2>2, <3>1 DEF HashInv, Counted, slots, Indices, Occupied
  <2> QED
    BY <2>3, <2>4, <2>5, <2>6 DEF HashInv
<1> QED
  BY <1>1, <1>3, <1>4, <1>5, <1>6

LEMMA MoveInv == ASSUME HashInv, Move PROVE HashInv'
<1>1. /\ pc = "moving" /\ at < oldSize /\ at' = at + 1
      /\ UNCHANGED <<pc, size, deleted, oldSize, oldKey, oldVal, req, owned>>
      /\ at \in 0..(oldSize-1) /\ oldKey[at] \in Keys \cup {Empty, Tomb}
      /\ at \in Nat /\ oldSize \in Nat /\ count \in Nat
  BY DEF Move, HashInv, TypeOK
<1>2. CASE oldKey[at] \in {Empty, Tomb} /\ UNCHANGED <<key, val, count>>
  <2>1. Waiting' = Waiting
    BY <1>1, <1>2 DEF Waiting
  <2> QED
    BY <1>1, <1>2, <2>1
    DEF HashInv, TypeOK, Reachable, NoDuplicates, Counted, Occupied, Indices, At, Hash
<1>3. CASE oldKey[at] \notin {Empty, Tomb}
  <2> DEFINE x == oldKey[at]
  <2>1. PICK n \in Indices :
          FirstEmpty(x, n) /\ key' = [key EXCEPT ![n] = x] /\ val' = [val EXCEPT ![n] = oldVal[at]]
    BY <1>3 DEF Move
  <2>2. count' = count + 1 /\ x \in Keys /\ at \in Waiting
    BY <1>1, <1>3 DEF Move, Waiting
  <2>3. Waiting' = Waiting \ {at} /\ Waiting \subseteq Nat
    BY <1>1 DEF Waiting
  <2>4. key[n] = Empty /\ ~Occupied(n)
    BY <2>1 DEF FirstEmpty, Occupied
  <2>5. \A i \in Indices : key[i] # x
    BY <2>2, HashAssumption DEF HashInv, NoDuplicates, Occupied
  <2>6. \E p \in Indices : n = At(x, p) /\ \A q \in 0..(p-1) : key[At(x, q)] # Empty
    BY <2>1 DEF FirstEmpty
  <2>7. /\ Reachable'
        /\ \A i, j \in Indices : Occupied(i)' /\ key'[i] = key'[j] => i = j
        /\ Cardinality(OccupiedSlots') = Cardinality(OccupiedSlots) + 1
        /\ Cardinality(TombSlots') = Cardinality(TombSlots)
    BY <1>1, <2>1, <2>2, <2>4, <2>5, <2>6, Fill, HashAssumption DEF HashInv, NoDuplicates
  <2>8. TypeOK'
    BY <1>1, <2>1, <2>2 DEF HashInv, TypeOK, Indices
  <2>9. NoDuplicates'
    <3>1. /\ Indices' = Indices /\ key'[n] = x
          /\ \A i \in Indices : i # n => key'[i] = key[i] /\ (Occupied(i)' => Occupied(i))
      BY <1>1, <2>1 DEF HashInv, TypeOK, Indices, Occupied
    <3>2. \A j \in Waiting' : oldKey[j] # x
      BY <2>2, <2>3 DEF HashInv, NoDuplicates
    <3>3. \A i \in Indices, j \in Waiting' : Occupied(i)' => key'[i] # oldKey'[j]
      BY <1>1, <2>3, <3>1, <3>2 DEF HashInv, NoDuplicates
    <3>4. \A i \in Indices : key'[i] # req'.key
      BY <1>1, <2>2, <3>1 DEF HashInv, NoDuplicates
    <3> QED
      BY <1>1, <2>3, <2>7, <3>1, <3>3, <3>4 DEF HashInv, NoDuplicates
  <2>10. Counted'
    BY <1>1, <2>2, <2>7 DEF HashInv, Counted, OccupiedSlots, TombSlots
  <2> QED
    BY <2>7, <2>8, <2>9, <2>10 DEF HashInv
<1> QED
  BY <1>2, <1>3 DEF Move

LEMMA MovedInv == ASSUME HashInv, Moved PROVE HashInv'
<1>1. /\ pc = "moving" /\ pc' = "placing" /\ at = oldSize
      /\ oldSize' = 0 /\ at' = 0 /\ oldKey' = Blank(0, Empty) /\ oldVal' = Blank(0, Null)
      /\ UNCHANGED <<slots, req, owned>>
  BY DEF Moved
<1>2. TypeOK'
  BY <1>1 DEF HashInv, TypeOK, slots, Blank, Indices
<1>3. Reachable'
  BY <1>1 DEF HashInv, Reachable, slots, Occupied, Indices, At, Hash
<1>4. NoDuplicates'
  <2>1. Waiting' = {} /\ Indices' = Indices
    BY <1>1 DEF Waiting, slots, Indices
  <2> QED
    BY <1>1, <2>1 DEF HashInv, NoDuplicates, slots, Occupied
<1>5. Counted'
  <2>1. count < size
    BY <1>1 DEF HashInv, TypeOK, Counted
  <2> QED
    BY <1>1, <2>1 DEF HashInv, Counted, slots, Indices, Occupied
<1> QED
  BY <1>2, <1>3, <1>4, <1>5 DEF HashInv

LEMMA PlaceInv == ASSUME HashInv, Place PROVE HashInv'
<1> DEFINE x == req.key
<1>1. /\ pc = "placing" /\ pc' = "idle" /\ req' = NoReq /\ count' = count + 1
      /\ UNCHANGED <<size, oldSize, oldKey, oldVal, at>>
      /\ oldSize = 0 /\ x \in Keys /\ count \in Nat /\ deleted \in Nat /\ size \in Nat \ {0}
      /\ req.op # "insert" => req.val \in Values
  BY DEF Place, old, HashInv, TypeOK
<1>2. PICK n \in Indices :
        /\ FirstFree(x, n)
        /\ key' = [key EXCEPT ![n] = x]
        /\ Apply(req, [val EXCEPT ![n] = Null], n, Null, TRUE)
        /\ deleted' = TombsLeft(n)
  BY DEF Place
<1>3. ~Occupied(n)
  BY <1>2 DEF FirstFree
<1>4. \A i \in Indices : key[i] # x
  BY <1>1 DEF HashInv, NoDuplicates
<1>5. \E p \in Indices : n = At(x, p) /\ \A q \in 0..(p-1) : key[At(x, q)] # Empty
  BY <1>2 DEF FirstFree, Occupied
<1>6. /\ Reachable'
      /\ \A i, j \in Indices : Occupied(i)' /\ key'[i] = key'[j] => i = j
      /\ Cardinality(OccupiedSlots') = Cardinality(OccupiedSlots) + 1
      /\ Cardinality(TombSlots') = IF key[n] = Tomb THEN Cardinality(TombSlots) - 1
                                   ELSE Cardinality(TombSlots)
  BY <1>1, <1>2, <1>3, <1>4, <1>5, Fill DEF HashInv, NoDuplicates
<1>7. count = Cardinality(OccupiedSlots) /\ deleted = Cardinality(TombSlots)
  BY DEF HashInv, Counted, OccupiedSlots, TombSlots
<1>8. deleted' = Cardinality(TombSlots') /\ count' = Cardinality(OccupiedSlots')
  BY <1>1, <1>2, <1>6, <1>7 DEF TombsLeft
<1>9. deleted' \in Nat
  <2>1. size' \in Nat
    BY <1>1
  <2>2. Cardinality(TombSlots') \in Nat
    BY <2>1, SlotCount DEF TombSlots, Indices
  <2> QED
    BY <1>8, <2>2
<1>10. TypeOK'
  <2>1. Indices' = Indices
    BY <1>1 DEF Indices
  <2>2. val' \in [Indices -> Values \cup {Null}] /\ owned' \subseteq Values
    <3>1. [val EXCEPT ![n] = Null] \in [Indices -> Values \cup {Null}]
      BY DEF HashInv, TypeOK
    <3> QED
      BY <1>1, <1>2, <3>1, ApplyTypes DEF HashInv, TypeOK
  <2>3. key' \in [Indices -> Keys \cup {Empty, Tomb}]
    BY <1>1, <1>2 DEF HashInv, TypeOK
  <2> QED
    BY <1>1, <1>9, <2>1, <2>2, <2>3 DEF HashInv, TypeOK, NoReq
<1>11. NoDuplicates'
  <2>1. Waiting' = {} /\ Indices' = Indices
    BY <1>1 DEF Waiting, Indices
  <2> QED
    BY <1>1, <1>6, <2>1 DEF NoDuplicates
<1>12. Counted'
  BY <1>1, <1>8 DEF Counted, OccupiedSlots, TombSlots
<1> QED
  BY <1>6, <1>10, <1>11, <1>12 DEF HashInv

LEMMA PlaceFailsInv == ASSUME HashInv, PlaceFails PROVE HashInv'
<1>1. pc = "placing" /\ pc' = "idle" /\ req' = NoReq /\ UNCHANGED <<slots, old, owned>>
  BY DEF PlaceFails
<1>2. TypeOK'
  BY <1>1 DEF HashInv, TypeOK, slots, old, Indices, NoReq
<1>3. Reachable' /\ NoDuplicates'
  BY <1>1 DEF HashInv, Reachable, NoDuplicates, Waiting, slots, old, Indices, Occupied, At, Hash
<1>4. Counted'
  BY <1>1 DEF HashInv, Counted, slots, Indices, Occupied
<1> QED
  BY <1>2, <1>3, <1>4 DEF HashInv

LEMMA LookupInv == ASSUME HashInv, NEW k \in Keys, Lookup(k) PROVE HashInv'
<1>1. UNCHANGED <<pc, slots, old, req, owned>>
  BY DEF Lookup
<1> QED
  BY <1>1, Frame DEF HashInv, TypeOK, slots, old, Indices

LEMMA RemoveInv == ASSUME HashInv, NEW k \in Keys, Remove(k) PROVE HashInv'
<1>1. pc = "idle" /\ UNCHANGED <<pc, size, oldSize, oldKey, oldVal, at, req>>
  BY DEF Remove, old
<1>2. CASE NotFound(k) /\ UNCHANGED <<key, val, count, deleted, owned>>
  BY <1>1, <1>2, Frame DEF HashInv, TypeOK, old, Indices
<1>3. ASSUME NEW n \in Indices, Found(k, n), key' = [key EXCEPT ![n] = Vacated],
             val' = [val EXCEPT ![n] = Null], owned' = owned \ {val[n]},
             count' = count - 1, deleted' = deleted + 1
      PROVE  HashInv'
  <2>1. Occupied(n)
    BY <1>3, HashAssumption DEF Found, Occupied
  <2>2. /\ Reachable'
        /\ Cardinality(OccupiedSlots') = Cardinality(OccupiedSlots) - 1
        /\ Cardinality(TombSlots') = Cardinality(TombSlots) + 1
    BY <1>1, <1>3, <2>1, Bury DEF HashInv, Vacated
  <2>3. Counted'
    BY <1>1, <1>3, <2>2 DEF HashInv, Counted, OccupiedSlots, TombSlots
  <2>4. count' \in Nat
    <3>1. size' \in Nat
      BY <1>1 DEF HashInv, TypeOK
    <3>2. Cardinality(OccupiedSlots') \in Nat
      BY <3>1, SlotCount DEF OccupiedSlots, Indices
    <3> QED
      BY <2>3, <3>2 DEF Counted, OccupiedSlots
  <2>5. Indices' = Indices /\ Waiting' = Waiting
    BY <1>1 DEF Indices, Waiting
  <2>6. TypeOK'
    BY <1>1, <1>3, <2>4, <2>5 DEF HashInv, TypeOK, Vacated
  <2>7. NoDuplicates'
    <3>1. \A i \in Indices : Occupied(i)' => i # n /\ Occupied(i)
      BY <1>3, HashAssumption DEF HashInv, TypeOK, Occupied, Vacated
    <3>2. \A i \in Indices : i # n => key'[i] = key[i]
      BY <1>3 DEF HashInv, TypeOK
    <3>3. \A i, j \in Indices : Occupied(i)' /\ key'[i] = key'[j] => i = j
      BY <1>3, <3>1, <3>2, HashAssumption DEF HashInv, TypeOK, NoDuplicates, Occupied, Vacated
    <3> QED
      BY <1>1, <2>5, <3>1, <3>2, <3>3 DEF HashInv, NoDuplicates
  <2> QED
    BY <2>2, <2>3, <2>6, <2>7 DEF HashInv
<1> QED
  BY <1>2, <1>3 DEF Remove

LEMMA CleanupInv == ASSUME HashInv, Cleanup PROVE HashInv'
<1>1. /\ pc = "idle" /\ pc' = "gone" /\ size' = 0 /\ count' = 0 /\ deleted' = 0
      /\ key' = Blank(0, Empty) /\ val' = Blank(0, Null) /\ owned' \subseteq owned
      /\ UNCHANGED <<oldSize, oldKey, oldVal, at, req>>
  BY DEF Cleanup, old
<1>2. Indices' = {} /\ Waiting' = {}
  BY <1>1 DEF HashInv, TypeOK, Indices, Waiting
<1>3. TypeOK'
  BY <1>1, <1>2 DEF HashInv, TypeOK, Blank
<1>4. Reachable' /\ NoDuplicates'
  BY <1>1, <1>2 DEF Reachable, NoDuplicates
<1>5. Counted'
  BY <1>1, <1>2, FS_EmptySet DEF Counted
<1> QED
  BY <1>3, <1>4, <1>5 DEF HashInv

LEMMA StepInv == HashInv /\ [Next]_vars => HashInv'
<1> SUFFICES ASSUME HashInv, [Next]_vars PROVE HashInv'
  OBVIOUS
<1>1. CASE UNCHANGED vars
  BY <1>1, Frame DEF HashInv, TypeOK, vars, slots, old, Indices
<1> QED
  BY <1>1, AskInv, MoveInv, MovedInv, PlaceInv, PlaceFailsInv, LookupInv, RemoveInv,
     CleanupInv DEF Next

-----------------------------------------------------------------------------
(***************************************************************************)
(* Theorems.                                                               *)
(***************************************************************************)
\* What HashInv gives at once about the room in the table.
LEMMA InvRoom == HashInv => Room
<1> SUFFICES ASSUME HashInv PROVE Room
  OBVIOUS
<1>1. size \in Nat /\ at \in Nat /\ oldSize \in Nat /\ count \in Nat /\ TypeOK
  BY DEF HashInv, TypeOK
<1>2. count = Cardinality(OccupiedSlots) /\ deleted = Cardinality(TombSlots)
  BY DEF HashInv, Counted, OccupiedSlots, TombSlots
<1>3. RoomToMove
  <2> SUFFICES ASSUME pc = "moving", at < oldSize, oldKey[at] \in Keys
               PROVE  \E i \in Indices : FirstEmpty(oldKey[at], i)
    BY DEF RoomToMove
  <2>1. count < size /\ deleted = 0
    BY <1>1 DEF HashInv, Counted, TypeOK
  <2>2. TombSlots = {}
    BY <1>1, <1>2, <2>1, Finite, FS_EmptySet
  <2>3. \E i \in Indices : ~Occupied(i)
    BY <1>1, <1>2, <2>1, FreeSlot
  <2>4. \E i \in Indices : key[i] = Empty
    BY <2>2, <2>3 DEF Occupied, TombSlots
  <2> QED
    BY <1>1, <2>4, FirstEmptyExists
<1>4. RoomToPlace
  <2> SUFFICES ASSUME pc = "placing" PROVE \E i \in Indices : FirstFree(req.key, i)
    BY DEF RoomToPlace
  <2>1. count < size /\ req.key \in Keys
    BY DEF HashInv, Counted, TypeOK
  <2>2. \E i \in Indices : ~Occupied(i)
    BY <1>1, <1>2, <2>1, FreeSlot
  <2> QED
    BY <1>1, <2>1, <2>2, FirstFreeExists
<1> QED
  BY <1>3, <1>4 DEF Room

\* Whatever is inserted, overwritten and removed, and wherever allocation fails, the
\* variables keep their types, every key is where probing finds it, no key is in two
\* slots, and the two counters that drive growth are exact.
THEOREM TableInvariant == Spec => []HashInv
<1>1. Init => HashInv
  BY InitInv
<1>2. HashInv /\ [Next]_vars => HashInv'
  BY StepInv
<1>3. HashInv => TypeOK /\ Reachable /\ NoDuplicates /\ Counted
  BY DEF HashInv
<1> QED
  BY <1>1, <1>2, <1>3, PTL DEF Spec

\* hash_insert and hash_resize always find the slot they look for: the code after their
\* probe loops (lines 97-113 and 244 of oa_hashtable.c) is never reached.
THEOREM RoomAlways == Spec => []Room
<1>1. Init => HashInv
  BY InitInv
<1>2. HashInv /\ [Next]_vars => HashInv'
  BY StepInv
<1>3. HashInv => Room
  BY InvRoom
<1> QED
  BY <1>1, <1>2, <1>3, PTL DEF Spec

\* A key that is in the table is found, and in one slot only: hash_find_slot is right
\* about every key in every reachable state.
THEOREM FindsExactly ==
  Spec => [](\A k \in Keys : (\E i \in Indices : key[i] = k) <=> ~NotFound(k))
<1> DEFINE Finds == \A k \in Keys : (\E i \in Indices : key[i] = k) <=> ~NotFound(k)
<1>1. Init => HashInv
  BY InitInv
<1>2. HashInv /\ [Next]_vars => HashInv'
  BY StepInv
<1>3. HashInv => Finds
  BY AbsentIfNotFound DEF NotFound, Found
<1> QED
  BY <1>1, <1>2, <1>3, PTL DEF Spec

-----------------------------------------------------------------------------
(***************************************************************************)
(* Ownership.  The value a call brings is nobody's until it is placed.     *)
(***************************************************************************)
Brought ==
  pc \in {"moving", "placing"} =>
    req.op # "none" /\ (req.op # "insert" => req.val \notin owned)

OwnInv == HashInv /\ Ownership /\ Brought

\* A slot gets the value v, nobody's before, and gives up the one it had.
LEMMA OwnPut ==
  ASSUME HashInv, Ownership, UNCHANGED size, Waiting = {}, Waiting' = {},
         NEW n \in Indices, Occupied(n)',
         \A j \in Indices : j # n => (Occupied(j)' <=> Occupied(j)),
         NEW v \in Values \ owned, val' = [val EXCEPT ![n] = v],
         owned' = (owned \ {val[n]}) \cup {v}
  PROVE  Ownership'
<1>1. Indices' = Indices /\ val'[n] = v /\ \A j \in Indices : j # n => val'[j] = val[j]
  BY DEF Indices, HashInv, TypeOK
<1>2. v # Null /\ v \notin owned /\ v \in Values
  BY HashAssumption
<1>3. \A j \in Indices : Held(j) => val[j] # v /\ val[j] \in owned
  BY DEF Ownership, Held, HashInv, TypeOK
<1>4. \A j \in Indices : Held(j)' <=> (j = n \/ Held(j))
  BY <1>1, <1>2 DEF Held
<1>5. \A j \in Indices : ~Occupied(j)' => val'[j] = Null
  BY <1>1 DEF Ownership
<1>6. \A i, j \in Indices : Held(i)' /\ val'[i] = val'[j] => i = j
  <2> SUFFICES ASSUME NEW i \in Indices, NEW j \in Indices, Held(i)', val'[i] = val'[j], i # j
               PROVE  FALSE
    OBVIOUS
  <2>1. Held(j)'
    BY <1>2, <1>5 DEF Held
  <2>2. i # n /\ j # n
    BY <1>1, <1>2, <1>3, <1>4, <2>1
  <2> QED
    BY <1>1, <1>4, <2>2 DEF Ownership
<1>7. \A x \in Values : x \in owned' <=> \E i \in Indices : Held(i)' /\ val'[i] = x
  <2>1. ASSUME NEW x \in owned' PROVE \E i \in Indices : Held(i)' /\ val'[i] = x
    <3>1. CASE x = v
      BY <1>1, <1>4, <3>1
    <3>2. CASE x # v
      <4>1. x \in owned /\ x # val[n] /\ x \in Values
        BY <3>2 DEF HashInv, TypeOK
      <4>2. PICK i \in Indices : Held(i) /\ val[i] = x
        BY <4>1 DEF Ownership
      <4> QED
        BY <1>1, <1>4, <4>1, <4>2
    <3> QED
      BY <3>1, <3>2
  <2>2. ASSUME NEW i \in Indices, Held(i)' PROVE val'[i] \in owned'
    <3>1. CASE i = n
      BY <1>1, <3>1
    <3>2. CASE i # n
      <4>1. Held(i) /\ val'[i] = val[i] /\ val[i] \in owned
        BY <1>1, <1>3, <1>4, <2>2, <3>2
      <4>2. val[i] # val[n]
        BY <3>2, <4>1 DEF Ownership
      <4> QED
        BY <4>1, <4>2
    <3> QED
      BY <3>1, <3>2
  <2> QED
    BY <2>1, <2>2
<1> QED
  BY <1>1, <1>5, <1>6, <1>7 DEF Ownership, OldHeld

\* No value changes hands.
LEMMA OwnKept ==
  ASSUME HashInv, Ownership, UNCHANGED <<size, val, owned, oldVal>>, Waiting' = Waiting,
         \A j \in Indices : Held(j)' <=> Held(j),
         \A j \in Indices : ~Occupied(j)' => val[j] = Null
  PROVE  Ownership'
<1>1. Indices' = Indices
  BY DEF Indices
<1> QED
  BY <1>1 DEF Ownership, OldHeld

\* Outside a growth no old slot waits.
LEMMA NoneWaits == HashInv /\ pc # "moving" => Waiting = {} /\ oldSize = 0
BY DEF HashInv, TypeOK, Waiting

LEMMA ExistingOwn ==
  ASSUME OwnInv, pc = "idle", NEW r \in Requests, Existing(r)
  PROVE  Ownership' /\ Brought'
<1> USE DEF OwnInv
<1>1. PICK n \in Indices : Found(r.key, n) /\ Apply(r, val, n, val[n], FALSE)
  BY DEF Existing
<1>2. UNCHANGED <<pc, size, key, oldSize, oldKey, oldVal, at>>
  BY DEF Existing, old
<1>3. Waiting = {} /\ Waiting' = {} /\ Indices' = Indices
  BY <1>2, NoneWaits DEF Waiting, Indices
<1>4. Occupied(n) /\ \A j \in Indices : Occupied(j)' <=> Occupied(j)
  BY <1>1, <1>2, HashAssumption DEF Found, Occupied, Requests
<1>5. CASE UNCHANGED <<val, owned>>
  <2>1. \A j \in Indices : Held(j)' <=> Held(j)
    BY <1>4, <1>5 DEF Held
  <2>2. \A j \in Indices : ~Occupied(j)' => val[j] = Null
    BY <1>4 DEF Ownership
  <2> QED
    BY <1>2, <1>3, <1>5, <2>1, <2>2, OwnKept DEF Brought
<1>6. CASE /\ r.op \in {"set", "set_value"} /\ val' = [val EXCEPT ![n] = r.val]
           /\ owned' = (owned \ {val[n]}) \cup {r.val}
  <2>1. r.val \in Values \ owned
    BY <1>6 DEF Requests
  <2> QED
    BY <1>2, <1>3, <1>4, <1>6, <2>1, OwnPut DEF Brought
<1>7. (owned \ {Null}) = owned
  BY HashAssumption DEF HashInv, TypeOK
<1> QED
  BY <1>1, <1>5, <1>6, <1>7 DEF Apply, Swap

LEMMA GrowOwn ==
  ASSUME OwnInv, pc = "idle", NEW r \in Requests, Grow(r)
  PROVE  Ownership' /\ Brought'
<1> USE DEF OwnInv
<1>1. /\ size' = NewSize /\ key' = Blank(NewSize, Empty) /\ val' = Blank(NewSize, Null)
      /\ oldSize' = size /\ oldKey' = key /\ oldVal' = val /\ at' = 0
      /\ pc' = "moving" /\ req' = r /\ owned' = owned
  BY DEF Grow
<1>2. \A i \in Indices' : ~Occupied(i)' /\ val'[i] = Null
  BY <1>1 DEF Blank, Indices, Occupied
<1>3. Waiting = {} /\ Waiting' = {i \in Indices : Occupied(i)}
  BY <1>1, NoneWaits DEF HashInv, TypeOK, Waiting, Indices, Occupied
<1>4. \A i \in Waiting' : OldHeld(i)' <=> Held(i)
  BY <1>1, <1>3 DEF OldHeld, Held
<1>5. \A v \in Values : v \in owned' <=> \E i \in Waiting' : oldVal'[i] = v
  BY <1>1, <1>3, HashAssumption DEF Ownership, Held
<1>6. \A i, j \in Waiting' : OldHeld(i)' /\ oldVal'[i] = oldVal'[j] => i = j
  BY <1>1, <1>3, <1>4 DEF Ownership
<1>7. Ownership'
  BY <1>2, <1>5, <1>6 DEF Ownership, Held
<1>8. Brought'
  BY <1>1 DEF Brought, Requests
<1> QED
  BY <1>7, <1>8

LEMMA AskOwn == ASSUME OwnInv, Ask PROVE Ownership' /\ Brought'
<1>1. PICK r \in Requests : Existing(r) \/ Grow(r) \/ GrowFails(r) \/ Proceed(r)
  BY DEF Ask
<1>2. pc = "idle"
  BY DEF Ask
<1>3. CASE GrowFails(r) \/ Proceed(r)
  <2>1. UNCHANGED <<size, key, val, oldSize, oldKey, oldVal, at, owned>>
    BY <1>3 DEF GrowFails, Proceed, slots, old
  <2>2. Ownership'
    BY <2>1 DEF OwnInv, Ownership, Held, OldHeld, Waiting, Occupied, Indices
  <2>3. Brought'
    BY <1>2, <1>3, <2>1 DEF GrowFails, Proceed, Brought, Requests
  <2> QED
    BY <2>2, <2>3
<1> QED
  BY <1>1, <1>2, <1>3, ExistingOwn, GrowOwn

LEMMA MoveOwn == ASSUME OwnInv, Move PROVE Ownership' /\ Brought'
<1> USE DEF OwnInv
<1>1. /\ pc = "moving" /\ at < oldSize /\ at' = at + 1 /\ at \in Nat /\ oldSize \in Nat
      /\ UNCHANGED <<pc, size, oldSize, oldKey, oldVal, req, owned>>
  BY DEF Move, HashInv, TypeOK
<1>2. Brought'
  BY <1>1 DEF Brought
<1>3. CASE oldKey[at] \in {Empty, Tomb} /\ UNCHANGED <<key, val, count>>
  <2>1. Waiting' = Waiting /\ Indices' = Indices
    BY <1>1, <1>3 DEF Waiting, Indices
  <2>2. Ownership'
    BY <1>1, <1>3, <2>1 DEF Ownership, Held, OldHeld, Occupied
  <2> QED
    BY <1>2, <2>2
<1>4. CASE oldKey[at] \notin {Empty, Tomb}
  <2>1. PICK n \in Indices : /\ FirstEmpty(oldKey[at], n)
                             /\ key' = [key EXCEPT ![n] = oldKey[at]]
                             /\ val' = [val EXCEPT ![n] = oldVal[at]]
    BY <1>4 DEF Move
  <2>2. /\ Indices' = Indices /\ key'[n] = oldKey[at] /\ val'[n] = oldVal[at]
        /\ \A j \in Indices : j # n => key'[j] = key[j] /\ val'[j] = val[j]
    BY <1>1, <2>1 DEF HashInv, TypeOK, Indices
  <2>3. at \in Waiting /\ Waiting' = Waiting \ {at}
    BY <1>1, <1>4 DEF Waiting
  <2>4. ~Occupied(n) /\ Occupied(n)' /\ \A j \in Indices : j # n => (Occupied(j)' <=> Occupied(j))
    BY <1>4, <2>1, <2>2 DEF FirstEmpty, Occupied
  <2>5. \A j \in Indices : Held(j)' <=> (IF j = n THEN OldHeld(at) ELSE Held(j))
    BY <2>2, <2>3, <2>4 DEF Held, OldHeld
  <2>6. \A j \in Waiting' : OldHeld(j)' <=> OldHeld(j)
    BY <1>1, <2>3 DEF OldHeld
  <2>7. \A v \in Values : v \in owned' <=>
          (\E i \in Indices : Held(i)' /\ val'[i] = v) \/ (\E i \in Waiting' : oldVal'[i] = v)
    <3>1. ASSUME NEW v \in Values, NEW i \in Indices, Held(i)', val'[i] = v PROVE v \in owned
      BY <2>2, <2>3, <2>5, <3>1 DEF Ownership, OldHeld
    <3>2. ASSUME NEW v \in owned PROVE (\E i \in Indices : Held(i)' /\ val'[i] = v) \/ (\E i \in Waiting' : oldVal[i] = v)
      <4>1. v \in Values /\ v # Null
        BY HashAssumption DEF HashInv, TypeOK
      <4>2. ASSUME NEW i \in Indices, Held(i), val[i] = v PROVE Held(i)' /\ val'[i] = v
        BY <2>2, <2>4, <2>5, <4>2 DEF Held
      <4>3. ASSUME oldVal[at] = v PROVE Held(n)' /\ val'[n] = v
        BY <2>2, <2>3, <2>5, <4>1, <4>3 DEF OldHeld
      <4> QED
        BY <2>3, <4>1, <4>2, <4>3 DEF Ownership
    <3> QED
      BY <1>1, <2>3, <3>1, <3>2 DEF Ownership
  <2>8. \A i, j \in Indices : Held(i)' /\ val'[i] = val'[j] => i = j
    <3> SUFFICES ASSUME NEW i \in Indices, NEW j \in Indices, Held(i)', val'[i] = val'[j], i # j
                 PROVE  FALSE
      OBVIOUS
    <3>1. Held(j)'
      <4>1. val'[j] # Null
        BY DEF Held
      <4>2. Occupied(j)'
        BY <2>2, <2>4, <4>1 DEF Ownership
      <4> QED
        BY <4>1, <4>2 DEF Held
    <3> QED
      BY <2>2, <2>3, <2>5, <3>1 DEF Ownership
  <2>9. \A i \in Indices, j \in Waiting' : Held(i)' => val'[i] # oldVal'[j]
    BY <1>1, <2>2, <2>3, <2>5, <2>6 DEF Ownership, OldHeld
  <2>10. Ownership'
    BY <1>1, <2>2, <2>3, <2>4, <2>6, <2>7, <2>8, <2>9 DEF Ownership
  <2> QED
    BY <1>2, <2>10
<1> QED
  BY <1>3, <1>4 DEF Move

LEMMA MovedOwn == ASSUME OwnInv, Moved PROVE Ownership' /\ Brought'
<1> USE DEF OwnInv
<1>1. /\ pc = "moving" /\ pc' = "placing" /\ at = oldSize /\ oldSize' = 0
      /\ UNCHANGED <<size, key, val, req, owned>>
  BY DEF Moved, slots
<1>2. Waiting = {} /\ Waiting' = {} /\ Indices' = Indices
  BY <1>1 DEF HashInv, TypeOK, Waiting, Indices
<1>3. Ownership'
  BY <1>1, <1>2 DEF Ownership, Held, Occupied
<1> QED
  BY <1>1, <1>3 DEF Brought

\* The slot that is filled holds no value before.
LEMMA PlacedOwn ==
  ASSUME OwnInv, pc = "placing", pc' = "idle", NEW n \in Indices, FirstFree(req.key, n),
         key' = [key EXCEPT ![n] = req.key], UNCHANGED <<size, old>>,
         Apply(req, [val EXCEPT ![n] = Null], n, Null, TRUE)
  PROVE  Ownership' /\ Brought'
<1> USE DEF OwnInv
<1>1. Brought'
  BY DEF Brought
<1>2. Waiting = {} /\ Waiting' = {} /\ Indices' = Indices /\ oldVal' = oldVal
  BY NoneWaits DEF Waiting, Indices, old
<1>3. req.key \in Keys /\ ~Occupied(n) /\ val[n] = Null
  BY DEF FirstFree, HashInv, TypeOK, Ownership
<1>4. key'[n] = req.key /\ \A j \in Indices : j # n => key'[j] = key[j]
  BY DEF HashInv, TypeOK
<1>5. Occupied(n)' /\ \A j \in Indices : j # n => (Occupied(j)' <=> Occupied(j))
  BY <1>3, <1>4, HashAssumption DEF Occupied
<1>6. [val EXCEPT ![n] = Null] = val /\ \A v : [[val EXCEPT ![n] = Null] EXCEPT ![n] = v] = [val EXCEPT ![n] = v]
  BY <1>3 DEF HashInv, TypeOK
<1>7. CASE UNCHANGED <<val, owned>>
  <2>1. \A j \in Indices : Held(j)' <=> Held(j)
    BY <1>3, <1>5, <1>7 DEF Held
  <2>2. \A j \in Indices : ~Occupied(j)' => val[j] = Null
    BY <1>5 DEF Ownership
  <2> QED
    BY <1>1, <1>2, <1>7, <2>1, <2>2, OwnKept
<1>8. CASE /\ req.op \in {"set", "set_value"} /\ val' = [val EXCEPT ![n] = req.val]
           /\ owned' = owned \cup {req.val}
  <2>1. req.val \in Values \ owned
    BY <1>8 DEF Brought, HashInv, TypeOK
  <2>2. owned' = (owned \ {val[n]}) \cup {req.val}
    BY <1>3, <1>8, HashAssumption DEF HashInv, TypeOK
  <2> QED
    BY <1>1, <1>2, <1>5, <1>8, <2>1, <2>2, OwnPut
<1>9. (owned \ {Null}) = owned
  BY HashAssumption DEF HashInv, TypeOK
<1> QED
  BY <1>6, <1>7, <1>8, <1>9 DEF Apply, Swap

LEMMA RemoveOwn == ASSUME OwnInv, NEW k \in Keys, Remove(k) PROVE Ownership' /\ Brought'
<1> USE DEF OwnInv
<1>1. pc = "idle" /\ UNCHANGED <<pc, size, oldSize, oldKey, oldVal, at, req>>
  BY DEF Remove, old
<1>2. Waiting = {} /\ Waiting' = {} /\ Indices' = Indices
  BY <1>1, NoneWaits DEF Waiting, Indices
<1>3. Brought'
  BY <1>1 DEF Brought
<1>4. CASE UNCHANGED <<key, val, count, deleted, owned>>
  BY <1>1, <1>2, <1>3, <1>4 DEF Ownership, Held, Occupied
<1>5. ASSUME NEW n \in Indices, Found(k, n), key' = [key EXCEPT ![n] = Vacated],
             val' = [val EXCEPT ![n] = Null], owned' = owned \ {val[n]}
      PROVE  Ownership'
  <2>1. /\ key'[n] = Tomb /\ val'[n] = Null
        /\ \A j \in Indices : j # n => key'[j] = key[j] /\ val'[j] = val[j]
    BY <1>5 DEF HashInv, TypeOK, Vacated
  <2>2. Occupied(n) /\ ~Occupied(n)' /\ \A j \in Indices : j # n => (Occupied(j)' <=> Occupied(j))
    BY <1>5, <2>1, HashAssumption DEF Found, Occupied
  <2>3. \A j \in Indices : Held(j)' <=> j # n /\ Held(j)
    BY <2>1, <2>2 DEF Held
  <2>4. \A v \in Values : v \in owned' <=> \E i \in Indices : Held(i)' /\ val'[i] = v
    <3>1. ASSUME NEW v \in owned' PROVE \E i \in Indices : Held(i)' /\ val'[i] = v
      <4>1. v \in owned /\ v # val[n] /\ v \in Values
        BY <1>5 DEF HashInv, TypeOK
      <4>2. PICK i \in Indices : Held(i) /\ val[i] = v
        BY <1>2, <4>1 DEF Ownership
      <4> QED
        BY <2>1, <2>3, <4>1, <4>2
    <3>2. ASSUME NEW i \in Indices, Held(i)' PROVE val'[i] \in owned'
      <4>1. Held(i) /\ i # n /\ val'[i] = val[i]
        BY <2>1, <2>3, <3>2
      <4>2. val[i] \in owned /\ val[i] # val[n]
        BY <4>1 DEF Ownership, Held, HashInv, TypeOK
      <4> QED
        BY <1>5, <4>1, <4>2
    <3> QED
      BY <3>1, <3>2
  <2>5. \A i, j \in Indices : Held(i)' /\ val'[i] = val'[j] => i = j
    <3> SUFFICES ASSUME NEW i \in Indices, NEW j \in Indices, Held(i)', val'[i] = val'[j]
                 PROVE  i = j
      OBVIOUS
    <3>1. val'[i] # Null
      BY DEF Held
    <3> QED
      BY <2>1, <2>3, <3>1 DEF Ownership
  <2>6. \A i \in Indices : ~Occupied(i)' => val'[i] = Null
    BY <2>1, <2>2 DEF Ownership
  <2> QED
    BY <1>2, <2>4, <2>5, <2>6 DEF Ownership
<1> QED
  BY <1>3, <1>4, <1>5 DEF Remove

LEMMA CleanupOwn == ASSUME OwnInv, Cleanup PROVE owned' = {} /\ Ownership' /\ Brought'
<1> USE DEF OwnInv
<1>1. pc = "idle" /\ pc' = "gone" /\ size' = 0 /\ oldSize' = oldSize
      /\ owned' = owned \ {val[i] : i \in {j \in Indices : Occupied(j)}}
  BY DEF Cleanup, old
<1>2. Indices' = {} /\ Waiting = {} /\ Waiting' = {}
  BY <1>1, NoneWaits DEF Indices, Waiting
<1>3. owned' = {}
  BY <1>1, <1>2 DEF Ownership, Held, HashInv, TypeOK
<1> QED
  BY <1>1, <1>2, <1>3 DEF Ownership, Brought

LEMMA OwnStep == OwnInv /\ [Next]_vars => OwnInv'
<1> SUFFICES ASSUME OwnInv, [Next]_vars PROVE OwnInv'
  OBVIOUS
<1>1. HashInv'
  BY StepInv DEF OwnInv
<1>2. CASE PlaceFails \/ (\E k \in Keys : Lookup(k)) \/ UNCHANGED vars
  <2>1. UNCHANGED <<slots, old, owned>> /\ (pc' = "idle" \/ UNCHANGED <<pc, req>>)
    BY <1>2 DEF PlaceFails, Lookup, vars
  <2>2. Ownership'
    BY <2>1 DEF OwnInv, Ownership, Held, OldHeld, Waiting, Occupied, Indices, slots, old
  <2>3. Brought'
    BY <2>1 DEF OwnInv, Brought
  <2> QED
    BY <1>1, <2>2, <2>3 DEF OwnInv
<1>3. CASE Place
  BY <1>1, <1>3, PlacedOwn DEF Place, OwnInv
<1> QED
  BY <1>1, <1>2, <1>3, AskOwn, MoveOwn, MovedOwn, RemoveOwn, CleanupOwn DEF Next, OwnInv

LEMMA OwnStart == Init => OwnInv
<1> SUFFICES ASSUME Init PROVE OwnInv
  OBVIOUS
<1>1. HashInv
  BY InitInv
<1>2. \A i \in Indices : val[i] = Null /\ ~Occupied(i)
  BY DEF Init, Blank, Indices, Occupied
<1>3. Waiting = {} /\ owned = {} /\ pc = "idle"
  BY <1>1, NoneWaits DEF Init
<1> QED
  BY <1>1, <1>2, <1>3 DEF OwnInv, Ownership, Held, Brought

\* Nothing leaks and nothing is released twice: every buffer that the table owns is the value
\* of exactly one key, in the slots or among those that still have to be moved
\* (hash_set, hash_resize, hash_remove and hash_cleanup of oa_hashtable.c).
THEOREM OwnedOnce == Spec => []Ownership
<1>1. OwnInv => Ownership
  BY DEF OwnInv
<1> QED
  BY <1>1, OwnStart, OwnStep, PTL DEF Spec

-----------------------------------------------------------------------------
(***************************************************************************)
(* Refinement: a table is the map of its keys to their values.             *)
(***************************************************************************)
\* The contents, by slot, by waiting slot, and of a key that is in neither.
Slotted(k) == \E i \in Indices : key[i] = k
Moving(k) == \E i \in Waiting : oldKey[i] = k

LEMMA ContentsAre ==
  ASSUME HashInv
  PROVE  /\ Contents = [k \in Keys |-> Contents[k]]
         /\ \A i \in Indices : key[i] \in Keys => Contents[key[i]] = val[i]
         /\ \A i \in Waiting : oldKey[i] \in Keys => Contents[oldKey[i]] = oldVal[i]
         /\ \A k \in Keys : ~Slotted(k) /\ ~Moving(k) => Contents[k] = Absent
<1>1. Contents = [k \in Keys |-> Contents[k]]
  BY DEF Contents
<1>2. ASSUME NEW i \in Indices, key[i] \in Keys PROVE Contents[key[i]] = val[i]
  <2>1. Occupied(i)
    BY <1>2, HashAssumption DEF Occupied
  <2>2. \A j \in Indices : key[j] = key[i] => j = i
    BY <2>1 DEF HashInv, NoDuplicates
  <2>3. (CHOOSE j \in Indices : key[j] = key[i]) = i
    BY <2>2
  <2> QED
    BY <1>2, <2>3 DEF Contents
<1>3. ASSUME NEW i \in Waiting, oldKey[i] \in Keys PROVE Contents[oldKey[i]] = oldVal[i]
  <2>1. \A j \in Waiting : oldKey[j] = oldKey[i] => j = i
    BY DEF HashInv, NoDuplicates
  <2>2. \A j \in Indices : key[j] # oldKey[i]
    BY <1>3, HashAssumption DEF HashInv, NoDuplicates, Occupied
  <2>3. (CHOOSE j \in Waiting : oldKey[j] = oldKey[i]) = i
    BY <2>1
  <2> QED
    BY <1>3, <2>2, <2>3 DEF Contents
<1>4. ASSUME NEW k \in Keys, ~Slotted(k), ~Moving(k) PROVE Contents[k] = Absent
  BY <1>4 DEF Contents, Slotted, Moving
<1> QED
  BY <1>1, <1>2, <1>3, <1>4

\* The same of the next state.
LEMMA ContentsAreNext ==
  ASSUME HashInv'
  PROVE  /\ Contents' = [k \in Keys |-> Contents'[k]]
         /\ \A i \in Indices' : key'[i] \in Keys => Contents'[key'[i]] = val'[i]
         /\ \A i \in Waiting' : oldKey'[i] \in Keys => Contents'[oldKey'[i]] = oldVal'[i]
         /\ \A k \in Keys : ~Slotted(k)' /\ ~Moving(k)' => Contents'[k] = Absent
<1>1. Contents' = [k \in Keys |-> Contents'[k]]
  BY DEF Contents
<1>2. ASSUME NEW i \in Indices', key'[i] \in Keys PROVE Contents'[key'[i]] = val'[i]
  <2>1. Occupied(i)'
    BY <1>2, HashAssumption DEF Occupied
  <2>2. \A j \in Indices' : key'[j] = key'[i] => j = i
    BY <2>1 DEF HashInv, NoDuplicates
  <2>3. (CHOOSE j \in Indices' : key'[j] = key'[i]) = i
    BY <2>2
  <2> QED
    BY <1>2, <2>3 DEF Contents
<1>3. ASSUME NEW i \in Waiting', oldKey'[i] \in Keys PROVE Contents'[oldKey'[i]] = oldVal'[i]
  <2>1. \A j \in Waiting' : oldKey'[j] = oldKey'[i] => j = i
    BY DEF HashInv, NoDuplicates
  <2>2. \A j \in Indices' : key'[j] # oldKey'[i]
    BY <1>3, HashAssumption DEF HashInv, NoDuplicates, Occupied
  <2>3. (CHOOSE j \in Waiting' : oldKey'[j] = oldKey'[i]) = i
    BY <2>1
  <2> QED
    BY <1>3, <2>2, <2>3 DEF Contents
<1>4. ASSUME NEW k \in Keys, ~Slotted(k)', ~Moving(k)' PROVE Contents'[k] = Absent
  BY <1>4 DEF Contents, Slotted, Moving
<1> QED
  BY <1>1, <1>2, <1>3, <1>4

\* A slot is given the key x and the value v, and no other slot or waiting slot has x.
LEMMA PutRefines ==
  ASSUME HashInv, HashInv', UNCHANGED size, Waiting = {}, Waiting' = {},
         NEW n \in Indices, NEW x \in Keys, NEW v,
         key' = [key EXCEPT ![n] = x], val' = [val EXCEPT ![n] = v],
         key[n] = x \/ (~Occupied(n) /\ ~Slotted(x))
  PROVE  Contents' = [Contents EXCEPT ![x] = v] /\ Contents[x] = IF key[n] = x THEN val[n] ELSE Absent
<1>1. /\ Indices' = Indices /\ key'[n] = x /\ val'[n] = v
      /\ \A j \in Indices : j # n => key'[j] = key[j] /\ val'[j] = val[j]
  BY DEF Indices, HashInv, TypeOK
<1>2. \A k \in Keys : ~Moving(k) /\ ~Moving(k)'
  BY DEF Moving
<1>3. Contents'[x] = v
  BY <1>1, ContentsAreNext
<1>4. Contents[x] = IF key[n] = x THEN val[n] ELSE Absent
  BY <1>2, ContentsAre DEF Slotted
<1>5. ASSUME NEW k \in Keys, k # x PROVE Contents'[k] = Contents[k]
  <2>1. key[n] # k
    BY <1>5, HashAssumption DEF Occupied
  <2>2. CASE Slotted(k)
    <3>1. PICK j \in Indices : key[j] = k
      BY <2>2 DEF Slotted
    <3>2. j # n /\ Contents[k] = val[j]
      BY <2>1, <3>1, ContentsAre
    <3> QED
      BY <1>1, <3>1, <3>2, ContentsAreNext
  <2>3. CASE ~Slotted(k)
    <3>1. ~Slotted(k)'
      BY <1>1, <1>5, <2>3 DEF Slotted
    <3> QED
      BY <1>2, <2>3, <3>1, ContentsAre, ContentsAreNext
  <2> QED
    BY <2>2, <2>3
<1>6. Contents' = [k \in Keys |-> Contents'[k]] /\ Contents = [k \in Keys |-> Contents[k]]
  BY ContentsAre, ContentsAreNext
<1> HIDE DEF Contents
<1> QED
  BY <1>3, <1>4, <1>5, <1>6

LEMMA SlotsKept == ASSUME UNCHANGED <<size, key, val, oldSize, oldKey, oldVal, at>> PROVE Contents' = Contents
BY DEF Contents, Indices, Waiting

\* What a step of the map does to a value that is in no range but the table's.
LEMMA NotValues == Null \notin Values /\ Absent \notin Values /\ Absent # Null
BY HashAssumption

LEMMA ExistingRefines ==
  ASSUME OwnInv, HashInv', pc = "idle", NEW r \in Requests, Existing(r)
  PROVE  Map!Next
<1> DEFINE k == r.key
<1>1. PICK n \in Indices : Found(k, n) /\ Apply(r, val, n, val[n], FALSE)
  BY DEF Existing
<1>2. UNCHANGED <<pc, size, key, oldSize, oldKey, oldVal, at>> /\ HashInv
  BY DEF Existing, old, OwnInv
<1>3. k \in Keys /\ key[n] = k
  BY <1>1 DEF Requests, Found
<1>4. Contents = [j \in Keys |-> Contents[j]] /\ Contents[k] = val[n] /\ val[n] \in Values \cup {Null}
  BY <1>2, <1>3, ContentsAre DEF HashInv, TypeOK
<1>5. ASSUME NEW v, val' = [val EXCEPT ![n] = v] PROVE Contents' = [Contents EXCEPT ![k] = v]
  <2>1. key' = [key EXCEPT ![n] = k] /\ Waiting = {} /\ Waiting' = {}
    BY <1>2, <1>3, NoneWaits DEF HashInv, TypeOK, Waiting
  <2>2. size' = size /\ HashInv /\ k \in Keys /\ key[n] = k
    BY <1>2, <1>3
  <2> HIDE DEF k
  <2> QED
    BY <1>5, <2>1, <2>2, PutRefines
<1>6. val' = val => Contents' = Contents
  BY <1>2, SlotsKept
<1>7. r.op \in {"set", "set_value"} => r.val \in Values \ owned
  BY DEF Requests
<1> HIDE DEF Contents
<1>8. CASE r.op = "insert"
  <2>1. Map!Insert(k)
    BY <1>1, <1>4, <1>6, <1>8, NotValues DEF Apply, Reply, Map!Insert, Map!Reply
  <2> QED
    BY <1>3, <2>1 DEF Map!Next
<1>9. CASE r.op = "set"
  <2>1. Map!Set(k, r.val)
    BY <1>1, <1>4, <1>5, <1>9 DEF Apply, Swap, Reply, Map!Set, Map!Reply
  <2> QED
    BY <1>3, <1>7, <1>9, <2>1 DEF Map!Next
<1>10. CASE r.op = "set_value" /\ val[n] # Null
  <2>1. Map!Update(k)
    BY <1>1, <1>4, <1>6, <1>10, NotValues DEF Apply, Reply, Map!Update, Map!Valued, Map!Reply
  <2> QED
    BY <1>3, <2>1 DEF Map!Next
<1>11. CASE r.op = "set_value" /\ val[n] = Null
  <2>1. CASE val' = val /\ owned' = owned /\ Reply("set_value", k, "null")
    <3>1. [Contents EXCEPT ![k] = Null] = Contents
      BY <1>3, <1>4, <1>11
    <3>2. Map!CallbackFails(k)
      BY <1>4, <1>6, <1>11, <2>1, <3>1 DEF Reply, Map!CallbackFails, Map!Valued, Map!Reply
    <3> QED
      BY <1>3, <3>2 DEF Map!Next
  <2>2. CASE val' = [val EXCEPT ![n] = r.val] /\ owned' = owned \cup {r.val} /\ Reply("set_value", k, "update")
    <3>1. Map!Create(k, r.val)
      BY <1>4, <1>5, <1>11, <2>2, NotValues DEF Reply, Map!Create, Map!Valued, Map!Reply
    <3> QED
      BY <1>3, <1>7, <1>11, <3>1 DEF Map!Next
  <2> QED
    BY <1>1, <1>11, <2>1, <2>2 DEF Apply
<1> QED
  BY <1>8, <1>9, <1>10, <1>11 DEF Requests

LEMMA GrowStutters ==
  ASSUME HashInv, HashInv', pc = "idle", NEW r \in Requests, Grow(r)
  PROVE  Contents' = Contents
<1>1. /\ size' = NewSize /\ key' = Blank(NewSize, Empty)
      /\ oldSize' = size /\ oldKey' = key /\ oldVal' = val /\ at' = 0
  BY DEF Grow
<1>2. Waiting = {} /\ Waiting' = {i \in Indices : Occupied(i)}
  BY <1>1, NoneWaits DEF HashInv, TypeOK, Waiting, Indices, Occupied
<1>3. \A k \in Keys : ~Slotted(k)' /\ ~Moving(k)
  BY <1>1, <1>2, HashAssumption DEF Slotted, Moving, Blank, Indices
<1>4. \A k \in Keys : Moving(k)' <=> Slotted(k)
  BY <1>1, <1>2, HashAssumption DEF Slotted, Moving, Occupied
<1>5. ASSUME NEW k \in Keys PROVE Contents'[k] = Contents[k]
  <2>1. CASE Slotted(k)
    <3>1. PICK i \in Indices : key[i] = k
      BY <2>1 DEF Slotted
    <3>2. i \in Waiting' /\ oldKey'[i] = k /\ oldVal'[i] = val[i]
      BY <1>1, <1>2, <3>1, HashAssumption DEF Occupied
    <3> QED
      BY <3>1, <3>2, ContentsAre, ContentsAreNext
  <2>2. CASE ~Slotted(k)
    BY <1>3, <1>4, <2>2, ContentsAre, ContentsAreNext
  <2> QED
    BY <2>1, <2>2
<1>6. Contents' = [k \in Keys |-> Contents'[k]] /\ Contents = [k \in Keys |-> Contents[k]]
  BY ContentsAre, ContentsAreNext
<1> HIDE DEF Contents
<1> QED
  BY <1>5, <1>6

LEMMA MoveStutters == ASSUME HashInv, HashInv', Move PROVE Contents' = Contents
<1>1. /\ at < oldSize /\ at' = at + 1 /\ at \in Nat /\ oldSize \in Nat
      /\ UNCHANGED <<size, oldSize, oldKey, oldVal>> /\ Indices' = Indices
  BY DEF Move, HashInv, TypeOK, Indices
<1>2. CASE oldKey[at] \in {Empty, Tomb} /\ UNCHANGED <<key, val, count>>
  <2>1. Waiting' = Waiting
    BY <1>1, <1>2 DEF Waiting
  <2> QED
    BY <1>1, <1>2, <2>1 DEF Contents
<1>3. CASE oldKey[at] \notin {Empty, Tomb}
  <2>1. PICK n \in Indices : /\ FirstEmpty(oldKey[at], n)
                             /\ key' = [key EXCEPT ![n] = oldKey[at]]
                             /\ val' = [val EXCEPT ![n] = oldVal[at]]
    BY <1>3 DEF Move
  <2>2. /\ key'[n] = oldKey[at] /\ val'[n] = oldVal[at] /\ key[n] = Empty
        /\ \A j \in Indices : j # n => key'[j] = key[j] /\ val'[j] = val[j]
    BY <1>1, <2>1 DEF HashInv, TypeOK, FirstEmpty
  <2>3. at \in Waiting /\ Waiting' = Waiting \ {at}
    BY <1>1, <1>3 DEF Waiting
  <2>4. ASSUME NEW k \in Keys PROVE Contents'[k] = Contents[k]
    <3>1. key[n] # k
      BY <2>2, HashAssumption
    <3>2. CASE k = oldKey[at]
      BY <2>2, <2>3, <3>2, <1>1, ContentsAre, ContentsAreNext
    <3>3. CASE k # oldKey[at] /\ Slotted(k)
      <4>1. PICK j \in Indices : key[j] = k
        BY <3>3 DEF Slotted
      <4> QED
        BY <1>1, <2>2, <3>1, <4>1, ContentsAre, ContentsAreNext
    <3>4. CASE k # oldKey[at] /\ Moving(k)
      <4>1. PICK j \in Waiting : oldKey[j] = k
        BY <3>4 DEF Moving
      <4>2. j \in Waiting' /\ oldKey'[j] = k /\ oldVal'[j] = oldVal[j]
        BY <1>1, <2>3, <3>4, <4>1
      <4> QED
        BY <4>1, <4>2, ContentsAre, ContentsAreNext
    <3>5. CASE k # oldKey[at] /\ ~Slotted(k) /\ ~Moving(k)
      <4>1. ~Slotted(k)' /\ ~Moving(k)'
        BY <1>1, <2>2, <2>3, <3>5 DEF Slotted, Moving
      <4> QED
        BY <3>5, <4>1, ContentsAre, ContentsAreNext
    <3> QED
      BY <3>2, <3>3, <3>4, <3>5
  <2>5. Contents' = [k \in Keys |-> Contents'[k]] /\ Contents = [k \in Keys |-> Contents[k]]
    BY ContentsAre, ContentsAreNext
  <2> HIDE DEF Contents
  <2> QED
    BY <2>4, <2>5
<1> QED
  BY <1>2, <1>3 DEF Move

LEMMA PlaceRefines ==
  ASSUME OwnInv, HashInv', Place
  PROVE  Map!Next
<1> DEFINE k == req.key
<1>1. PICK n \in Indices : /\ FirstFree(k, n) /\ key' = [key EXCEPT ![n] = k]
                           /\ Apply(req, [val EXCEPT ![n] = Null], n, Null, TRUE)
  BY DEF Place
<1>2. /\ pc = "placing" /\ pc' = "idle" /\ HashInv /\ k \in Keys
      /\ UNCHANGED <<size, oldSize, oldKey, oldVal, at>>
  BY DEF Place, old, OwnInv, HashInv, TypeOK
<1>3. Waiting = {} /\ Waiting' = {} /\ ~Occupied(n) /\ ~Slotted(k)
  BY <1>1, <1>2, NoneWaits DEF FirstFree, HashInv, NoDuplicates, Slotted, Waiting
<1>4. key[n] # k
  BY <1>3 DEF Slotted
<1>5. ASSUME NEW v, val' = [val EXCEPT ![n] = v]
      PROVE  Contents' = [Contents EXCEPT ![k] = v] /\ Contents[k] = Absent
  <2> HIDE DEF k
  <2> QED
    BY <1>1, <1>2, <1>3, <1>4, <1>5, PutRefines
<1>6. \A v : [[val EXCEPT ![n] = Null] EXCEPT ![n] = v] = [val EXCEPT ![n] = v]
  BY DEF OwnInv, HashInv, TypeOK
<1>7. req.op \in {"insert", "set", "set_value"} /\ (req.op # "insert" => req.val \in Values \ owned)
  BY <1>2 DEF OwnInv, Brought, HashInv, TypeOK
<1>8. owned \subseteq Values
  BY <1>2 DEF HashInv, TypeOK
<1> HIDE DEF Contents
<1>9. CASE val' = [val EXCEPT ![n] = Null] /\ owned' = owned /\ req.op = "insert" /\ Reply("insert", k, "node")
  <2>1. Map!Insert(k)
    BY <1>5, <1>9 DEF Reply, Map!Insert, Map!Reply
  <2> QED
    BY <1>2, <2>1 DEF Map!Next
<1>10. CASE val' = [val EXCEPT ![n] = Null] /\ owned' = owned /\ Reply("set_value", k, "null")
  <2>1. Map!CallbackFails(k)
    BY <1>5, <1>10 DEF Reply, Map!CallbackFails, Map!Valued, Map!Reply
  <2> QED
    BY <1>2, <2>1 DEF Map!Next
<1>11. CASE /\ val' = [val EXCEPT ![n] = req.val] /\ owned' = owned \cup {req.val}
            /\ req.op = "set_value" /\ Reply("set_value", k, "new")
  <2>1. Map!Create(k, req.val)
    BY <1>5, <1>11 DEF Reply, Map!Create, Map!Valued, Map!Reply
  <2> QED
    BY <1>2, <1>7, <1>11, <2>1 DEF Map!Next
<1>12. CASE /\ val' = [val EXCEPT ![n] = req.val] /\ owned' = (owned \ {Null}) \cup {req.val}
            /\ req.op = "set" /\ Reply("set", k, "node")
  <2>1. owned' = (owned \ {Contents[k]}) \cup {req.val}
    BY <1>5, <1>8, <1>12, NotValues
  <2>2. Map!Set(k, req.val)
    BY <1>5, <1>12, <2>1 DEF Reply, Map!Set, Map!Reply
  <2> QED
    BY <1>2, <1>7, <1>12, <2>2 DEF Map!Next
<1> QED
  BY <1>1, <1>6, <1>9, <1>10, <1>11, <1>12 DEF Apply, Swap

LEMMA RemoveRefines ==
  ASSUME OwnInv, HashInv', NEW k \in Keys, Remove(k)
  PROVE  Map!Next
<1>1. /\ pc = "idle" /\ pc' = "idle" /\ HashInv /\ Reply("remove", k, Null)
      /\ UNCHANGED <<size, oldSize, oldKey, oldVal, at>>
  BY DEF Remove, old, OwnInv
<1>2. Waiting = {} /\ Waiting' = {} /\ Indices' = Indices /\ owned \subseteq Values
  BY <1>1, NoneWaits DEF Waiting, Indices, HashInv, TypeOK
<1>3. \A j \in Keys : ~Moving(j) /\ ~Moving(j)'
  BY <1>2 DEF Moving
<1>4. Contents = [j \in Keys |-> Contents[j]] /\ Contents' = [j \in Keys |-> Contents'[j]]
  BY <1>1, ContentsAre, ContentsAreNext
<1>5. CASE NotFound(k) /\ UNCHANGED <<key, val, count, deleted, owned>>
  <2>1. Contents' = Contents
    BY <1>1, <1>5, SlotsKept
  <2>2. Contents[k] = Absent
    BY <1>1, <1>3, <1>5, AbsentIfNotFound, ContentsAre DEF Slotted
  <2> HIDE DEF Contents
  <2>3. Map!Remove(k)
    BY <1>1, <1>2, <1>4, <1>5, <2>1, <2>2, NotValues DEF Reply, Map!Remove, Map!Reply
  <2> QED
    BY <2>3 DEF Map!Next
<1>6. ASSUME NEW n \in Indices, Found(k, n), key' = [key EXCEPT ![n] = Vacated],
             val' = [val EXCEPT ![n] = Null], owned' = owned \ {val[n]}
      PROVE  Map!Next
  <2>1. /\ key[n] = k /\ key'[n] = Tomb /\ Tomb \notin Keys
        /\ \A j \in Indices : j # n => key'[j] = key[j] /\ val'[j] = val[j]
    BY <1>1, <1>6, HashAssumption DEF Found, HashInv, TypeOK, Vacated
  <2>2. Contents[k] = val[n]
    BY <1>1, <2>1, ContentsAre
  <2>3. Contents'[k] = Absent
    <3>1. \A j \in Indices : key[j] = k => j = n
      BY <1>1, <2>1, HashAssumption DEF HashInv, NoDuplicates, Occupied
    <3>2. ~Slotted(k)'
      BY <1>2, <2>1, <3>1 DEF Slotted
    <3> QED
      BY <1>3, <3>2, ContentsAreNext
  <2>4. ASSUME NEW x \in Keys, x # k PROVE Contents'[x] = Contents[x]
    <3>1. CASE Slotted(x)
      <4>1. PICK j \in Indices : key[j] = x
        BY <3>1 DEF Slotted
      <4>2. key'[j] = x /\ val'[j] = val[j]
        BY <2>1, <2>4, <4>1
      <4> QED
        BY <1>1, <1>2, <4>1, <4>2, ContentsAre, ContentsAreNext
    <3>2. CASE ~Slotted(x)
      <4>1. ~Slotted(x)'
        BY <1>2, <2>1, <3>2 DEF Slotted
      <4> QED
        BY <1>1, <1>3, <3>2, <4>1, ContentsAre, ContentsAreNext
    <3> QED
      BY <3>1, <3>2
  <2> HIDE DEF Contents
  <2>5. Map!Remove(k)
    BY <1>1, <1>4, <1>6, <2>2, <2>3, <2>4 DEF Reply, Map!Remove, Map!Reply
  <2> QED
    BY <2>5 DEF Map!Next
<1> QED
  BY <1>5, <1>6 DEF Remove

LEMMA CleanupRefines ==
  ASSUME OwnInv, HashInv', Cleanup
  PROVE  Map!Next
<1>1. owned' = {} /\ Reply("cleanup", Null, Null)
  BY CleanupOwn DEF Cleanup
<1>2. Indices' = {} /\ Waiting' = {}
  <2>1. size' = 0 /\ pc' # "moving"
    BY DEF Cleanup
  <2> QED
    BY <2>1, NoneWaits DEF Indices, Waiting, HashInv, TypeOK
<1>3. Contents' = [k \in Keys |-> Absent]
  BY <1>2 DEF Contents
<1> QED
  BY <1>1, <1>3 DEF Reply, Map!Cleanup, Map!Next, Map!Reply

\* No memory for the table, for its entry or for the copy of the key: the key is not there.
LEMMA FailureRefines ==
  ASSUME OwnInv, \/ PlaceFails
                 \/ pc = "idle" /\ \E r \in Requests : GrowFails(r)
  PROVE  Map!Next
<1> USE DEF OwnInv
<1>1. UNCHANGED <<slots, old, owned>>
  BY DEF PlaceFails, GrowFails
<1>2. Contents' = Contents
  BY <1>1, SlotsKept DEF slots, old
<1> DEFINE Fails(k) == /\ ~Slotted(k) /\ ~Moving(k)
                       /\ \E op \in {"insert", "set", "set_value"} : Reply(op, k, "null")
<1>3. PICK k \in Keys : Fails(k)
  <2>1. ASSUME PlaceFails PROVE Fails(req.key) /\ req.key \in Keys
    <3>1. req.key \in Keys /\ ~Slotted(req.key) /\ ~Moving(req.key)
      BY <2>1, NoneWaits DEF PlaceFails, HashInv, TypeOK, NoDuplicates, Slotted, Moving
    <3>2. req.op \in {"insert", "set", "set_value"} /\ Reply(req.op, req.key, "null")
      BY <2>1 DEF PlaceFails, Brought, HashInv, TypeOK
    <3> QED
      BY <3>1, <3>2
  <2>2. ASSUME pc = "idle", NEW r \in Requests, GrowFails(r) PROVE Fails(r.key)
    <3>1. r.key \in Keys /\ r.op \in {"insert", "set", "set_value"}
      BY DEF Requests
    <3>2. ~Slotted(r.key) /\ ~Moving(r.key)
      BY <2>2, <3>1, AbsentIfNotFound, NoneWaits DEF GrowFails, Slotted, Moving
    <3> QED
      BY <2>2, <3>1, <3>2 DEF GrowFails
  <2>3. CASE PlaceFails
    <3>1. Fails(req.key) /\ req.key \in Keys
      BY <2>1, <2>3
    <3> QED
      BY <3>1
  <2>4. CASE pc = "idle" /\ \E r \in Requests : GrowFails(r)
    <3>1. PICK r \in Requests : GrowFails(r)
      BY <2>4
    <3>2. Fails(r.key) /\ r.key \in Keys
      BY <2>2, <2>4, <3>1 DEF Requests
    <3> QED
      BY <3>2
  <2> HIDE DEF Fails
  <2> QED
    BY <2>3, <2>4
<1>4. Contents[k] = Absent
  BY <1>3, ContentsAre
<1> HIDE DEF Contents
<1>5. Map!NoMemory(k)
  BY <1>1, <1>2, <1>3, <1>4 DEF Reply, Map!NoMemory, Map!Reply
<1> QED
  BY <1>5 DEF Map!Next

LEMMA StepRefines == ASSUME OwnInv, HashInv', [Next]_vars PROVE [Map!Next]_<<Contents, owned, reply>>
<1>1. CASE Ask
  <2>1. PICK r \in Requests : Existing(r) \/ Grow(r) \/ GrowFails(r) \/ Proceed(r)
    BY <1>1 DEF Ask
  <2>2. pc = "idle" /\ HashInv
    BY <1>1 DEF Ask, OwnInv
  <2>3. CASE Grow(r)
    BY <2>2, <2>3, GrowStutters DEF Grow
  <2>4. CASE Proceed(r)
    BY <2>4, SlotsKept DEF Proceed, slots, old
  <2> QED
    BY <2>1, <2>2, <2>3, <2>4, ExistingRefines, FailureRefines
<1>2. CASE Move
  BY <1>2, MoveStutters DEF Move, OwnInv
<1>3. CASE Moved
  <2>1. Waiting = {} /\ Waiting' = {} /\ Indices' = Indices /\ UNCHANGED <<key, val, owned, reply>>
    BY <1>3 DEF Moved, slots, OwnInv, HashInv, TypeOK, Waiting, Indices
  <2> QED
    BY <2>1 DEF Contents
<1>4. ASSUME NEW k \in Keys, Lookup(k) PROVE Map!Next
  <2>1. HashInv /\ pc = "idle" /\ UNCHANGED <<slots, old, owned>>
    BY <1>4 DEF Lookup, OwnInv
  <2>2. Contents' = Contents
    BY <2>1, SlotsKept DEF slots, old
  <2>3. CASE NotFound(k) /\ Reply("lookup", k, Absent)
    <3>1. Contents[k] = Absent
      BY <2>1, <2>3, AbsentIfNotFound, ContentsAre, NoneWaits DEF Slotted, Moving
    <3> HIDE DEF Contents
    <3>2. Map!Lookup(k)
      BY <2>1, <2>2, <2>3, <3>1 DEF Reply, Map!Lookup, Map!Reply
    <3> QED
      BY <3>2 DEF Map!Next
  <2>4. ASSUME NEW n \in Indices, Found(k, n), Reply("lookup", k, val[n]) PROVE Map!Next
    <3>1. Contents[k] = val[n]
      BY <2>1, <2>4, ContentsAre DEF Found
    <3> HIDE DEF Contents
    <3>2. Map!Lookup(k)
      BY <2>1, <2>2, <2>4, <3>1 DEF Reply, Map!Lookup, Map!Reply
    <3> QED
      BY <3>2 DEF Map!Next
  <2> QED
    BY <1>4, <2>3, <2>4 DEF Lookup
<1>5. CASE UNCHANGED vars
  BY <1>5, SlotsKept DEF vars, slots, old
<1> QED
  BY <1>1, <1>2, <1>3, <1>4, <1>5, PlaceRefines, RemoveRefines, CleanupRefines, FailureRefines DEF Next

LEMMA StartRefines == Init => Map!Init
<1> SUFFICES ASSUME Init PROVE Map!Init
  OBVIOUS
<1>1. HashInv
  BY InitInv
<1>2. \A k \in Keys : ~Slotted(k) /\ ~Moving(k)
  BY <1>1, NoneWaits, HashAssumption DEF Init, Blank, Slotted, Moving, Indices
<1>3. Contents = [k \in Keys |-> Absent]
  BY <1>1, <1>2, ContentsAre
<1> QED
  BY <1>3 DEF Init, Map!Init

\* For any keys, hash codes and sizes the table is a map: what was inserted and not removed is
\* found with the value last stored, through collisions, tombstones, growth and failed
\* allocations; a call that fails for want of memory changes nothing but what the abstract map
\* says, and growth changes nothing at all.
THEOREM ImplementsMap == Spec => MapSpec
<1>1. OwnInv => HashInv
  BY DEF OwnInv
<1>2. OwnInv /\ HashInv' /\ [Next]_vars => [Map!Next]_<<Contents, owned, reply>>
  BY StepRefines
<1> QED
  BY <1>1, <1>2, StartRefines, OwnStart, OwnStep, PTL DEF Spec, MapSpec, Map!Spec
=============================================================================
