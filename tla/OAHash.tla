------------------------------- MODULE OAHash --------------------------------
(***************************************************************************)
(* The open-addressing hash table of src/hashtable/open_address: linear    *)
(* probing, tombstones for removed keys, and growth once occupied slots    *)
(* and tombstones fill 70% of the table.  Each call is one action, except  *)
(* that the growth inside hash_insert moves one old slot per step, so that *)
(* the half-moved table is a state that invariants speak of.               *)
(*                                                                         *)
(* Counts are far below the width of size_t and are not wrapped.           *)
(***************************************************************************)
EXTENDS Integers, FiniteSets, TLC

CONSTANTS
  Keys, Values,  \* texts, and the buffers values are allocated in
  Code,          \* FNV-1a hash of each text, before it is reduced to an index
  Null,          \* nullptr
  Empty, Tomb,   \* SLOT_EMPTY and SLOT_DELETED, where an occupied slot has its key
  Absent,        \* contents of a key that is not in the table
  InitialSizes   \* bucket sizes hash_init is called with

ASSUME HashAssumption ==
  /\ IsFiniteSet(Keys)
  /\ Empty \notin Keys /\ Tomb \notin Keys /\ Empty # Tomb
  /\ Null \notin Values /\ Absent \notin Values /\ Absent # Null
  /\ InitialSizes \subseteq Nat \ {0}
  /\ Code \in [Keys -> Nat]

VARIABLES
  pc,               \* "idle", "moving" or "placing" inside hash_insert, "gone"
  size,             \* bucket_size
  key, val,         \* the slots: what each holds, and its value
  count, deleted,   \* table->count, table->deleted
  oldSize,          \* old_size in hash_resize
  oldKey, oldVal,   \* the slots being moved
  at,               \* index of the next old slot to move
  req,              \* the call in progress
  owned,            \* buffers the table has to release
  reply             \* what the last call returned

slots == <<size, key, val, count, deleted>>
old == <<oldSize, oldKey, oldVal, at>>
vars == <<pc, slots, old, req, owned, reply>>

Reply(op, k, out) == reply' = [op |-> op, key |-> k, out |-> out]

NoReq == [op |-> "none", key |-> Null, val |-> Null]
Blank(n, x) == [i \in 0..(n-1) |-> x]

Init ==
  /\ pc = "idle"
  /\ size \in InitialSizes
  /\ key = Blank(size, Empty) /\ val = Blank(size, Null)
  /\ count = 0 /\ deleted = 0
  /\ oldSize = 0 /\ oldKey = Blank(0, Empty) /\ oldVal = Blank(0, Null) /\ at = 0
  /\ req = NoReq
  /\ owned = {}
  /\ reply = [op |-> "none", key |-> Null, out |-> Null]

Indices == 0..(size-1)

Hash(k, n) == Code[k] % n

\* The slot at distance p from where the probing for k starts; (start + p) % size.
At(k, p) == LET i == Hash(k, size) + p IN IF i < size THEN i ELSE i - size

\* hash_find_slot returns slot i: no earlier probe met k or an empty slot.
Found(k, i) ==
  \E p \in Indices :
    /\ i = At(k, p) /\ key[i] = k
    /\ \A q \in 0..(p-1) : key[At(k, q)] \notin {Empty, k}

Occupied(i) == key[i] \notin {Empty, Tomb}

\* The slot hash_insert fills: the first tombstone met, or the empty slot if there is
\* none; after a fruitless round (230-242) still the first tombstone.
FirstEmpty(k, i) ==
  \E p \in Indices :
    /\ i = At(k, p) /\ key[i] = Empty
    /\ \A q \in 0..(p-1) : key[At(k, q)] # Empty

FirstFree(k, i) ==
  \E p \in Indices :
    /\ i = At(k, p) /\ ~Occupied(i)
    /\ \A q \in 0..(p-1) : Occupied(At(k, q))

LateGrow == count + deleted > size
ShouldGrow == (count + deleted) * 100 >= size * 70
SameSize == size
NewSize == IF 2 * size < 8 THEN 8 ELSE 2 * size

\* hash_set releases the value w it replaces by v.
SwapLeaky(w, v) == owned \cup {v}
Swap(w, v) == (owned \ {w}) \cup {v}

(***************************************************************************)
(* What a caller does with the node hash_insert returned for slot i, whose *)
(* value is w: nothing (hash_insert), hash_set, or hash_set_value with a   *)
(* callback that allocates a value if there is none (as the word counters  *)
(* do), which may fail.  new tells whether the key is new.                 *)
(***************************************************************************)
Apply(r, f, i, w, new) ==
  \/ /\ r.op = "insert"
     /\ val' = f
     /\ UNCHANGED owned
     /\ Reply("insert", r.key, "node")
  \/ /\ r.op = "set"
     /\ val' = [f EXCEPT ![i] = r.val]
     /\ owned' = Swap(w, r.val)
     /\ Reply("set", r.key, "node")
  \/ /\ r.op = "set_value" /\ w = Null
     /\ val' = [f EXCEPT ![i] = r.val]
     /\ owned' = owned \cup {r.val}
     /\ Reply("set_value", r.key, IF new THEN "new" ELSE "update")
  \/ /\ r.op = "set_value" /\ w = Null
     /\ val' = f
     /\ UNCHANGED owned
     /\ Reply("set_value", r.key, "null")
  \/ /\ r.op = "set_value" /\ w # Null
     /\ val' = f
     /\ UNCHANGED owned
     /\ Reply("set_value", r.key, "update")

Existing(r) ==
  /\ \E i \in Indices : Found(r.key, i) /\ Apply(r, val, i, val[i], FALSE)
  /\ UNCHANGED <<pc, size, key, count, deleted, old, req>>

NotFound(k) == \A i \in Indices : ~Found(k, i)

\* hash_resize, up to its loop.
Grow(r) ==
  /\ NotFound(r.key) /\ ShouldGrow
  /\ pc' = "moving" /\ req' = r
  /\ size' = NewSize
  /\ key' = Blank(NewSize, Empty) /\ val' = Blank(NewSize, Null)
  /\ count' = 0 /\ deleted' = 0
  /\ oldSize' = size /\ oldKey' = key /\ oldVal' = val /\ at' = 0
  /\ UNCHANGED <<owned, reply>>

\* calloc fails in hash_resize, or malloc in dup_string below.
GrowFails(r) ==
  /\ NotFound(r.key) /\ ShouldGrow
  /\ Reply(r.op, r.key, "null")
  /\ UNCHANGED <<pc, slots, old, req, owned>>

Proceed(r) ==
  /\ NotFound(r.key) /\ ~ShouldGrow
  /\ pc' = "placing" /\ req' = r
  /\ UNCHANGED <<slots, old, owned, reply>>

\* The value of hash_set, and the one the callback would allocate, is a buffer no
\* table owns.
Requests ==
  [op : {"insert"}, key : Keys, val : {Null}]
    \cup [op : {"set", "set_value"}, key : Keys, val : Values \ owned]

Ask ==
  /\ pc = "idle"
  /\ \E r \in Requests : Existing(r) \/ Grow(r) \/ GrowFails(r) \/ Proceed(r)

\* hash_reinsert_owned; the loop skips old slots that are not occupied.  The branch
\* for a table without an empty slot (97-113) is what RoomToMove shows dead.
Move ==
  /\ pc = "moving" /\ at < oldSize
  /\ \/ /\ oldKey[at] \in {Empty, Tomb}
        /\ UNCHANGED <<key, val, count>>
     \/ /\ oldKey[at] \notin {Empty, Tomb}
        /\ \E i \in Indices :
             /\ FirstEmpty(oldKey[at], i)
             /\ key' = [key EXCEPT ![i] = oldKey[at]]
             /\ val' = [val EXCEPT ![i] = oldVal[at]]
        /\ count' = count + 1
  /\ at' = at + 1
  /\ UNCHANGED <<pc, size, deleted, oldSize, oldKey, oldVal, req, owned, reply>>

Moved ==
  /\ pc = "moving" /\ at = oldSize
  /\ pc' = "placing"
  /\ oldSize' = 0 /\ oldKey' = Blank(0, Empty) /\ oldVal' = Blank(0, Null) /\ at' = 0
  /\ UNCHANGED <<slots, req, owned, reply>>

\* The tombstones left when slot i is filled.
TombsKept(i) == deleted
TombsLeft(i) == IF key[i] = Tomb THEN deleted - 1 ELSE deleted

\* The rest of hash_insert, and what its caller does with the node.  The last return
\* (244) is what RoomToPlace shows dead.
Place ==
  /\ pc = "placing"
  /\ \E i \in Indices :
       /\ FirstFree(req.key, i)
       /\ key' = [key EXCEPT ![i] = req.key]
       /\ Apply(req, [val EXCEPT ![i] = Null], i, Null, TRUE)
       /\ deleted' = TombsLeft(i)
  /\ count' = count + 1
  /\ pc' = "idle" /\ req' = NoReq
  /\ UNCHANGED <<size, old>>

PlaceFails ==
  /\ pc = "placing"
  /\ Reply(req.op, req.key, "null")
  /\ pc' = "idle" /\ req' = NoReq
  /\ UNCHANGED <<slots, old, owned>>

Lookup(k) ==
  /\ pc = "idle"
  /\ \/ \E i \in Indices : Found(k, i) /\ Reply("lookup", k, val[i])
     \/ NotFound(k) /\ Reply("lookup", k, Absent)
  /\ UNCHANGED <<pc, slots, old, req, owned>>

\* What hash_remove leaves in the slot.
VacatedEmpty == Empty
Vacated == Tomb

Remove(k) ==
  /\ pc = "idle"
  /\ \/ \E i \in Indices :
          /\ Found(k, i)
          /\ key' = [key EXCEPT ![i] = Vacated]
          /\ val' = [val EXCEPT ![i] = Null]
          /\ owned' = owned \ {val[i]}
          /\ count' = count - 1 /\ deleted' = deleted + 1
     \/ NotFound(k) /\ UNCHANGED <<key, val, count, deleted, owned>>
  /\ Reply("remove", k, Null)
  /\ UNCHANGED <<pc, size, old, req>>

Cleanup ==
  /\ pc = "idle"
  /\ pc' = "gone"
  /\ owned' = owned \ {val[i] : i \in {j \in Indices : Occupied(j)}}
  /\ size' = 0 /\ key' = Blank(0, Empty) /\ val' = Blank(0, Null)
  /\ count' = 0 /\ deleted' = 0
  /\ Reply("cleanup", Null, Null)
  /\ UNCHANGED <<old, req>>

Next ==
  \/ Ask \/ Move \/ Moved \/ Place \/ PlaceFails \/ Cleanup
  \/ \E k \in Keys : Lookup(k) \/ Remove(k)

Spec == Init /\ [][Next]_vars

-----------------------------------------------------------------------------
(***************************************************************************)
(* Properties.                                                             *)
(***************************************************************************)
\* Every variable stays in its range.
TypeOK ==
  /\ pc \in {"idle", "moving", "placing", "gone"}
  /\ size \in Nat /\ (pc # "gone" => size > 0)
  /\ key \in [Indices -> Keys \cup {Empty, Tomb}]
  /\ val \in [Indices -> Values \cup {Null}]
  /\ count \in Nat /\ deleted \in Nat
  /\ oldSize \in Nat /\ at \in 0..oldSize
  /\ oldKey \in [0..(oldSize-1) -> Keys \cup {Empty, Tomb}]
  /\ oldVal \in [0..(oldSize-1) -> Values \cup {Null}]
  /\ IF pc = "moving" THEN oldSize < size ELSE oldSize = 0
  /\ owned \subseteq Values
  /\ req \in [op : {"none", "insert", "set", "set_value"}, key : Keys \cup {Null},
             val : Values \cup {Null}]
  /\ pc \in {"moving", "placing"} =>
       req.key \in Keys /\ (req.op # "insert" => req.val \in Values)

\* A key is where its probing finds it: no empty slot on the way.
Reachable ==
  \A i \in Indices : Occupied(i) =>
    \E p \in Indices : i = At(key[i], p) /\ \A q \in 0..(p-1) : key[At(key[i], q)] # Empty

Waiting == {i \in 0..(oldSize-1) : i >= at /\ oldKey[i] \notin {Empty, Tomb}}

\* No key occurs twice, neither among the slots nor among those still to be moved, and
\* the key about to be placed does not occur.
NoDuplicates ==
  /\ \A i, j \in Indices : Occupied(i) /\ key[i] = key[j] => i = j
  /\ \A i, j \in Waiting : oldKey[i] = oldKey[j] => i = j
  /\ \A i \in Indices, j \in Waiting : Occupied(i) => key[i] # oldKey[j]
  /\ pc \in {"moving", "placing"} =>
       /\ \A i \in Indices : key[i] # req.key
       /\ \A i \in Waiting : oldKey[i] # req.key

\* count and deleted count what they say; while moving, at most one slot per slot seen,
\* and hash_insert's last loop starts on a table that is not full.
Counted ==
  /\ count = Cardinality({i \in Indices : Occupied(i)})
  /\ deleted = Cardinality({i \in Indices : key[i] = Tomb})
  /\ pc = "moving" => count <= at /\ deleted = 0
  /\ pc = "placing" => count < size

\* The inductive invariant: types, probe paths, keys and counters together.
HashInv == TypeOK /\ Reachable /\ NoDuplicates /\ Counted

\* There is room: a key being moved finds an empty slot, a new one a free slot.
RoomToMove ==
  pc = "moving" /\ at < oldSize /\ oldKey[at] \in Keys =>
    \E i \in Indices : FirstEmpty(oldKey[at], i)

RoomToPlace ==
  pc = "placing" => \E i \in Indices : FirstFree(req.key, i)

Room == RoomToMove /\ RoomToPlace

Held(i) == Occupied(i) /\ val[i] # Null
OldHeld(i) == i \in Waiting /\ oldVal[i] # Null

\* Every buffer the table owns is the value of exactly one key: nothing leaks, nothing
\* is released twice, and after hash_cleanup nothing is left.
Ownership ==
  /\ \A v \in Values : v \in owned <=>
       (\E i \in Indices : Held(i) /\ val[i] = v) \/ (\E i \in Waiting : oldVal[i] = v)
  /\ \A i, j \in Indices : Held(i) /\ val[i] = val[j] => i = j
  /\ \A i, j \in Waiting : OldHeld(i) /\ oldVal[i] = oldVal[j] => i = j
  /\ \A i \in Indices, j \in Waiting : Held(i) => val[i] # oldVal[j]
  /\ \A i \in Indices : ~Occupied(i) => val[i] = Null

Contents ==
  [k \in Keys |->
     IF \E i \in Indices : key[i] = k THEN val[CHOOSE i \in Indices : key[i] = k]
     ELSE IF \E i \in Waiting : oldKey[i] = k THEN oldVal[CHOOSE i \in Waiting : oldKey[i] = k]
     ELSE Absent]

Map == INSTANCE AbstractMap WITH contents <- Contents

\* The table is a map: what was inserted and not removed is found, through growth,
\* tombstones and failed allocations, with the value last stored.
MapSpec == Map!Spec

-----------------------------------------------------------------------------
\* For TLC: a text that is a number is its own hash, and buffers are alike.
OwnCode == [k \in Keys |-> k]
Renamings == Permutations(Values)
=============================================================================
