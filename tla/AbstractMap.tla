----------------------------- MODULE AbstractMap -----------------------------
(***************************************************************************)
(* What the hash tables of src/hashtable promise: a map from keys to       *)
(* values the table owns.  A key may be present with no value yet.         *)
(***************************************************************************)
CONSTANTS Keys, Values, Null, Absent

VARIABLES contents, owned, reply

Reply(op, k, out) == reply' = [op |-> op, key |-> k, out |-> out]

Init ==
  /\ contents = [k \in Keys |-> Absent]
  /\ owned = {}
  /\ reply = [op |-> "none", key |-> Null, out |-> Null]

Valued(k) == contents[k] \notin {Null, Absent}

Insert(k) ==
  /\ contents' = IF contents[k] = Absent THEN [contents EXCEPT ![k] = Null] ELSE contents
  /\ UNCHANGED owned
  /\ Reply("insert", k, "node")

\* The old value is released, the new one is the table's from now on.
Set(k, v) ==
  /\ contents' = [contents EXCEPT ![k] = v]
  /\ owned' = (owned \ {contents[k]}) \cup {v}
  /\ Reply("set", k, "node")

\* The callback gives a key without a value a new one and updates a value in place.
Create(k, v) ==
  /\ ~Valued(k)
  /\ contents' = [contents EXCEPT ![k] = v]
  /\ owned' = owned \cup {v}
  /\ Reply("set_value", k, IF contents[k] = Absent THEN "new" ELSE "update")

Update(k) ==
  /\ Valued(k)
  /\ UNCHANGED <<contents, owned>>
  /\ Reply("set_value", k, "update")

\* If the callback cannot allocate, the key stays in the table without a value.
CallbackFails(k) ==
  /\ ~Valued(k)
  /\ contents' = [contents EXCEPT ![k] = Null]
  /\ UNCHANGED owned
  /\ Reply("set_value", k, "null")

\* Only a key that is not there needs memory of the table's own.
NoMemory(k) ==
  /\ contents[k] = Absent
  /\ UNCHANGED <<contents, owned>>
  /\ \E op \in {"insert", "set", "set_value"} : Reply(op, k, "null")

Lookup(k) ==
  /\ UNCHANGED <<contents, owned>>
  /\ Reply("lookup", k, contents[k])

Remove(k) ==
  /\ contents' = [contents EXCEPT ![k] = Absent]
  /\ owned' = owned \ {contents[k]}
  /\ Reply("remove", k, Null)

Cleanup ==
  /\ contents' = [k \in Keys |-> Absent]
  /\ owned' = {}
  /\ Reply("cleanup", Null, Null)

Next ==
  \/ Cleanup
  \/ \E k \in Keys :
       \/ Insert(k) \/ Update(k) \/ CallbackFails(k) \/ NoMemory(k)
       \/ Lookup(k) \/ Remove(k)
       \/ \E v \in Values \ owned : Set(k, v) \/ Create(k, v)

Spec == Init /\ [][Next]_<<contents, owned, reply>>
=============================================================================
