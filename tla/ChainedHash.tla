----------------------------- MODULE ChainedHash ------------------------------
(***************************************************************************)
(* The chained hash table of src/hashtable/hashtable.c: a bucket is a      *)
(* doubly linked list of nodes, new nodes in front; a node owns the buffer *)
(* its value is in.  Each call is one action, except for hash_merge and    *)
(* hash_clone_merge, which take one step per node copied, because each     *)
(* copy allocates twice and may fail between.                              *)
(*                                                                         *)
(* Nodes and buffers are the memory there is.  malloc may fail at any call *)
(* and otherwise returns the free cell CHOOSE takes.  A value is a count,  *)
(* as in the programs that use the table.                                  *)
(***************************************************************************)
EXTENDS Naturals, FiniteSets

CONSTANTS
  Keys,
  Code,      \* hash of each key before it is reduced modulo the number of buckets
  Handles,   \* the struct HashTable variables of the program
  Temp,      \* the one in hash_clone_merge
  Nodes, Bufs,
  Null,
  Uses,      \* the ways programs use tables: which tables, with which keys and how many buckets
  SetBytes,  \* sizes hash_set is called with: 1, or 0 for a value merges do not copy
  MaxCount   \* bound on a value

\* A node in use, and what a table has for a key that is there.
Cell == [text : Keys, next : Nodes \cup {Null}, prev : Nodes \cup {Null}, val : Bufs \cup {Null},
         bytes : {0, 1}, own : BOOLEAN]
Held == [count : 0..MaxCount, bytes : {0, 1}]

ASSUME ChainAssumption ==
  /\ Code \in [Keys -> Nat] /\ MaxCount \in Nat \ {0}
  /\ \A u \in Uses : u.tables \subseteq Handles /\ u.keys \subseteq Keys /\ u.sizes \subseteq Nat \ {0}
  /\ SetBytes \subseteq {0, 1} /\ IsFiniteSet(Nodes)
  /\ Null \notin Nodes \cup Bufs \cup Cell \cup Held /\ Temp \notin Handles

VARIABLES
  use,    \* how this program uses the tables
  live,   \* tables that are initialised
  head,   \* head[h][i]: first node of bucket i
  node,   \* what each cell holds, Null if it is free
  buf,    \* the count in each buffer, 0 if it is free
  job,    \* the merge in progress
  answer  \* what a merge returned, until the next call

vars == <<use, live, head, node, buf, job, answer>>

Tables == Handles \cup {Temp}
NoJob == [op |-> "none"]

Init ==
  /\ use \in Uses
  /\ live = {}
  /\ head = [h \in Tables |-> <<>>]
  /\ node = [a \in Nodes |-> Null]
  /\ buf = [b \in Bufs |-> 0]
  /\ job = NoJob
  /\ answer = NoJob

Buckets(h) == DOMAIN head[h]
Bucket(h, k) == Code[k] % Cardinality(Buckets(h))

Cells == {a \in Nodes : node[a] # Null}

\* All that next leads to from a, and the nodes of a bucket.
Trail[a \in Cells \cup {Null}] == IF a = Null THEN {} ELSE {a} \cup Trail[node[a].next]
Chain(h, i) == Trail[head[h][i]]

In(h) == UNION {Chain(h, i) : i \in Buckets(h)}

\* hash_lookup: the node of k, if there is one (a chain has a key once, see Chains).
Lookup(h, k) == {a \in Chain(h, Bucket(h, k)) : node[a].text = k}
Missing(h, k) == Lookup(h, k) = {}
Found(h, k) == CHOOSE a \in Lookup(h, k) : TRUE

NewNode == CHOOSE a \in Nodes : node[a] = Null
NewBuf == CHOOSE b \in Bufs : buf[b] = 0
NodeLeft == \E a \in Nodes : node[a] = Null
BufLeft == \E b \in Bufs : buf[b] = 0

\* insert_node: node a for k in front of its bucket, with the value v.
LinkedOneWay(h, k, a, v) ==
  [node EXCEPT ![a] =
     [text |-> k, next |-> head[h][Bucket(h, k)], prev |-> Null, val |-> v.val, bytes |-> v.bytes, own |-> v.own]]
Linked(h, k, a, v) ==
  LET first == head[h][Bucket(h, k)]
  IN  [m \in Nodes |->
         IF m = a
         THEN [text |-> k, next |-> first, prev |-> Null, val |-> v.val, bytes |-> v.bytes, own |-> v.own]
         ELSE IF m = first THEN [node[m] EXCEPT !.prev = a] ELSE node[m]]

Push(h, k, v) ==
  /\ NodeLeft
  /\ node' = Linked(h, k, NewNode, v)
  /\ head' = [head EXCEPT ![h][Bucket(h, k)] = NewNode]

NoValue == [val |-> Null, bytes |-> 0, own |-> FALSE]
Value(b) == [val |-> b, bytes |-> 1, own |-> TRUE]

\* release_node on the chains of tables hs: their nodes, and the values they own.
Release(hs) ==
  LET gone == UNION {In(h) : h \in hs}
      bufs == {node[a].val : a \in {a \in gone : node[a].own}}
  IN  /\ node' = [a \in Nodes |-> IF a \in gone THEN Null ELSE node[a]]
      /\ buf' = [b \in Bufs |-> IF b \in bufs THEN 0 ELSE buf[b]]

-----------------------------------------------------------------------------
(***************************************************************************)
(* Calls of one step.                                                      *)
(***************************************************************************)
Call == job = NoJob /\ answer' = NoJob

New(h) ==
  /\ Call /\ h \notin live
  /\ live' = live \cup {h}
  /\ \E n \in use.sizes : head' = [head EXCEPT ![h] = [i \in 0..(n-1) |-> Null]]
  /\ UNCHANGED <<node, buf, job>>

BucketsKept(h) == head
NoBuckets(h) == [head EXCEPT ![h] = <<>>]

Cleanup(h) ==
  /\ Call /\ h \in live
  /\ live' = live \ {h}
  /\ head' = NoBuckets(h)
  /\ Release({h})
  /\ UNCHANGED job

\* hash_insert; a key that is there, or no memory, changes nothing.
Insert(h, k) ==
  /\ Call /\ h \in live /\ Missing(h, k)
  /\ Push(h, k, NoValue)
  /\ UNCHANGED <<live, buf, job>>

\* hash_set with a buffer of the caller's that the table is to free, of bytes given or 0.  A
\* value without a cleanup, whose copy made in a merge no call would free, is left out.
Set(h, k, bytes) ==
  /\ Call /\ h \in live /\ BufLeft
  /\ LET v == [val |-> NewBuf, bytes |-> bytes, own |-> TRUE]
     IN  \/ /\ Missing(h, k) /\ Push(h, k, v)
            /\ buf' = [buf EXCEPT ![NewBuf] = 1]
         \/ \E a \in Lookup(h, k) :
              /\ node' = [node EXCEPT ![a].val = v.val, ![a].bytes = v.bytes, ![a].own = v.own]
              /\ buf' = [b \in Bufs |-> IF b = NewBuf THEN 1
                                        ELSE IF b = node[a].val /\ node[a].own THEN 0 ELSE buf[b]]
              /\ UNCHANGED head
  /\ UNCHANGED <<live, job>>

\* hash_set_value with the callback insert_set of hash-sorted.c, which allocates a count
\* or adds 1 to it; if it cannot allocate, the key stays without a value.
SetValue(h, k) ==
  /\ Call /\ h \in live
  /\ \/ /\ Missing(h, k) /\ BufLeft
        /\ Push(h, k, Value(NewBuf))
        /\ buf' = [buf EXCEPT ![NewBuf] = 1]
     \/ /\ Missing(h, k)
        /\ Push(h, k, Value(Null))
        /\ UNCHANGED buf
     \/ \E a \in Lookup(h, k) :
          /\ UNCHANGED head
          /\ \/ /\ node[a].val = Null /\ BufLeft
                /\ node' = [node EXCEPT ![a].val = NewBuf, ![a].bytes = 1, ![a].own = TRUE]
                /\ buf' = [buf EXCEPT ![NewBuf] = 1]
             \/ /\ node[a].val = Null
                /\ node' = [node EXCEPT ![a].bytes = 1, ![a].own = TRUE]
                /\ UNCHANGED buf
             \/ /\ node[a].val # Null /\ buf[node[a].val] < MaxCount
                /\ node' = [node EXCEPT ![a].own = TRUE]
                /\ buf' = [buf EXCEPT ![node[a].val] = @ + 1]
  /\ UNCHANGED <<live, job>>

\* hash_remove: the neighbours of node a are linked to each other.
UnlinkedOneWay(a) ==
  [m \in Nodes |->
     CASE m = a -> Null
       [] m # a /\ m = node[a].prev -> [node[m] EXCEPT !.next = node[a].next]
       [] OTHER -> node[m]]
Unlinked(a) ==
  [m \in Nodes |->
     CASE m = a -> Null
       [] m # a /\ m = node[a].prev -> [node[m] EXCEPT !.next = node[a].next]
       [] m # a /\ m = node[a].next -> [node[m] EXCEPT !.prev = node[a].prev]
       [] OTHER -> node[m]]

\* What the bucket starts with when its first node a is removed.
Nothing(a) == Null
Rest(a) == node[a].next

Remove(h, k) ==
  /\ Call /\ h \in live
  /\ \E a \in Lookup(h, k) :
       /\ node' = Unlinked(a)
       /\ head' = IF node[a].prev = Null THEN [head EXCEPT ![h][Bucket(h, k)] = Rest(a)] ELSE head
       /\ buf' = [b \in Bufs |-> IF b = node[a].val /\ node[a].own THEN 0 ELSE buf[b]]
  /\ UNCHANGED <<live, job>>

-----------------------------------------------------------------------------
(***************************************************************************)
(* hash_merge and hash_clone_merge of two different tables.  job.fills is  *)
(* the table being filled, job.at the next node of job.from to copy.       *)
(***************************************************************************)
\* What a table holds: for each key nothing, or its value (0 if it has none) and bytes.
Contents(h) ==
  [k \in Keys |->
     IF h \notin live \/ Missing(h, k) THEN Null
     ELSE LET n == node[Found(h, k)]
          IN  [count |-> IF n.val = Null THEN 0 ELSE buf[n.val], bytes |-> n.bytes]]

\* was records the tables before the call, for the properties.
Merge(op, to, from, file, filling) ==
  job' = [op |-> op, to |-> to, from |-> from, file |-> file, fills |-> filling,
          bucket |-> 0, at |-> head[from][0], was |-> [h \in Handles |-> Contents(h)]]

StartMerge(t, f) ==
  /\ Call /\ t \in live /\ f \in live
  /\ Merge("merge", t, f, f, t)
  /\ UNCHANGED <<live, head, node, buf>>

\* hash_clone_merge merges the global table into temp, then the file's table.
StartCloneMerge(g, f) ==
  /\ Call /\ g \in live /\ f \in live
  /\ live' = live \cup {Temp}
  /\ head' = [head EXCEPT ![Temp] = [i \in Buckets(g) |-> Null]]
  /\ Merge("clone", g, g, f, Temp)
  /\ UNCHANGED <<node, buf>>

Merging == job # NoJob /\ job.at # Null
Key == node[job.at].text
HasAnyValue == node[job.at].val # Null
HasValue == node[job.at].bytes # 0 /\ node[job.at].val # Null
Advance == job' = [job EXCEPT !.at = node[@].next]

\* A key that the table has keeps its value.
Skip ==
  /\ Merging /\ ~Missing(job.fills, Key)
  /\ Advance
  /\ UNCHANGED <<live, head, node, buf, answer>>

\* The value of the copy made of the node the merge is at.
Copied == [val |-> NewBuf, bytes |-> node[job.at].bytes, own |-> node[job.at].own]

Copy ==
  /\ Merging /\ Missing(job.fills, Key)
  /\ IF HasValue
     THEN /\ BufLeft
          /\ Push(job.fills, Key, Copied)
          /\ buf' = [buf EXCEPT ![NewBuf] = buf[node[job.at].val]]
     ELSE /\ Push(job.fills, Key, NoValue)
          /\ UNCHANGED buf
  /\ Advance
  /\ UNCHANGED <<live, answer>>

Return(ok) ==
  /\ job' = NoJob
  /\ answer' = [op |-> job.op, ok |-> ok, to |-> job.to, file |-> job.file, was |-> job.was]

\* Memory runs out: hash_merge leaves what it has copied, and the key whose value it could
\* not copy without one; hash_clone_merge throws temp away.
MergeFails ==
  /\ Merging /\ job.op = "merge" /\ Missing(job.fills, Key)
  /\ \/ UNCHANGED <<head, node>>
     \/ HasValue /\ Push(job.fills, Key, NoValue)
  /\ Return(FALSE)
  /\ UNCHANGED <<live, buf>>

Discard == Release({Temp})

CloneFails ==
  /\ Merging /\ job.op = "clone" /\ Missing(job.fills, Key)
  /\ live' = live \ {Temp}
  /\ head' = [head EXCEPT ![Temp] = <<>>]
  /\ Discard
  /\ Return(FALSE)

Walked == job # NoJob /\ job.at = Null
LastBucket == job.bucket + 1 = Cardinality(Buckets(job.from))

NextBucket ==
  /\ Walked /\ ~LastBucket
  /\ job' = [job EXCEPT !.bucket = @ + 1, !.at = head[job.from][job.bucket + 1]]
  /\ UNCHANGED <<live, head, node, buf, answer>>

\* hash_clone_merge has copied the global table and goes on with the file's.
ClonedLast == FALSE
Cloned == job.op = "clone" /\ job.from = job.to

CopyFile ==
  /\ Walked /\ LastBucket /\ Cloned
  /\ job' = [job EXCEPT !.from = job.file, !.bucket = 0, !.at = head[job.file][0]]
  /\ UNCHANGED <<live, head, node, buf, answer>>

MergeDone ==
  /\ Walked /\ LastBucket /\ job.op = "merge"
  /\ Return(TRUE)
  /\ UNCHANGED <<live, head, node, buf>>

\* The global table is released and temp takes its place.
Swap ==
  /\ Walked /\ LastBucket /\ job.op = "clone" /\ ~Cloned
  /\ live' = live \ {Temp}
  /\ head' = [head EXCEPT ![job.to] = head[Temp], ![Temp] = <<>>]
  /\ Release({job.to})
  /\ Return(TRUE)

Step ==
  \/ Skip \/ Copy \/ MergeFails \/ CloneFails \/ NextBucket \/ CopyFile \/ MergeDone \/ Swap
  \/ \E h \in use.tables :
       \/ New(h) \/ Cleanup(h)
       \/ \E k \in use.keys :
            Insert(h, k) \/ SetValue(h, k) \/ Remove(h, k) \/ \E bytes \in SetBytes : Set(h, k, bytes)
       \/ \E f \in use.tables \ {h} : StartMerge(h, f) \/ StartCloneMerge(h, f)

Next == Step /\ UNCHANGED use

Spec == Init /\ [][Next]_vars

-----------------------------------------------------------------------------
(***************************************************************************)
(* Properties.                                                             *)
(***************************************************************************)
Jobs == [op : {"merge", "clone"}, to : Handles, from : Handles, file : Handles, fills : Tables,
         bucket : Nat, at : Nodes \cup {Null}, was : [Handles -> [Keys -> Held \cup {Null}]]]

\* Every variable stays in its range, only live tables have buckets, and a merge is about
\* live tables and a node of the table it reads.
TypeOK ==
  /\ use \in Uses /\ live \subseteq Tables /\ DOMAIN head = Tables
  /\ node \in [Nodes -> Cell \cup {Null}] /\ buf \in [Bufs -> 0..MaxCount]
  /\ \A h \in Tables \ live : head[h] = <<>>
  /\ \A h \in live : \E n \in use.sizes : head[h] \in [0..(n-1) -> Cells \cup {Null}]
  /\ job \in Jobs \cup {NoJob}
  /\ IF job = NoJob THEN Temp \notin live
     ELSE /\ answer = NoJob /\ {job.to, job.from, job.file, job.fills} \subseteq live /\ job.to # job.file
          /\ IF job.op = "merge" THEN job.fills = job.to /\ job.from = job.file /\ Temp \notin live
             ELSE job.fills = Temp /\ job.from \in {job.to, job.file}
          /\ job.bucket \in Buckets(job.from) /\ job.at \in Chain(job.from, job.bucket) \cup {Null}

\* The lists are sound after any sequence of insertions, removals and merges: prev and next
\* undo each other, the first node has no prev, every node is in the bucket its key hashes to, a key
\* is in a table once, and no node is in two lists.
Chains ==
  /\ \A a \in Cells :
       /\ node[a].next # Null => node[a].next \in Cells /\ node[node[a].next].prev = a
       /\ node[a].prev # Null => node[a].prev \in Cells /\ node[node[a].prev].next = a
  /\ \A h \in live : \A i \in Buckets(h) :
       LET chain == Chain(h, i)
       IN  /\ head[h][i] # Null => node[head[h][i]].prev = Null
           /\ \A a \in chain :
                /\ Bucket(h, node[a].text) = i
                /\ \A b \in chain : node[b].text = node[a].text => a = b
  /\ \A g, h \in live : g # h => In(g) \cap In(h) = {}

\* Nothing leaks and nothing is released twice: every cell in use is in a list, and every
\* buffer in use is the value of exactly one node, which releases it.
NoLeak ==
  /\ Cells = UNION {In(h) : h \in live}
  /\ \A b \in Bufs :
       LET users == {a \in Cells : node[a].val = b}
       IN  IF buf[b] = 0 THEN users = {}
           ELSE Cardinality(users) = 1 /\ \A a \in users : node[a].own

\* What holds of all tables between and during calls.
TablesInv == TypeOK /\ Chains /\ NoLeak

\* A key that gets a copy has the value of the original, if that has a size.
CopyOf(c) == IF c # Null /\ (c.bytes = 0 \/ c.count = 0) THEN [count |-> 0, bytes |-> 0] ELSE c

\* A merge that succeeds gives the table the keys it lacks and leaves the values it has;
\* one that fails has added some of them.
MergeRight ==
  answer # NoJob /\ answer.op = "merge" =>
    LET old == answer.was[answer.to]
        new == answer.was[answer.file]
        now == Contents(answer.to)
    IN  \A k \in Keys :
          IF old[k] # Null THEN now[k] = old[k]
          ELSE \/ now[k] = CopyOf(new[k])
               \/ ~answer.ok /\ now[k] \in {Null, CopyOf([count |-> 0, bytes |-> 0])}

\* hash_clone_merge is all or nothing: the global table is the union afterwards, its own
\* values first, or what it was before.
CloneMergeAtomic ==
  answer # NoJob /\ answer.op = "clone" =>
    LET old == answer.was[answer.to]
        new == answer.was[answer.file]
        now == Contents(answer.to)
    IN  \A k \in Keys :
          now[k] = IF ~answer.ok THEN old[k]
                   ELSE IF old[k] # Null THEN CopyOf(old[k]) ELSE CopyOf(new[k])

\* What the merge in progress has given, or found, in the table it fills before the walk of
\* job.from began, and the keys that walk has still to come to.
Given(k) ==
  IF job.op = "merge" THEN job.was[job.to][k] ELSE IF Cloned THEN Null ELSE CopyOf(job.was[job.to][k])
Ahead ==
  LET later == {i \in Buckets(job.from) : i > job.bucket}
  IN  {node[a].text : a \in Trail[job.at] \cup UNION {Chain(job.from, i) : i \in later}}

\* During a merge only the table it fills changes, which has what it was given, and of the
\* table being walked copies only, all but of the keys still to come.
MergeProgress ==
  job # NoJob =>
    /\ \A h \in Handles \ {job.fills} : Contents(h) = job.was[h]
    /\ LET source == job.was[job.from]
           now == Contents(job.fills)
       IN  \A k \in Keys :
             IF Given(k) # Null THEN now[k] = Given(k)
             ELSE /\ now[k] \in {Null, CopyOf(source[k])}
                  /\ now[k] = Null /\ source[k] # Null => k \in Ahead

\* Both ways to merge, with what a failed allocation may leave behind.
MergesRight == MergeRight /\ CloneMergeAtomic /\ MergeProgress

\* The keys of tables in use before and after a step that have something else after it.
Changed ==
  {c \in (live \cap live' \cap Handles) \X Keys : Contents(c[1])[c[2]] # Contents(c[1])'[c[2]]}

\* Only what a call is about changes: any step but a clean-up changes at most one key of
\* one table, except that a clone merge replaces the table it was given.
OneKey ==
  \/ Cardinality(Changed) <= 1
  \/ job # NoJob /\ job.op = "clone" /\ \A c \in Changed : c[1] = job.to
OthersKeep == [][OneKey]_vars

=============================================================================
