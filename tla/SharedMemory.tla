---------------------------- MODULE SharedMemory -----------------------------
(***************************************************************************)
(* Memory of two processes or of two threads: the object of shm/, which    *)
(* nothing protects, and the counters of the semaphore programs, which a   *)
(* semaphore does.                                                         *)
(***************************************************************************)
EXTENDS Integers, Sequences, FiniteSets

(***************************************************************************)
(* shm/shm_create.c and shm/shm_proc.c: a creator stores 1 in a shared     *)
(* memory object under a name, a reader prints what it finds there and     *)
(* removes the name.  Several of each may run, in any order; any system    *)
(* call may fail.  An object lives on without its name.                    *)
(***************************************************************************)
CONSTANTS
  Creators, Readers,
  Objects, NoObject   \* the objects the name may come to mean: one per creator is enough

\* No process is of both kinds.
ShmAssumption == Creators \cap Readers = {} /\ NoObject \notin Objects

Shmers == Creators \cup Readers

VARIABLES
  name,          \* the object "/proc_program" names
  used,          \* the objects made so far
  sized,         \* those that are as long as the data, and not of length 0
  stored,        \* those that hold a 1, and not the 0 they begin with
  spc,           \* each process
  opened,        \* the object it opened
  seen           \* the size a reader found, and then the value it printed

shmvars == <<name, used, sized, stored, spc, opened, seen>>

ShmInit ==
  /\ name = NoObject /\ used = {} /\ sized = {} /\ stored = {}
  /\ spc = [p \in Shmers |-> "start"]
  /\ opened = [p \in Shmers |-> NoObject]
  /\ seen = [p \in Readers |-> "nothing"]

Moves(p, from, to) == spc[p] = from /\ spc' = [spc EXCEPT ![p] = to]
\* A call is refused, and the program ends.
Refused(p, from) ==
  /\ Moves(p, from, "failed")
  /\ UNCHANGED <<name, used, sized, stored, opened, seen>>

----------------------------------------------------------------------------
\* shm_open with O_CREAT: the object of that name, or a new one.
Create(p) ==
  /\ Moves(p, "start", "truncate")
  /\ \E o \in IF name = NoObject THEN Objects \ used ELSE {name} :
       /\ opened' = [opened EXCEPT ![p] = o]
       /\ name' = o /\ used' = used \cup {o}
  /\ UNCHANGED <<sized, stored, seen>>

\* ftruncate: an object that has its length keeps its contents.
Truncate(p) ==
  /\ Moves(p, "truncate", "store")
  /\ sized' = sized \cup {opened[p]}
  /\ UNCHANGED <<name, used, stored, opened, seen>>

\* mmap and the store.
StoreValue(p) ==
  /\ Moves(p, "store", "done")
  /\ stored' = stored \cup {opened[p]}
  /\ UNCHANGED <<name, used, sized, opened, seen>>

----------------------------------------------------------------------------
\* shm_open of a reader, which does not create.
OpenName(p) ==
  /\ name # NoObject /\ Moves(p, "start", "stat")
  /\ opened' = [opened EXCEPT ![p] = name]
  /\ UNCHANGED <<name, used, sized, stored, seen>>

\* fstat: the length it will map.
StatSize(p) ==
  /\ Moves(p, "stat", "map")
  /\ seen' = [seen EXCEPT ![p] = IF opened[p] \in sized THEN "data" ELSE "empty"]
  /\ UNCHANGED <<name, used, sized, stored, opened>>

\* mmap refuses a length of 0.
MapObject(p) ==
  /\ seen[p] = "data" /\ Moves(p, "map", "print")
  /\ UNCHANGED <<name, used, sized, stored, opened, seen>>

PrintValue(p) ==
  /\ Moves(p, "print", "unlink")
  /\ seen' = [seen EXCEPT ![p] = IF opened[p] \in stored THEN "one" ELSE "zero"]
  /\ UNCHANGED <<name, used, sized, stored, opened>>

\* shm_unlink removes whatever has the name by now; it may fail, and the reader ends all the same.
Unlink(p) ==
  /\ Moves(p, "unlink", "done")
  /\ name' = NoObject
  /\ UNCHANGED <<used, sized, stored, opened, seen>>

ShmNext ==
  \/ \E p \in Creators :
       \/ Create(p) \/ Truncate(p) \/ StoreValue(p)
       \/ \E at \in {"start", "truncate", "store"} : Refused(p, at)
  \/ \E p \in Readers :
       \/ OpenName(p) \/ StatSize(p) \/ MapObject(p) \/ PrintValue(p) \/ Unlink(p)
       \/ \E at \in {"start", "stat", "map"} : Refused(p, at)
       \/ Moves(p, "unlink", "done") /\ UNCHANGED <<name, used, sized, stored, opened, seen>>

ShmSpec == ShmInit /\ [][ShmNext]_shmvars

----------------------------------------------------------------------------
ShmTypeOK ==
  /\ name \in used \cup {NoObject} /\ used \subseteq Objects
  /\ stored \subseteq sized /\ sized \subseteq used
  /\ seen \in [Readers -> {"nothing", "empty", "data", "zero", "one"}]

\* A reader never looks at memory the object does not have: the length it mapped is there.
Mapped == \A p \in Readers : spc[p] \in {"print", "unlink"} => opened[p] \in sized

\* A 1 is printed only when a creator has stored it in the object that was read.
OneIsStored == \A p \in Readers : seen[p] = "one" => opened[p] \in stored

\* A creator that is done has its 1 in the object it opened, whoever else made, sized or
\* unlinked it in between.
DoneIsStored == \A p \in Creators : spc[p] = "done" => opened[p] \in stored

\* A name is gone only where a reader got as far as its unlink.
NameKept == name = NoObject /\ used # {} => \E p \in Readers : spc[p] = "done"

\* The object is mapped when it is used, and holds what a creator stored.
ShmInv == ShmTypeOK /\ Mapped /\ OneIsStored /\ DoneIsStored /\ NameKept

(***************************************************************************)
(* Two workers and a lock: semaphore_proc.c (a parent and its child share  *)
(* a semaphore and a counter in anonymous memory), semaphore_thread.c (the *)
(* same in two threads), semaphore_thread_wake.c (a thread waits, another  *)
(* posts) and thread-ex1.c / thread-local.c (two threads under a mutex,    *)
(* each with a counter of its own).  An increment is a read and a write.   *)
(* Threads are assumed to be created: their programs do not check it.      *)
(***************************************************************************)
CONSTANTS
  LockPrograms,  \* a subset of {"proc", "thread", "wake", "local"}
  Iter           \* rounds of the programs that loop (3 and 100 in the code)

LockAssumption == LockPrograms \subseteq {"proc", "thread", "wake", "local"} /\ Iter \in Nat \ {0}

Workers == {"first", "second"}   \* the parent or main thread is the first, but in "local"

VARIABLES
  lprog,         \* the program
  phase,         \* of main: init, start, work, joined, over
  lock,          \* the semaphore's value, or the mutex as a semaphore of one
  ready,         \* whether it is initialised
  counter,       \* the shared counter and each worker's own
  at,            \* each worker's next step
  reg,           \* what it read of the counter
  round,         \* the rounds it finished
  told           \* what the workers printed, in order

lockvars == <<lprog, phase, lock, ready, counter, at, reg, round, told>>

Counting == {"proc", "thread"}
LockRounds == IF lprog \in {"proc", "local"} THEN Iter ELSE 1
Cell(w) == IF lprog = "local" THEN w ELSE "shared"
FirstStep(w) == IF lprog = "wake" /\ w = "first" THEN "load" ELSE "wait"

LockInit ==
  /\ lprog \in LockPrograms
  /\ phase = "init" /\ lock = 0 /\ ready = FALSE
  /\ counter = [c \in Workers \cup {"shared"} |-> 0]
  /\ at = [w \in Workers |-> "none"]
  /\ reg = [w \in Workers |-> 0] /\ round = [w \in Workers |-> 0]
  /\ told = <<>>

Main(from, to) == phase = from /\ phase' = to /\ UNCHANGED <<lprog, counter, reg, round, told>>
Goes(w, from, to) ==
  /\ at[w] = from
  /\ at' = [at EXCEPT ![w] = to]
  /\ UNCHANGED <<lprog, phase, ready>>

\* The shared memory and the semaphore or mutex, of which the one or the other may be refused.
Setup ==
  \/ /\ Main("init", "start")
     /\ lock' = 1 /\ ready' = TRUE /\ UNCHANGED at
  \/ Main("init", "over") /\ UNCHANGED <<lock, ready, at>>

\* The child or the threads begin; a fork may fail.
Start ==
  \/ /\ Main("start", "work")
     /\ at' = [w \in Workers |-> FirstStep(w)]
     /\ UNCHANGED <<lock, ready>>
  \/ lprog = "proc" /\ Main("start", "over") /\ UNCHANGED <<lock, ready, at>>

Wait(w) ==
  /\ lock > 0
  /\ Goes(w, "wait", IF lprog \in Counting THEN "load" ELSE "show")
  /\ lock' = lock - 1
  /\ UNCHANGED <<counter, reg, round, told>>

Load(w) ==
  /\ Goes(w, "load", "store")
  /\ reg' = [reg EXCEPT ![w] = counter[Cell(w)]]
  /\ UNCHANGED <<lock, counter, round, told>>

Store(w) ==
  /\ Goes(w, "store", IF lprog = "local" THEN "post" ELSE "show")
  /\ counter' = [counter EXCEPT ![Cell(w)] = reg[w] + 1]
  /\ UNCHANGED <<lock, reg, round, told>>

\* The line with the counter; the thread that was woken ends with it.
Tell(w) ==
  /\ Goes(w, "show", CASE lprog = "local" -> "load"
                       [] lprog = "wake" /\ w = "second" -> "done"
                       [] OTHER -> "post")
  /\ told' = Append(told, [by |-> w, value |-> counter[Cell(w)]])
  /\ UNCHANGED <<lock, counter, reg, round>>

Post(w) ==
  /\ Goes(w, "post", IF round[w] + 1 < LockRounds THEN "wait" ELSE "done")
  /\ lock' = lock + 1
  /\ round' = [round EXCEPT ![w] = @ + 1]
  /\ UNCHANGED <<counter, reg, told>>

\* The parent waits for its child, or main for its threads; the final counter is shown.
Join ==
  /\ \A w \in Workers : at[w] = "done"
  /\ Main("work", "joined") /\ UNCHANGED <<lock, ready, at>>

Destroy ==
  /\ Main("joined", "over")
  /\ ready' = FALSE
  /\ UNCHANGED <<lock, at>>

LockNext ==
  \/ Setup \/ Start \/ Join \/ Destroy
  \/ \E w \in Workers : Wait(w) \/ Load(w) \/ Store(w) \/ Tell(w) \/ Post(w)

LockSpec == LockInit /\ [][LockNext]_lockvars
LockFairSpec == LockSpec /\ WF_lockvars(LockNext)

----------------------------------------------------------------------------
LockTypeOK ==
  /\ lprog \in LockPrograms
  /\ phase \in {"init", "start", "work", "joined", "over"}
  /\ lock \in Nat /\ ready \in BOOLEAN
  /\ counter \in [Workers \cup {"shared"} -> Nat]
  /\ at \in [Workers -> {"none", "wait", "load", "store", "show", "post", "done"}]
  /\ reg \in [Workers -> Nat] /\ round \in [Workers -> Nat]

\* The steps of a worker that holds the lock.
Inside(w) == at[w] \in {"load", "store", "show", "post"}

\* Two workers are never between their wait and their post at once: in the programs that
\* count, and under the mutex.
Exclusion == lprog # "wake" => ~(Inside("first") /\ Inside("second"))

\* No update is lost: once both are joined the counter is what the parent prints beside it
\* as expected (semaphore_proc.c:53), and in "local" each counter is its worker's rounds.
AllCounted ==
  phase = "joined" =>
    /\ lprog \in Counting => counter["shared"] = 2 * LockRounds
    /\ lprog = "local" => \A w \in Workers : counter[w] = Iter

\* The values printed are those of one worker after the other, each once.
ToldInOrder ==
  /\ lprog \in Counting => \A i \in DOMAIN told : told[i].value = i
  /\ lprog = "local" =>
       \A i \in DOMAIN told : told[i].value = Cardinality({j \in 1..(i-1) : told[j].by = told[i].by})

\* A worker that still has steps to take finds the semaphore there.
LockKept == (\E w \in Workers : at[w] \notin {"none", "done"}) => ready

\* The waking program starts its semaphore at 1, so the thread may print before it is woken;
\* the post it did not need is left in the semaphore.
WokenOnce == lprog = "wake" /\ phase = "joined" => lock = 1 /\ Len(told) = 2

\* The counters of the semaphore programs are exact.
CountersInv == LockTypeOK /\ Exclusion /\ AllCounted /\ ToldInOrder /\ LockKept /\ WokenOnce

\* Every program ends: no worker waits for a lock that nobody will give back.
CountersEnd == <>(phase = "over")
=============================================================================
