----------------------------- MODULE SystemProofs -----------------------------
(***************************************************************************)
(* Proofs about the parts of System, for all values of its constants.      *)
(***************************************************************************)
EXTENDS System, FiniteSetTheorems, WellFoundedInduction, TLAPS

(***************************************************************************)
(* The file server, for any finite set of connections and any number of    *)
(* signals.                                                                *)
(***************************************************************************)
LEMMA InitInv == Init => ServeInv
<1> SUFFICES ASSUME Init PROVE ServeInv
  OBVIOUS
<1>1. conn \in [Conns -> ConnStates] /\ \A c \in Conns : conn[c] = "away"
  BY DEF Init, ConnStates
<1>2. signals \in 0..MaxSignals
  BY ServerAssumption DEF Init
<1>3. main = "start" /\ active \in BOOLEAN /\ late = {}
  BY DEF Init
<1>4. TypeOK
  BY <1>1, <1>2, <1>3 DEF TypeOK
<1> QED
  BY <1>3, <1>4 DEF ServeInv, LateNotServed, LateIsLast

LEMMA BecomeIs ==
  ASSUME conn \in [Conns -> ConnStates], NEW c \in Conns, NEW s \in ConnStates, Become(c, s)
  PROVE  /\ conn' \in [Conns -> ConnStates] /\ conn'[c] = s
         /\ \A d \in Conns : d # c => conn'[d] = conn[d]
BY DEF Become

\* A step of one connection that is not in the main thread's hand.
LEMMA ConnTypes ==
  ASSUME TypeOK, UNCHANGED <<main, late>>, active' \in BOOLEAN, signals' \in 0..MaxSignals,
         NEW c \in Conns, conn[c] # "held", main # "gone" \/ conn[c] \notin Live,
         NEW s \in ConnStates, s # "held", main # "gone" \/ s \notin Live, Become(c, s)
  PROVE  /\ TypeOK' /\ conn'[c] = s
         /\ \A d \in Conns : d # c => conn'[d] = conn[d]
<1>1. /\ conn' \in [Conns -> ConnStates] /\ conn'[c] = s
      /\ \A d \in Conns : d # c => conn'[d] = conn[d]
  BY BecomeIs DEF TypeOK
<1>2. \A d \in Conns : conn'[d] = "held" <=> conn[d] = "held"
  BY <1>1
<1>3. /\ main' = "spawn" <=> \E d \in Conns : conn'[d] = "held"
      /\ \A d, e \in Conns : conn'[d] = "held" /\ conn'[e] = "held" => d = e
  BY <1>2 DEF TypeOK
<1>4. main' = "gone" => \A d \in Conns : conn'[d] \notin Live
  BY <1>1 DEF TypeOK
<1>5. main' \in {"start", "check", "accept", "spawn", "gone"} /\ late' \subseteq Conns
  BY DEF TypeOK
<1> QED
  BY <1>1, <1>3, <1>4, <1>5 DEF TypeOK

LEMMA ExitInv ==
  ASSUME ServeInv, Exit, UNCHANGED late, signals' \in 0..MaxSignals, active' \in BOOLEAN,
         late # {} => ~active'
  PROVE  ServeInv'
<1>1. /\ main' = "gone"
      /\ conn' \in [Conns -> ConnStates]
      /\ \A c \in Conns : conn'[c] \notin Live \cup {"held"}
  BY DEF Exit, ServeInv, TypeOK, ConnStates, Live
<1>2. TypeOK'
  BY <1>1 DEF ServeInv, TypeOK
<1>3. LateNotServed'
  BY <1>1 DEF ServeInv, TypeOK, LateNotServed, Live
<1> QED
  BY <1>1, <1>2, <1>3 DEF ServeInv, LateIsLast

LEMMA StepInv == ServeInv /\ [Next]_vars => ServeInv'
<1> SUFFICES ASSUME ServeInv, [Next]_vars PROVE ServeInv'
  OBVIOUS
<1> USE ServerAssumption DEF ServeInv
<1>1. CASE Start
  BY <1>1 DEF Start, TypeOK, LateNotServed, LateIsLast
<1>2. CASE ListenFails
  BY <1>2, ExitInv DEF ListenFails, TypeOK, LateIsLast
<1>3. CASE CheckLoop
  BY <1>3 DEF CheckLoop, TypeOK, LateNotServed, LateIsLast
<1>4. CASE LeaveLoop
  BY <1>4, ExitInv DEF LeaveLoop, TypeOK, LateIsLast
<1>5. CASE NoMemory
  BY <1>5, ExitInv DEF NoMemory, TypeOK, LateIsLast
<1>6. CASE AcceptFails
  <2>1. CASE UNCHANGED conn
    BY <1>6, <2>1 DEF AcceptFails, TypeOK, LateNotServed, LateIsLast
  <2>2. ASSUME NEW c \in Conns, conn[c] = "queued", Become(c, "closed") PROVE ServeInv'
    <3>1. /\ conn' \in [Conns -> ConnStates] /\ conn'[c] = "closed"
          /\ \A d \in Conns : d # c => conn'[d] = conn[d]
      BY <2>2, BecomeIs DEF TypeOK, ConnStates
    <3> QED
      BY <1>6, <2>2, <3>1 DEF AcceptFails, TypeOK, LateNotServed, LateIsLast
  <2> QED
    BY <1>6, <2>1, <2>2 DEF AcceptFails
<1>7. CASE SpawnFails
  BY <1>7, ExitInv DEF SpawnFails, TypeOK, LateIsLast
<1>8. ASSUME NEW c \in Conns, Accept(c) PROVE ServeInv'
  <2>1. /\ conn' \in [Conns -> ConnStates] /\ conn'[c] = "held"
        /\ \A d \in Conns : d # c => conn'[d] = conn[d]
    BY <1>8, BecomeIs DEF Accept, TypeOK, ConnStates
  <2>2. /\ main = "accept" /\ main' = "spawn" /\ UNCHANGED <<active, signals>>
        /\ late = {} /\ late' \subseteq {c} /\ (late' # {} => ~active)
    BY <1>8 DEF Accept, LateIsLast
  <2>3. TypeOK'
    BY <2>1, <2>2 DEF TypeOK
  <2> QED
    BY <2>1, <2>2, <2>3 DEF LateNotServed, LateIsLast
<1>9. ASSUME NEW c \in Conns, Spawn(c) PROVE ServeInv'
  <2>1. /\ conn' \in [Conns -> ConnStates] /\ conn'[c] = "start"
        /\ \A d \in Conns : d # c => conn'[d] = conn[d]
    BY <1>9, BecomeIs DEF Spawn, TypeOK, ConnStates
  <2> QED
    BY <1>9, <2>1 DEF Spawn, TypeOK, LateNotServed, LateIsLast
<1>10. ASSUME NEW c \in Conns, Connect(c) PROVE ServeInv'
  <2>1. TypeOK' /\ conn'[c] = "queued" /\ \A d \in Conns : d # c => conn'[d] = conn[d]
    BY <1>10, ConnTypes DEF Connect, TypeOK, ConnStates, Live
  <2> QED
    BY <1>10, <2>1 DEF Connect, TypeOK, LateNotServed, LateIsLast
<1>11. ASSUME NEW c \in Conns, SessionStarts(c) PROVE ServeInv'
  <2>1. FirstCheck(c) \in {"recv", "closed"} /\ (~active => FirstCheck(c) = "closed")
    BY DEF FirstCheck
  <2>2. main # "gone" /\ conn[c] = "start"
    BY <1>11 DEF SessionStarts, TypeOK, Live
  <2>3. /\ TypeOK' /\ conn'[c] = FirstCheck(c)
        /\ \A d \in Conns : d # c => conn'[d] = conn[d]
    BY <1>11, <2>1, <2>2, ConnTypes DEF SessionStarts, TypeOK, ConnStates
  <2> QED
    BY <1>11, <2>1, <2>3 DEF SessionStarts, TypeOK, LateNotServed, LateIsLast
<1>12. ASSUME NEW c \in Conns, SessionRuns(c) \/ SessionEnds(c) PROVE ServeInv'
  <2>1. PICK s \in {"recv", "busy", "closed"} :
          /\ conn[c] \in {"recv", "busy"} /\ Become(c, s)
          /\ UNCHANGED <<main, active, late, signals>>
    BY <1>12 DEF SessionRuns, SessionEnds
  <2>2. main # "gone" /\ c \notin late
    BY <2>1 DEF TypeOK, Live, LateNotServed
  <2>3. TypeOK' /\ \A d \in Conns : d # c => conn'[d] = conn[d]
    BY <2>1, <2>2, ConnTypes DEF TypeOK, ConnStates
  <2> QED
    BY <2>1, <2>2, <2>3 DEF TypeOK, LateNotServed, LateIsLast
<1>13. CASE SignalMain
  <2>1. /\ active' = FALSE /\ signals' \in 0..MaxSignals /\ UNCHANGED <<conn, late>>
        /\ main # "gone" /\ (main' = main \/ (main = "accept" /\ main' = "check"))
    BY <1>13 DEF SignalMain, Handler, TypeOK
  <2>2. active' \in BOOLEAN
    BY <2>1
  <2>3. TypeOK'
    BY <2>1, <2>2 DEF TypeOK
  <2> QED
    BY <2>1, <2>3 DEF LateNotServed, LateIsLast
<1>14. ASSUME NEW c \in Conns, SignalSession(c) PROVE ServeInv'
  <2>1. active' = FALSE /\ signals' \in 0..MaxSignals /\ UNCHANGED <<main, late>>
    BY <1>14 DEF SignalSession, Handler, TypeOK
  <2>2. active' \in BOOLEAN /\ main # "gone"
    BY <1>14, <2>1 DEF SignalSession, TypeOK
  <2>3. CASE UNCHANGED conn
    <3>1. TypeOK'
      BY <2>1, <2>2, <2>3 DEF TypeOK
    <3> QED
      BY <2>1, <2>3, <3>1 DEF LateNotServed, LateIsLast
  <2>4. CASE conn[c] = "recv" /\ Become(c, "closed")
    <3>1. TypeOK' /\ conn'[c] = "closed" /\ \A d \in Conns : d # c => conn'[d] = conn[d]
      BY <2>1, <2>2, <2>4, ConnTypes DEF ConnStates, Live
    <3> QED
      BY <2>1, <3>1 DEF TypeOK, LateNotServed, LateIsLast
  <2> QED
    BY <1>14, <2>3, <2>4 DEF SignalSession
<1>15. CASE UNCHANGED vars
  BY <1>15 DEF vars, TypeOK, LateNotServed, LateIsLast
<1> QED
  BY <1>1, <1>2, <1>3, <1>4, <1>5, <1>6, <1>7, <1>8, <1>9, <1>10, <1>11, <1>12, <1>13, <1>14,
     <1>15 DEF Next, MainStep

\* Whatever the order of connections, failures and signals: a thread exists for every
\* connection taken, at most one connection is taken after the server was told to stop,
\* and no command of it is read.
THEOREM Stopped == Spec => []ServeInv
BY InitInv, StepInv, PTL DEF Spec

\* Once the server listens nothing sets active_loop again, so a SIGINT is not forgotten.
THEOREM NotForgotten == Spec => StopSticks
<1>1. ServeInv /\ [Next]_vars => [main # "start" /\ ~active => ~active']_vars
  <2> SUFFICES ASSUME ServeInv, [Next]_vars, main # "start", ~active PROVE ~active'
    OBVIOUS
  <2> QED
    BY DEF Next, MainStep, vars, Start, ListenFails, CheckLoop, LeaveLoop, NoMemory, Accept,
           AcceptFails, Spawn, SpawnFails, Connect, SessionStarts, SessionRuns, SessionEnds,
           SignalMain, SignalSession, Handler, ServeInv, TypeOK
<1> QED
  BY <1>1, InitInv, StepInv, PTL DEF Spec, StopSticks

(***************************************************************************)
(* Proof for any number of creators and readers, as long as no process is  *)
(* both.  What an object has, it keeps; the strengthening says what a      *)
(* process at each of its steps has seen of the object it opened.          *)
(***************************************************************************)
OpenedTypes ==
  /\ spc \in [Shm!Shmers -> {"start", "truncate", "store", "stat", "map", "print", "unlink", "done", "failed"}]
  /\ opened \in [Shm!Shmers -> ShmObjects \cup {NoObject}]
OpenedUsed == \A p \in Shm!Shmers : spc[p] \in {"truncate", "store", "stat", "map"} => opened[p] \in used
StoreSized == \A p \in Creators : spc[p] = "store" => opened[p] \in sized
DataSized == \A p \in ShmReaders : seen[p] = "data" => opened[p] \in sized
ReadersUnread == \A p \in ShmReaders : spc[p] \in {"start", "stat"} => seen[p] = "nothing"
ShmIInv ==
  /\ Shm!ShmTypeOK /\ OpenedTypes /\ OpenedUsed /\ StoreSized /\ DataSized /\ ReadersUnread
  /\ Shm!Mapped /\ Shm!OneIsStored /\ Shm!DoneIsStored /\ Shm!NameKept

LEMMA ShmInitInv == Shm!ShmInit => ShmIInv
BY DEF Shm!ShmInit, ShmIInv, Shm!ShmTypeOK, OpenedTypes, OpenedUsed, StoreSized, DataSized, ReadersUnread,
       Shm!Mapped, Shm!OneIsStored, Shm!DoneIsStored, Shm!NameKept, Shm!Shmers

LEMMA ShmStepInv == ASSUME Shm!ShmAssumption, ShmIInv, [Shm!ShmNext]_(Shm!shmvars) PROVE ShmIInv'
<1> USE DEF Shm!ShmAssumption, ShmIInv, Shm!ShmTypeOK, OpenedTypes, OpenedUsed, StoreSized, DataSized,
            ReadersUnread, Shm!Mapped, Shm!OneIsStored, Shm!DoneIsStored, Shm!NameKept, Shm!Shmers, Shm!Moves
<1>1. ASSUME NEW p \in Creators, Shm!Create(p) PROVE ShmIInv'
  BY <1>1 DEF Shm!Create
<1>2. ASSUME NEW p \in Creators, Shm!Truncate(p) PROVE ShmIInv'
  BY <1>2 DEF Shm!Truncate
<1>3. ASSUME NEW p \in Creators, Shm!StoreValue(p) PROVE ShmIInv'
  BY <1>3 DEF Shm!StoreValue
<1>4. ASSUME NEW p \in Shm!Shmers, NEW from, from # "done", Shm!Refused(p, from) PROVE ShmIInv'
  BY <1>4 DEF Shm!Refused
<1>5. ASSUME NEW p \in ShmReaders, Shm!OpenName(p) PROVE ShmIInv'
  BY <1>5 DEF Shm!OpenName
<1>6. ASSUME NEW p \in ShmReaders, Shm!StatSize(p) PROVE ShmIInv'
  BY <1>6 DEF Shm!StatSize
<1>7. ASSUME NEW p \in ShmReaders, Shm!MapObject(p) PROVE ShmIInv'
  BY <1>7 DEF Shm!MapObject
<1>8. ASSUME NEW p \in ShmReaders, Shm!PrintValue(p) PROVE ShmIInv'
  BY <1>8 DEF Shm!PrintValue
<1>9. ASSUME NEW p \in ShmReaders, Shm!Unlink(p) PROVE ShmIInv'
  BY <1>9 DEF Shm!Unlink
<1>10. ASSUME NEW p \in ShmReaders, Shm!Moves(p, "unlink", "done"),
              UNCHANGED <<name, used, sized, stored, opened, seen>>
       PROVE ShmIInv'
  BY <1>10
<1>11. CASE UNCHANGED Shm!shmvars
  BY <1>11 DEF Shm!shmvars
<1> QED
  BY <1>1, <1>2, <1>3, <1>4, <1>5, <1>6, <1>7, <1>8, <1>9, <1>10, <1>11 DEF Shm!ShmNext

\* Whoever creates, sizes, stores, reads and unlinks in whatever order, an object that is read
\* has its memory, and holds what was stored in it (shm_create.c, shm_proc.c).
THEOREM ShmSound == ASSUME Shm!ShmAssumption PROVE Shm!ShmSpec => []Shm!ShmInv
<1>1. Shm!ShmInit => ShmIInv
  BY ShmInitInv
<1>2. ShmIInv /\ [Shm!ShmNext]_(Shm!shmvars) => ShmIInv'
  BY ShmStepInv
<1>3. ShmIInv => Shm!ShmInv
  BY DEF ShmIInv, Shm!ShmInv
<1> QED
  BY <1>1, <1>2, <1>3, PTL DEF Shm!ShmSpec

(***************************************************************************)
(* The programs with a semaphore or a mutex, for any number of rounds.     *)
(* The value of the lock and the workers inside add up to one, and the     *)
(* counter is what the workers have stored: their rounds and the stores of *)
(* rounds that are not over.  A worker about to store has read what the    *)
(* counter still is, for nobody else is inside.  The lines told are the    *)
(* rounds and those told of rounds that are not over.                      *)
(***************************************************************************)
One(b) == IF b THEN 1 ELSE 0
StepsOf(w) ==
  {"none", "show", "done"} \cup (IF lprog = "wake" /\ w = "first" THEN {"load", "store", "post"}
                                 ELSE IF lprog = "wake" THEN {"wait"}
                                 ELSE {"wait", "load", "store", "post"})
Phases ==
  /\ \A w \in Shm!Workers : at[w] \in StepsOf(w)
  /\ phase \in {"init", "start"} => \A w \in Shm!Workers : at[w] = "none"
  /\ phase = "work" => \A w \in Shm!Workers : at[w] # "none"
  /\ phase = "joined" => \A w \in Shm!Workers : at[w] = "done"
  /\ phase = "over" => \A w \in Shm!Workers : at[w] \in {"none", "done"}
  /\ phase \in {"start", "work", "joined"} => ready
  /\ \A w \in Shm!Workers : at[w] = "none" => counter[Shm!Cell(w)] = 0 /\ at["first"] = at["second"]
LockValue ==
  phase \in {"start", "work", "joined"} =>
    IF lprog = "wake"
    THEN lock = 1 - One(at["second"] \in {"show", "done"}) + One(at["first"] = "done")
    ELSE lock = 1 - One(Shm!Inside("first")) - One(Shm!Inside("second"))
RoundsLeft ==
  \A w \in Shm!Workers :
    /\ at[w] = "none" => round[w] = 0
    /\ lprog # "wake" => (IF at[w] = "done" THEN round[w] = Shm!LockRounds
                                             ELSE round[w] < Shm!LockRounds)
SharedSum ==
  lprog \in Shm!Counting =>
    /\ counter["shared"] = round["first"] + One(at["first"] \in {"show", "post"})
                           + round["second"] + One(at["second"] \in {"show", "post"})
    /\ \A w \in Shm!Workers : at[w] = "store" => reg[w] = counter["shared"]
OwnSum ==
  lprog = "local" =>
    \A w \in Shm!Workers :
      /\ counter[w] = round[w] + One(at[w] = "post")
      /\ at[w] = "store" => reg[w] = counter[w]

ToldLines == Seq([by : Shm!Workers, value : Nat])
By(t, w, n) == {j \in 1..n : t[j].by = w}
ToldShared ==
  lprog \in Shm!Counting =>
    /\ \A i \in DOMAIN told : told[i].value = i
    /\ Len(told) = round["first"] + One(at["first"] = "post") + round["second"] + One(at["second"] = "post")
ToldOwn ==
  lprog = "local" =>
    /\ \A i \in DOMAIN told : told[i].value = Cardinality(By(told, told[i].by, i - 1))
    /\ \A w \in Shm!Workers :
         Cardinality(By(told, w, Len(told))) = round[w] + One(at[w] \in {"load", "store", "post"})
ToldWake ==
  lprog = "wake" => Len(told) = One(at["first"] \in {"post", "done"}) + One(at["second"] = "done")
Told == told \in ToldLines /\ ToldShared /\ ToldOwn /\ ToldWake

LockCore == Shm!LockTypeOK /\ Phases /\ LockValue /\ RoundsLeft /\ SharedSum /\ OwnSum
LockIInv == LockCore /\ Told

LEMMA LockInitCore == ASSUME Shm!LockAssumption PROVE Shm!LockInit => LockCore
<1> SUFFICES ASSUME Shm!LockInit PROVE LockCore
  OBVIOUS
<1> USE DEF Shm!LockAssumption, Shm!LockInit, Shm!Workers
<1>1. Shm!LockTypeOK
  BY DEF Shm!LockTypeOK
<1>2. Phases
  BY DEF Phases, StepsOf, Shm!Cell
<1>3. LockValue
  BY DEF LockValue
<1>4. RoundsLeft
  BY DEF RoundsLeft, Shm!LockRounds
<1>5. SharedSum
  BY DEF SharedSum, One
<1>6. OwnSum
  BY DEF OwnSum, One
<1> QED
  BY <1>1, <1>2, <1>3, <1>4, <1>5, <1>6 DEF LockCore

LEMMA LockMainCore ==
  ASSUME Shm!LockAssumption, LockCore, Shm!Setup \/ Shm!Start \/ Shm!Join \/ Shm!Destroy
  PROVE  LockCore'
<1> USE DEF Shm!LockAssumption, LockCore, Shm!LockTypeOK, Phases, LockValue, RoundsLeft, SharedSum, OwnSum,
            One, StepsOf, Shm!Inside, Shm!Cell, Shm!Counting, Shm!LockRounds, Shm!Workers, Shm!Main
<1>1. CASE Shm!Setup
  <2>1. Shm!LockTypeOK'
    <3>1. ready' \in BOOLEAN
      BY <1>1, Zenon DEF Shm!Setup
    <3> QED
      BY <1>1, <3>1 DEF Shm!Setup
  <2>2. Phases'
    BY <1>1 DEF Shm!Setup
  <2>3. LockValue'
    BY <1>1 DEF Shm!Setup
  <2>4. RoundsLeft' /\ SharedSum' /\ OwnSum'
    BY <1>1 DEF Shm!Setup
  <2> QED
    BY <2>1, <2>2, <2>3, <2>4
<1>2. CASE Shm!Start
  BY <1>2 DEF Shm!Start, Shm!FirstStep
<1>3. CASE Shm!Join
  BY <1>3 DEF Shm!Join
<1>4. CASE Shm!Destroy
  BY <1>4 DEF Shm!Destroy
<1> QED
  BY <1>1, <1>2, <1>3, <1>4

LEMMA LockWorkCore ==
  ASSUME Shm!LockAssumption, LockCore, NEW w \in Shm!Workers, Shm!Wait(w) \/ Shm!Load(w) \/ Shm!Store(w) \/ Shm!Tell(w) \/ Shm!Post(w)
  PROVE  LockCore'
<1> USE DEF Shm!LockAssumption, LockCore, Shm!LockTypeOK, Phases, LockValue, RoundsLeft, SharedSum, OwnSum,
            One, StepsOf, Shm!Inside, Shm!Cell, Shm!Counting, Shm!LockRounds, Shm!Workers, Shm!Goes
<1>1. CASE Shm!Wait(w)
  BY <1>1 DEF Shm!Wait
<1>2. CASE Shm!Load(w)
  BY <1>2 DEF Shm!Load
<1>3. CASE Shm!Store(w)
  BY <1>3 DEF Shm!Store
<1>4. CASE Shm!Tell(w)
  BY SMTT(30), <1>4 DEF Shm!Tell
<1>5. CASE Shm!Post(w)
  BY <1>5 DEF Shm!Post
<1> QED
  BY <1>1, <1>2, <1>3, <1>4, <1>5

LEMMA LockStepCore == ASSUME Shm!LockAssumption, LockCore, [Shm!LockNext]_(Shm!lockvars) PROVE LockCore'
<1>1. CASE UNCHANGED Shm!lockvars
  BY <1>1 DEF Shm!lockvars, LockCore, Shm!LockTypeOK, Phases, LockValue, RoundsLeft, SharedSum, OwnSum, StepsOf,
              Shm!Inside, Shm!Cell, Shm!LockRounds
<1> QED
  BY <1>1, LockMainCore, LockWorkCore DEF Shm!LockNext

LEMMA ToldInit == ASSUME Shm!LockAssumption, Shm!LockInit PROVE Told
<1>1. told = <<>> /\ \A w \in Shm!Workers : at[w] = "none" /\ round[w] = 0
  BY DEF Shm!LockInit, Shm!Workers
<1>2. \A w \in Shm!Workers : By(told, w, Len(told)) = {}
  BY <1>1 DEF By
<1> QED
  <2>1. told \in ToldLines
    BY <1>1 DEF ToldLines
  <2>2. ToldShared /\ ToldWake
    BY <1>1 DEF ToldShared, ToldWake, Shm!Workers, One
  <2>3. ToldOwn
    <3>1. DOMAIN told = {} /\ Cardinality({}) = 0
      BY <1>1, FS_EmptySet
    <3>2. \A w \in Shm!Workers : Cardinality(By(told, w, Len(told))) = 0
      BY <1>2, <3>1
    <3> QED
      BY <1>1, <3>1, <3>2 DEF ToldOwn, One
  <2> QED
    BY <2>1, <2>2, <2>3 DEF Told

LEMMA ToldMain ==
  ASSUME LockIInv, Shm!Setup \/ Shm!Start \/ Shm!Join \/ Shm!Destroy
  PROVE  Told'
<1> USE DEF LockIInv, LockCore, Told, Shm!LockTypeOK
<1>1. told' = told /\ round' = round /\ lprog' = lprog
  BY DEF Shm!Setup, Shm!Start, Shm!Join, Shm!Destroy, Shm!Main
<1>2. \A w \in Shm!Workers : at'[w] = at[w] \/ (at[w] = "none" /\ at'[w] \in {"wait", "load"})
  BY DEF Shm!Setup, Shm!Start, Shm!Join, Shm!Destroy, Shm!Main, Phases, Shm!FirstStep
<1>3. lprog = "local" => \A w \in Shm!Workers : at'[w] = at[w] \/ at'[w] = "wait"
  BY DEF Shm!Setup, Shm!Start, Shm!Join, Shm!Destroy, Shm!Main, Phases, Shm!FirstStep
<1>4. ToldShared'
  BY <1>1, <1>2 DEF ToldShared, One, Shm!Workers, Shm!Counting
<1>5. ToldOwn'
  <2>1. \A w, n : By(told', w, n) = By(told, w, n)
    BY <1>1 DEF By
  <2> QED
    BY <1>1, <1>2, <1>3, <2>1 DEF ToldOwn, One
<1>6. ToldWake'
  BY <1>1, <1>2 DEF ToldWake, One, Shm!Workers
<1> QED
  BY <1>1, <1>4, <1>5, <1>6

LEMMA SeqElement == ASSUME NEW S, NEW s \in Seq(S), NEW i \in DOMAIN s PROVE s[i] \in S
OBVIOUS

LEMMA LineOfWorker == ASSUME told \in ToldLines, NEW i \in DOMAIN told PROVE told[i].by \in Shm!Workers
<1>1. told[i] \in [by : Shm!Workers, value : Nat]
  BY SeqElement DEF ToldLines
<1> QED
  BY <1>1

\* A line more is one more of its worker's.
LEMMA OneMoreLine ==
  ASSUME told \in ToldLines, NEW w \in Shm!Workers, NEW v \in Nat,
         told' = Append(told, [by |-> w, value |-> v])
  PROVE  /\ told' \in ToldLines /\ Len(told') = Len(told) + 1
         /\ \A i \in DOMAIN told : told'[i] = told[i]
         /\ told'[Len(told')] = [by |-> w, value |-> v]
         /\ \A u \in Shm!Workers, i \in 0..Len(told) : By(told', u, i) = By(told, u, i)
         /\ \A u \in Shm!Workers :
              Cardinality(By(told', u, Len(told'))) = Cardinality(By(told, u, Len(told))) + One(u = w)
<1>1. told' \in ToldLines /\ Len(told') = Len(told) + 1 /\ Len(told) \in Nat
  BY DEF ToldLines
<1>2. \A i \in 1..Len(told) : told'[i] = told[i]
  BY DEF ToldLines
<1>3. told'[Len(told')] = [by |-> w, value |-> v]
  BY DEF ToldLines
<1>4. \A u \in Shm!Workers, i \in 0..Len(told) : By(told', u, i) = By(told, u, i)
  BY <1>1, <1>2 DEF By
<1>5. ASSUME NEW u \in Shm!Workers
      PROVE  Cardinality(By(told', u, Len(told'))) = Cardinality(By(told, u, Len(told))) + One(u = w)
  <2>1. IsFiniteSet(By(told, u, Len(told)))
    <3>1. IsFiniteSet(1..Len(told))
      BY <1>1, FS_Interval
    <3> QED
      BY <3>1, FS_Subset DEF By
  <2>2. By(told', u, Len(told')) = By(told, u, Len(told)) \cup (IF u = w THEN {Len(told) + 1} ELSE {})
    BY <1>1, <1>2, <1>3 DEF By
  <2>3. Len(told) + 1 \notin By(told, u, Len(told))
    BY <1>1 DEF By
  <2>4. Cardinality(By(told, u, Len(told))) \in Nat
    BY <2>1, FS_CardinalityType
  <2>5. CASE u = w
    BY <2>1, <2>2, <2>3, <2>5, FS_AddElement DEF One
  <2>6. CASE u # w
    <3>1. By(told', u, Len(told')) = By(told, u, Len(told))
      BY <2>2, <2>6
    <3> QED
      BY <2>4, <2>6, <3>1 DEF One
  <2> QED
    BY <2>5, <2>6
<1>6. DOMAIN told = 1..Len(told)
  BY DEF ToldLines
<1> QED
  BY <1>1, <1>2, <1>3, <1>4, <1>5, <1>6

LEMMA ToldTell == ASSUME LockIInv, NEW w \in Shm!Workers, Shm!Tell(w) PROVE Told'
<1> DEFINE v == counter[Shm!Cell(w)]
           n == Len(told)
<1> USE DEF LockIInv, LockCore, Told, Shm!LockTypeOK
<1>1. /\ at[w] = "show" /\ UNCHANGED <<lprog, phase, round, counter>>
      /\ told' = Append(told, [by |-> w, value |-> v])
  BY DEF Shm!Tell, Shm!Goes
<1>2. v \in Nat
  BY DEF Shm!Cell
<1> HIDE DEF v
<1>3. /\ told' \in ToldLines /\ Len(told') = n + 1 /\ n \in Nat
      /\ DOMAIN told = 1..n /\ DOMAIN told' = 1..(n + 1)
      /\ \A i \in DOMAIN told : told'[i] = told[i]
      /\ told'[n + 1] = [by |-> w, value |-> v]
  <2>1. /\ told' \in ToldLines /\ Len(told') = n + 1
        /\ \A i \in DOMAIN told : told'[i] = told[i]
        /\ told'[Len(told')] = [by |-> w, value |-> v]
    BY <1>1, <1>2, OneMoreLine
  <2>2. n \in Nat /\ DOMAIN told = 1..n /\ DOMAIN told' = 1..Len(told')
    BY <2>1 DEF ToldLines
  <2> QED
    BY <2>1, <2>2
<1>4. \A u \in Shm!Workers : u # w => at'[u] = at[u]
  BY DEF Shm!Tell, Shm!Goes
<1>5. at'[w] = (IF lprog = "local" THEN "load" ELSE IF lprog = "wake" /\ w = "second" THEN "done" ELSE "post")
  BY DEF Shm!Tell, Shm!Goes
<1>6. ToldShared'
  <2> SUFFICES ASSUME lprog \in Shm!Counting PROVE ToldShared'
    BY <1>1 DEF ToldShared, Shm!Counting
  <2>1. \A u \in Shm!Workers : u # w => ~Shm!Inside(u)
    <3>1. phase \in {"start", "work", "joined"}
      BY <1>1 DEF Phases
    <3> QED
      BY <1>1, <3>1 DEF LockValue, Shm!Inside, Shm!Counting, Shm!Workers, One
  <2>2. v = n + 1
    BY <1>1, <2>1 DEF v, Shm!Cell, SharedSum, ToldShared, Shm!Counting, Shm!Inside, Shm!Workers, One
  <2>3. Len(told') = round["first"] + One(at'["first"] = "post") + round["second"] + One(at'["second"] = "post")
    BY SMTT(30), <1>1, <1>3, <1>4, <1>5 DEF ToldShared, Shm!Counting, Shm!Workers, One
  <2> QED
    BY <1>1, <1>3, <2>2, <2>3 DEF ToldShared
<1>7. ToldOwn'
  <2> SUFFICES ASSUME lprog = "local" PROVE ToldOwn'
    BY <1>1 DEF ToldOwn
  <2>1. /\ \A u \in Shm!Workers, i \in 0..n : By(told', u, i) = By(told, u, i)
        /\ \A u \in Shm!Workers : Cardinality(By(told', u, n + 1)) = Cardinality(By(told, u, n)) + One(u = w)
    <3>1. /\ \A u \in Shm!Workers, i \in 0..Len(told) : By(told', u, i) = By(told, u, i)
          /\ \A u \in Shm!Workers :
               Cardinality(By(told', u, Len(told'))) = Cardinality(By(told, u, Len(told))) + One(u = w)
      BY <1>1, <1>2, OneMoreLine
    <3> QED
      BY <1>3, <3>1
  <2>2. v = Cardinality(By(told, w, n))
    BY <1>1 DEF v, Shm!Cell, OwnSum, ToldOwn, One
  <2>3. ASSUME NEW i \in DOMAIN told' PROVE told'[i].value = Cardinality(By(told', told'[i].by, i - 1))
    <3>1. CASE i = n + 1
      <4>1. By(told', w, n) = By(told, w, n)
        BY <1>3, <2>1
      <4>2. n + 1 - 1 = n
        BY <1>3
      <4> QED
        BY <1>3, <2>2, <3>1, <4>1, <4>2
    <3>2. CASE i # n + 1
      <4>1. i \in DOMAIN told /\ i - 1 \in 0..n
        BY <1>3, <3>2
      <4>2. told[i].by \in Shm!Workers
        BY <4>1, LineOfWorker
      <4>3. told'[i].by = told[i].by
        BY <1>3, <4>1
      <4>4. By(told', told[i].by, i - 1) = By(told, told[i].by, i - 1)
        BY <1>3, <2>1, <4>1, <4>2
      <4> QED
        BY <1>3, <4>1, <4>4 DEF ToldOwn
    <3> QED
      BY <3>1, <3>2
  <2>4. ASSUME NEW u \in Shm!Workers
        PROVE  Cardinality(By(told', u, n + 1)) = round[u] + One(at'[u] \in {"load", "store", "post"})
    <3>1. Cardinality(By(told, u, n)) = round[u] + One(at[u] \in {"load", "store", "post"})
      BY Zenon DEF ToldOwn
    <3>2. CASE u = w
      <4>1. at[u] = "show" /\ at'[u] = "load" /\ round[u] \in Nat
        BY <1>1, <1>5, <3>2
      <4> QED
        BY <2>1, <3>1, <3>2, <4>1 DEF One
    <3>3. CASE u # w
      <4>1. at'[u] = at[u] /\ round[u] \in Nat
        BY <1>4, <3>3
      <4>2. Cardinality(By(told', u, n + 1)) = Cardinality(By(told, u, n)) + 0
        BY <2>1, <3>3 DEF One
      <4> QED
        BY <3>1, <4>1, <4>2 DEF One
    <3> QED
      BY <3>2, <3>3
  <2> QED
    BY <1>1, <2>3, <2>4 DEF ToldOwn
<1>8. ToldWake'
  BY <1>1, <1>3, <1>4, <1>5 DEF ToldWake, Shm!Workers, One, Phases, StepsOf
<1> QED
  BY <1>3, <1>6, <1>7, <1>8
LEMMA SameSum ==
  ASSUME NEW p \in Nat, NEW q \in Nat, NEW r \in Nat, NEW s \in Nat,
         NEW t \in Nat, NEW u \in Nat, NEW v \in Nat, NEW w \in Nat,
         p + q = t + u, r + s = v + w
  PROVE  p + q + r + s = t + u + v + w
OBVIOUS

LEMMA ToldRest ==
  ASSUME LockIInv, NEW w \in Shm!Workers, Shm!Wait(w) \/ Shm!Load(w) \/ Shm!Store(w) \/ Shm!Post(w)
  PROVE  Told'
<1> USE DEF LockIInv, LockCore, Told, Shm!LockTypeOK
<1>1. /\ told' = told /\ lprog' = lprog
      /\ \A u \in Shm!Workers : u # w => at'[u] = at[u] /\ round'[u] = round[u]
  BY DEF Shm!Wait, Shm!Load, Shm!Store, Shm!Post, Shm!Goes
<1>2. at[w] # "none" /\ at[w] # "done" /\ at[w] \in StepsOf(w)
  BY DEF Shm!Wait, Shm!Load, Shm!Store, Shm!Post, Shm!Goes, Phases
<1>3. IF at[w] = "post" THEN round'[w] = round[w] + 1 /\ at'[w] \in {"wait", "done"}
      ELSE round'[w] = round[w]
  BY DEF Shm!Wait, Shm!Load, Shm!Store, Shm!Post, Shm!Goes
<1>4. /\ lprog \in Shm!Counting /\ at[w] # "post" => at'[w] \in {"load", "store", "show"}
      /\ lprog = "local" /\ at[w] = "wait" => at'[w] = "show"
      /\ lprog = "local" /\ at[w] \in {"load", "store"} => at'[w] \in {"store", "post"}
      /\ lprog = "wake" /\ at[w] # "post" => at'[w] \in {"store", "show"}
      /\ lprog = "wake" /\ at[w] = "post" => at'[w] = "done"
  <2>1. lprog = "wake" /\ at[w] = "post" => at'[w] = "done"
    BY DEF Shm!Wait, Shm!Load, Shm!Store, Shm!Post, Shm!Goes, Shm!LockRounds
  <2> QED
    BY <2>1 DEF Shm!Wait, Shm!Load, Shm!Store, Shm!Post, Shm!Goes, Shm!Counting
<1>5. ToldShared'
  <2> SUFFICES ASSUME lprog \in Shm!Counting PROVE ToldShared'
    BY <1>1 DEF ToldShared
  <2>1. \A u \in Shm!Workers :
          round'[u] + One(at'[u] = "post") = round[u] + One(at[u] = "post") /\ round'[u] \in Nat
    BY <1>1, <1>3, <1>4 DEF One
  <2>2. /\ \A i \in DOMAIN told : told[i].value = i
        /\ Len(told) = round["first"] + One(at["first"] = "post") + round["second"] + One(at["second"] = "post")
    BY DEF ToldShared
  <2> DEFINE a == One(at["first"] = "post")
             b == One(at["second"] = "post")
             c == One(at'["first"] = "post")
             d == One(at'["second"] = "post")
  <2>3. Len(told') = round'["first"] + c + round'["second"] + d
    <3>1. a \in Nat /\ b \in Nat /\ c \in Nat /\ d \in Nat
      BY DEF One
    <3>2. "first" \in Shm!Workers /\ "second" \in Shm!Workers
      BY DEF Shm!Workers
    <3>3. /\ round'["first"] + c = round["first"] + a /\ round'["second"] + d = round["second"] + b
          /\ round'["first"] \in Nat /\ round'["second"] \in Nat
      BY <2>1, <3>2, Zenon
    <3>4. Len(told') = round["first"] + a + round["second"] + b
      BY <1>1, <2>2, Zenon
    <3>5. round["first"] \in Nat /\ round["second"] \in Nat
      BY <3>2
    <3> HIDE DEF a, b, c, d
    <3>6. round'["first"] + c + round'["second"] + d = round["first"] + a + round["second"] + b
      BY <3>1, <3>3, <3>5, SameSum
    <3> QED
      BY <3>4, <3>6, Zenon
  <2> QED
    BY <1>1, <2>2, <2>3 DEF ToldShared
<1>6. ToldOwn'
  <2> SUFFICES ASSUME lprog = "local" PROVE ToldOwn'
    BY <1>1 DEF ToldOwn
  <2>1. at[w] \in {"wait", "load", "store", "post"}
    BY DEF Shm!Wait, Shm!Load, Shm!Store, Shm!Post, Shm!Goes
  <2>2. \A u \in Shm!Workers :
          round'[u] + One(at'[u] \in {"load", "store", "post"})
            = round[u] + One(at[u] \in {"load", "store", "post"})
    BY <1>1, <1>3, <1>4, <2>1 DEF One
  <2> QED
    <3>1. \A i \in DOMAIN told' : told'[i].value = Cardinality(By(told', told'[i].by, i - 1))
      BY <1>1, Zenon DEF ToldOwn
    <3>2. \A u \in Shm!Workers :
            Cardinality(By(told', u, Len(told'))) = round[u] + One(at[u] \in {"load", "store", "post"})
      BY <1>1, Zenon DEF ToldOwn
    <3> QED
      BY <1>1, <2>2, <3>1, <3>2 DEF ToldOwn
<1>7. ToldWake'
  <2> SUFFICES ASSUME lprog = "wake" PROVE ToldWake'
    BY <1>1 DEF ToldWake
  <2>1. Len(told) = One(at["first"] \in {"post", "done"}) + One(at["second"] = "done")
    BY Zenon DEF ToldWake
  <2>2. CASE w = "first"
    <3>1. at'["second"] = at["second"]
      BY <1>1, <2>2 DEF Shm!Workers
    <3>2. at'["first"] \in {"post", "done"} <=> at["first"] \in {"post", "done"}
      BY <1>2, <1>4, <2>2
    <3> QED
      BY <1>1, <2>1, <3>1, <3>2 DEF ToldWake, One
  <2>3. CASE w = "second"
    <3>1. at'["first"] = at["first"]
      BY <1>1, <2>3 DEF Shm!Workers
    <3>2. at'["second"] # "done" /\ at["second"] # "done"
      BY <1>2, <1>4, <2>3 DEF StepsOf
    <3> QED
      BY <1>1, <2>1, <3>1, <3>2 DEF ToldWake, One
  <2> QED
    BY <2>2, <2>3 DEF Shm!Workers
<1> QED
  BY <1>1, <1>5, <1>6, <1>7

LEMMA LockStepInv == ASSUME Shm!LockAssumption, LockIInv, [Shm!LockNext]_(Shm!lockvars) PROVE LockIInv'
<1>1. LockCore'
  BY LockStepCore DEF LockIInv
<1>2. CASE UNCHANGED Shm!lockvars
  BY <1>1, <1>2 DEF Shm!lockvars, LockIInv, Told, ToldLines, ToldShared, ToldOwn, ToldWake
<1> QED
  BY <1>1, <1>2, ToldMain, ToldRest, ToldTell DEF Shm!LockNext, LockIInv

LEMMA LockInitInv == ASSUME Shm!LockAssumption, Shm!LockInit PROVE LockIInv
BY LockInitCore, ToldInit DEF LockIInv

LEMMA LockIInvMeans == ASSUME Shm!LockAssumption, LockIInv PROVE Shm!CountersInv
<1> USE DEF Shm!LockAssumption, LockIInv, LockCore, Shm!LockTypeOK
<1>1. Shm!Exclusion
  BY DEF Shm!Exclusion, LockValue, Phases, Shm!Inside, Shm!Workers, One
<1>2. Shm!AllCounted
  BY DEF Shm!AllCounted, Phases, SharedSum, OwnSum, RoundsLeft, One, Shm!Counting, Shm!LockRounds, Shm!Workers
<1>3. Shm!ToldInOrder
  <2>1. ToldOwn /\ ToldShared
    BY DEF Told
  <2> QED
    BY <2>1, Zenon DEF Shm!ToldInOrder, ToldOwn, ToldShared, By, Shm!Cardinality, Cardinality
<1>4. Shm!LockKept
  BY DEF Shm!LockKept, Phases
<1>5. Shm!WokenOnce
  BY DEF Shm!WokenOnce, Phases, LockValue, Told, ToldWake, Shm!Workers, One
<1> QED
  BY <1>1, <1>2, <1>3, <1>4, <1>5 DEF Shm!CountersInv

\* What the programs with a semaphore or a mutex are there to show, however many rounds they
\* make: no two workers are inside, no update is lost, what is printed is the count of one
\* after the other, and one thread is woken once (semaphore_proc.c, semaphore_thread.c,
\* semaphore_thread_wake.c, thread-ex1.c, thread-local.c).
THEOREM CountersExact == ASSUME Shm!LockAssumption PROVE Shm!LockSpec => []Shm!CountersInv
<1>1. Shm!LockInit => LockIInv
  BY LockInitInv
<1>2. LockIInv /\ [Shm!LockNext]_(Shm!lockvars) => LockIInv'
  BY LockStepInv
<1>3. LockIInv => Shm!CountersInv
  BY LockIInvMeans
<1> QED
  BY <1>1, <1>2, <1>3, PTL DEF Shm!LockSpec
(***************************************************************************)
(* The caller of system_cmd and its child.  What is true of the caller at  *)
(* each of its steps: which dispositions and which mask it has, whether    *)
(* the child lives, and whether the handler for SIGCHLD can have run.      *)
(***************************************************************************)
CallTypes ==
  /\ Sig!SysTypeOK
  /\ before \in [disp : [Sig!Keys -> Sig!Dispositions], blocked : BOOLEAN, reaps : BOOLEAN]
  /\ ypc \in {"call", "blocked", "ignored", "fork", "wait", "mask", "unint", "unquit", "returned",
              "exited", "killed"}
  /\ child \in {"none", "forked", "int", "unmasked", "shell", "gone"}
Unforked == {"call", "blocked", "ignored", "fork"}
Kept == disp = before.disp /\ blocked = before.blocked
PlainCall ==
  command # "system" =>
    /\ Kept
    /\ ypc \in {"call", "fork", "wait", "returned", "exited", "killed"}
    /\ ypc \in {"fork", "wait", "exited"} => command = "fork"
    /\ child \in {"none", "forked", "gone"}
Masked ==
  command = "system" =>
    /\ ypc # "exited"
    /\ ypc \in {"blocked", "ignored", "fork", "wait", "mask"} => blocked
    /\ ypc \in {"call", "unint", "unquit", "returned"} => blocked = before.blocked
Ignoring ==
  command = "system" =>
    /\ ypc \in {"call", "blocked", "returned"} => disp = before.disp
    /\ ypc = "ignored" => disp["int"] = "ignore" /\ disp["quit"] = before.disp["quit"]
    /\ ypc \in {"fork", "wait", "mask", "unint"} => \A key \in Sig!Keys : disp[key] = "ignore"
    /\ ypc = "unquit" => disp["int"] = before.disp["int"] /\ disp["quit"] = "ignore"
ChildLives ==
  /\ ypc \in Unforked => child = "none"
  /\ command = "system" /\ child \notin {"none", "gone"} => ypc = "wait"
ItsOwn(key) == IF before.disp[key] = "ignore" THEN "ignore" ELSE "default"
ChildSteps ==
  command = "system" =>
    /\ child = "forked" => \A key \in Sig!Keys : cdisp[key] = "ignore"
    /\ child = "int" => cdisp["int"] = ItsOwn("int") /\ cdisp["quit"] = "ignore"
    /\ child \in {"unmasked", "shell"} => \A key \in Sig!Keys : cdisp[key] = ItsOwn(key)
    /\ child = "shell" => cblocked = before.blocked
NotYet == command = "system" /\ ypc \in Unforked \cup {"wait"} => ~caught
StatusIs ==
  command = "system" /\ ypc \in {"mask", "unint", "unquit", "returned"} =>
    status = IF child = "none" \/ ~before.reaps THEN "error" ELSE ended
SysIInv ==
  /\ CallTypes /\ PlainCall /\ Masked /\ Ignoring /\ ChildLives /\ ChildSteps /\ NotYet /\ StatusIs

LEMMA SysInitInv == ASSUME Sig!SysInit PROVE SysIInv
<1> USE DEF Sig!SysInit
<1>1. CallTypes
  BY DEF CallTypes, Sig!SysTypeOK, Sig!Statuses
<1>2. PlainCall /\ Masked /\ Ignoring
  BY DEF PlainCall, Kept, Masked, Ignoring
<1>3. ChildLives /\ ChildSteps /\ NotYet /\ StatusIs
  BY DEF ChildLives, ChildSteps, NotYet, StatusIs
<1> QED
  BY <1>1, <1>2, <1>3 DEF SysIInv
LEMMA CallerInv ==
  ASSUME SysIInv, Sig!system_cmd \/ Sig!fork_main
  PROVE  SysIInv'
<1> USE DEF SysIInv, CallTypes, Sig!SysTypeOK, PlainCall, Kept, Masked, Ignoring, ChildLives, ChildSteps, ItsOwn,
            NotYet, StatusIs, Unforked, Sig!Keys, Sig!Dispositions, Sig!Statuses,
            Sig!Caller, Sig!ChildSame, Sig!SignalSame
<1>1. CASE Sig!Refuse
  BY <1>1 DEF Sig!Refuse
<1>2. CASE Sig!Block
  BY <1>2 DEF Sig!Block
<1>3. CASE Sig!Fork
  <2>1. ypc = "fork" /\ UNCHANGED <<command, before, disp, blocked, pending, caught, keys>>
    BY <1>3 DEF Sig!Fork
  <2>2. CASE /\ ypc' = "wait" /\ child' = "forked" /\ cdisp' = disp /\ cblocked' = blocked
             /\ UNCHANGED <<status, ended>>
    <3>1. CallTypes' /\ PlainCall' /\ Masked'
      BY <2>1, <2>2
    <3>2. Ignoring' /\ ChildLives' /\ NotYet' /\ StatusIs'
      BY <2>1, <2>2
    <3>3. ChildSteps'
      BY <2>1, <2>2
    <3> QED
      BY <3>1, <3>2, <3>3
  <2>3. CASE /\ ypc' = (IF command = "fork" THEN "exited" ELSE "mask")
             /\ status' = "error" /\ UNCHANGED <<child, cdisp, cblocked, ended>>
    <3>1. child = "none"
      BY <2>1
    <3>2. StatusIs'
      BY <2>3, <3>1
    <3>3. CallTypes' /\ PlainCall' /\ Masked'
      BY <2>1, <2>3
    <3>4. Ignoring' /\ ChildLives' /\ NotYet' /\ ChildSteps'
      BY <2>1, <2>3, <3>1
    <3> QED
      BY <3>2, <3>3, <3>4
  <2> QED
    BY <1>3, <2>2, <2>3 DEF Sig!Fork
<1>4. CASE Sig!WaitChild
  <2>1. /\ child = "gone" /\ ypc = "wait" /\ ypc' \in {"mask", "returned"}
        /\ ypc' = IF command = "fork" THEN "returned" ELSE "mask"
        /\ UNCHANGED <<command, before, disp, blocked, pending, caught, child, cdisp, cblocked, ended>>
    BY <1>4 DEF Sig!WaitChild
  <2>2. status' = Sig!Reaped
    BY <1>4 DEF Sig!WaitChild
  <2>3. /\ Sig!Reaped \in Sig!Statuses
        /\ command = "system" => Sig!Reaped = IF ~before.reaps THEN "error" ELSE ended
    BY DEF Sig!Reaped
  <2>4. StatusIs'
    <3>1. ~before.reaps <=> ~before'.reaps
      BY <2>1
    <3>2. command = "system" => status' = IF ~before.reaps THEN "error" ELSE ended
      BY <2>2, <2>3
    <3> HIDE DEF SysIInv
    <3> QED
      BY <2>1, <3>1, <3>2
  <2>5. CallTypes'
    BY <2>1, <2>2, <2>3
  <2>7. PlainCall'
    BY <2>1
  <2>8. Masked' /\ Ignoring'
    BY <2>1
  <2>6. ChildLives' /\ ChildSteps' /\ NotYet'
    BY <2>1
  <2> QED
    BY <2>4, <2>5, <2>6, <2>7, <2>8
<1>5. CASE Sig!Unblock
  <2>1. /\ ypc = "mask" /\ ypc' = "unint" /\ blocked' = before.blocked
        /\ UNCHANGED <<command, before, disp, status, child, cdisp, cblocked, ended>>
    BY <1>5 DEF Sig!Unblock
  <2> QED
    BY <2>1
<1>6. CASE Sig!Ignore("int", "blocked", "ignored")
  BY <1>6 DEF Sig!Ignore
<1>7. CASE Sig!Ignore("quit", "ignored", "fork")
  BY <1>7 DEF Sig!Ignore
<1>8. CASE Sig!Restore("int", "unint", "unquit")
  BY <1>8 DEF Sig!Restore
<1>9. CASE Sig!Restore("quit", "unquit", "returned")
  BY <1>9 DEF Sig!Restore
<1>10. CASE Sig!fork_main
  BY <1>10 DEF Sig!fork_main
<1> QED
  BY <1>1, <1>2, <1>3, <1>4, <1>5, <1>6, <1>7, <1>8, <1>9, <1>10 DEF Sig!system_cmd

LEMMA ChildInv == ASSUME SysIInv, Sig!child_process PROVE SysIInv'
<1> USE DEF SysIInv, CallTypes, Sig!SysTypeOK, PlainCall, Kept, Masked, Ignoring, ChildLives, ChildSteps, ItsOwn,
            NotYet, StatusIs, Unforked, Sig!Keys, Sig!Dispositions, Sig!Statuses,
            Sig!ChildGoes, Sig!SignalSame, Sig!Ends
<1>1. CASE Sig!Default("int", "forked", "int")
  BY <1>1 DEF Sig!Default
<1>2. CASE Sig!Default("quit", "int", "unmasked")
  BY <1>2 DEF Sig!Default
<1>3. CASE Sig!Exec
  <2>1. CASE Sig!ChildGoes("unmasked", "shell") /\ cblocked' = before.blocked /\ UNCHANGED <<ended, pending, caught, cdisp>>
    BY <2>1
  <2>2. CASE Sig!ChildGoes("unmasked", "gone") /\ Sig!Ends("nonzero") /\ UNCHANGED <<cblocked, cdisp>>
    <3>1. child = "unmasked" /\ child' = "gone" /\ UNCHANGED <<command, before, disp, blocked, ypc, status, cdisp, cblocked>>
      BY <2>2
    <3>2. ended' = "nonzero" /\ (caught' => caught \/ ~blocked)
      BY <2>2, Zenon
    <3> HIDE DEF Sig!Ends, Sig!ChildGoes
    <3> QED
      BY <3>1, <3>2
  <2> QED
    BY <1>3, <2>1, <2>2 DEF Sig!Exec
<1>4. CASE Sig!Finish
  <2>1. /\ child \in {"shell", "forked"}
        /\ child = "forked" => command = "fork"
        /\ child' = "gone"
        /\ \E how \in {"zero", "nonzero"} : Sig!Ends(how)
        /\ UNCHANGED <<command, before, disp, blocked, ypc, status, cdisp, cblocked>>
    BY <1>4 DEF Sig!Finish
  <2>2. ended' \in Sig!Statuses /\ (caught' => caught \/ ~blocked)
    BY <2>1, Zenon DEF Sig!Ends, Sig!Statuses
  <2> HIDE DEF Sig!Ends
  <2> QED
    BY <2>1, <2>2
<1> QED
  BY <1>1, <1>2, <1>3, <1>4 DEF Sig!child_process

LEMMA KeyInv == ASSUME SysIInv, NEW key \in Sig!Keys, Sig!Key(key) PROVE SysIInv'
<1> USE DEF SysIInv, CallTypes, Sig!SysTypeOK, PlainCall, Kept, Masked, Ignoring, ChildLives, ChildSteps, ItsOwn,
            NotYet, StatusIs, Unforked, Sig!Keys, Sig!Dispositions, Sig!Statuses
<1>1. /\ ypc \notin {"returned", "exited", "killed"}
      /\ ypc' = IF disp[key] = "default" THEN "killed" ELSE ypc
      /\ UNCHANGED <<command, before, disp, blocked, status, cdisp, cblocked>>
  BY DEF Sig!Key
<1>2. CASE child \notin {"none", "gone"} /\ cdisp[key] = "default"
  <2>1. child' = "gone" /\ ended' = "signal"
    BY <1>2 DEF Sig!Key, Sig!Ends
  <2>2. caught' => caught \/ ~blocked
    BY <1>2, Zenon DEF Sig!Key, Sig!Ends
  <2> QED
    BY <1>1, <1>2, <2>1, <2>2
<1>3. CASE ~(child \notin {"none", "gone"} /\ cdisp[key] = "default")
  <2>1. UNCHANGED <<child, ended, caught>>
    BY <1>3 DEF Sig!Key, Sig!SignalSame
  <2> QED
    BY <1>1, <2>1
<1> QED
  BY <1>2, <1>3

LEMMA SysStepInv == ASSUME SysIInv, [Sig!SysNext]_(Sig!sysvars) PROVE SysIInv'
<1>1. CASE UNCHANGED Sig!sysvars
  BY <1>1 DEF Sig!sysvars, SysIInv, CallTypes, Sig!SysTypeOK, PlainCall, Kept, Masked, Ignoring, ChildLives,
              ChildSteps, ItsOwn, NotYet, StatusIs
<1> QED
  BY <1>1, CallerInv, ChildInv, KeyInv DEF Sig!SysNext

LEMMA SysIInvMeans == ASSUME SysIInv PROVE Sig!SystemInv
<1> USE DEF SysIInv, CallTypes
<1>1. Sig!Restored
  <2> DEFINE Both == disp = before.disp
  <2> QED
    BY DEF Sig!Restored, PlainCall, Kept, Masked, Ignoring
<1>2. Sig!Shielded /\ Sig!HandledLate /\ Sig!StatusRight
  BY DEF Sig!Shielded, Sig!HandledLate, Sig!StatusRight, ChildLives, Ignoring, NotYet, StatusIs, Unforked
<1>3. Sig!CleanChild
  BY DEF Sig!CleanChild, ChildSteps, ItsOwn, PlainCall
<1> QED
  BY <1>1, <1>2, <1>3 DEF Sig!SystemInv

\* However the call goes and whatever keys are pressed meanwhile: the caller has its
\* dispositions and mask back, the keys did not reach it while the command ran, the command
\* began with the caller's own, and what is returned is how it ended (system.c, fork.c).
THEOREM CallsSound == Sig!SysSpec => []Sig!SystemInv
<1>1. Sig!SysInit => SysIInv
  BY SysInitInv
<1>2. SysIInv /\ [Sig!SysNext]_(Sig!sysvars) => SysIInv'
  BY SysStepInv
<1>3. SysIInv => Sig!SystemInv
  BY SysIInvMeans
<1> QED
  BY <1>1, <1>2, <1>3, PTL DEF Sig!SysSpec

(***************************************************************************)
(* The loops a signal ends.  While one runs, the screen and the buffer     *)
(* behind it have the turns that were printed, in their order, and no      *)
(* message; of a program that writes at the end of each line the buffer    *)
(* has nothing but the clear-screen of cursor.c.                           *)
(***************************************************************************)
Printed == IF ipc = "next" \/ (ipc = "sleep" /\ loop \notin Sig!SleepsFirst) THEN turn ELSE turn - 1
NoMessage(s) == \A i \in DOMAIN s : s[i] # Sig!Message
OnlyClears(s) == \A i \in DOMAIN s : s[i] = Sig!Clear
IntTypes ==
  /\ turn \in Nat \ {0}
  /\ screen \in Seq(Int) /\ stdio \in Seq(Int)
  /\ ipc = "ended" <=> outcome # "running"
  /\ ipc \in {"clear", "clearing"} => loop = "cursor"
  /\ ipc = "register" => stdio = <<>> /\ screen = <<>> /\ turn = 1
  /\ outcome \in {"running", "finished", "interrupted", "default", "undefined"}
Logged ==
  outcome = "running" =>
    /\ Sig!InTurn(screen \o stdio, Printed) /\ NoMessage(screen \o stdio)
    /\ Sig!Flushes => OnlyClears(stdio) /\ (loop # "cursor" => stdio = <<>>)
IntIInv == IntTypes /\ Logged /\ Sig!InterruptInv

LEMMA ClearIs == Sig!Clear \in Int /\ Sig!Clear # Sig!Message
<1>1. -1 \in Int /\ -1 # 0
  OBVIOUS
<1> QED
  BY <1>1 DEF Sig!Clear, Sig!Message

LEMMA JoinedLog ==
  ASSUME NEW s \in Seq(Int), NEW t \in Seq(Int)
  PROVE  /\ s \o t \in Seq(Int) /\ Len(s \o t) = Len(s) + Len(t) /\ DOMAIN (s \o t) = 1..(Len(s) + Len(t))
         /\ \A i \in 1..Len(s) : (s \o t)[i] = s[i]
         /\ \A i \in 1..Len(t) : (s \o t)[Len(s) + i] = t[i]
OBVIOUS

LEMMA LongerLog ==
  ASSUME NEW s \in Seq(Int), NEW x \in Int
  PROVE  /\ Append(s, x) \in Seq(Int) /\ DOMAIN Append(s, x) = 1..(Len(s) + 1)
         /\ Len(Append(s, x)) = Len(s) + 1 /\ DOMAIN s = 1..Len(s) /\ Len(s) \in Nat
         /\ \A i \in 1..Len(s) : Append(s, x)[i] = s[i]
         /\ Append(s, x)[Len(s) + 1] = x
OBVIOUS

LEMMA AppendJoined ==
  ASSUME NEW s \in Seq(Int), NEW t \in Seq(Int), NEW x \in Int
  PROVE  s \o Append(t, x) = Append(s \o t, x) /\ s \o t \o <<x>> = Append(s \o t, x) /\ s \o <<>> = s
OBVIOUS

LEMMA TurnLogged ==
  ASSUME NEW s \in Seq(Int), NEW n \in Nat, Sig!InTurn(s, n)
  PROVE  Sig!InTurn(Append(s, n + 1), n + 1)
<1> DEFINE u == Append(s, n + 1)
<1>1. /\ DOMAIN u = 1..(Len(s) + 1) /\ u[Len(s) + 1] = n + 1 /\ DOMAIN s = 1..Len(s) /\ Len(s) \in Nat
      /\ \A i \in 1..Len(s) : u[i] = s[i]
  BY LongerLog
<1> HIDE DEF u
<1>2. \A k \in 1..(n + 1) : \E i \in DOMAIN u : u[i] = k
  <2> SUFFICES ASSUME NEW k \in 1..(n + 1) PROVE \E i \in DOMAIN u : u[i] = k
    OBVIOUS
  <2>1. CASE k = n + 1
    BY <1>1, <2>1
  <2>2. CASE k # n + 1
    <3>1. k \in 1..n
      BY <2>2
    <3>2. PICK i \in DOMAIN s : s[i] = k
      BY <3>1 DEF Sig!InTurn
    <3> QED
      BY <1>1, <3>2
  <2> QED
    BY <2>1, <2>2
<1>3. \A i \in DOMAIN u : u[i] <= n + 1
  <2> SUFFICES ASSUME NEW i \in DOMAIN u PROVE u[i] <= n + 1
    OBVIOUS
  <2>1. CASE i = Len(s) + 1
    BY <1>1, <2>1
  <2>2. CASE i # Len(s) + 1
    <3>1. i \in DOMAIN s /\ u[i] = s[i] /\ s[i] \in Int
      BY <1>1, <2>2
    <3>2. s[i] <= n
      BY <3>1 DEF Sig!InTurn
    <3> QED
      BY <3>1, <3>2
  <2> QED
    BY <2>1, <2>2
<1>4. \A i, j \in DOMAIN u : i < j /\ u[i] > 0 /\ u[j] > 0 => u[i] < u[j]
  <2> SUFFICES ASSUME NEW i \in DOMAIN u, NEW j \in DOMAIN u, i < j, u[i] > 0, u[j] > 0 PROVE u[i] < u[j]
    OBVIOUS
  <2>1. i \in 1..Len(s) /\ u[i] = s[i] /\ s[i] \in Int /\ s[i] <= n
    BY <1>1 DEF Sig!InTurn
  <2>2. CASE j = Len(s) + 1
    BY <1>1, <2>1, <2>2
  <2>3. CASE j # Len(s) + 1
    <3>1. j \in 1..Len(s)
      BY ONLY <1>1, <2>3, j \in DOMAIN u
    <3>2. i \in DOMAIN s /\ j \in DOMAIN s /\ u[j] = s[j] /\ s[i] > 0 /\ s[j] > 0
      BY <1>1, <2>1, <3>1
    <3> QED
      BY <2>1, <3>2 DEF Sig!InTurn
  <2> QED
    BY <2>2, <2>3
<1>5. Sig!InTurn(u, n + 1)
  BY <1>2, <1>3, <1>4 DEF Sig!InTurn
<1> QED
  BY <1>5 DEF u

LEMMA ClearLogged ==
  ASSUME NEW s \in Seq(Int), NEW n \in Nat, Sig!InTurn(s, n)
  PROVE  Sig!InTurn(Append(s, Sig!Clear), n)
<1> DEFINE u == Append(s, Sig!Clear)
<1>1. /\ DOMAIN u = 1..(Len(s) + 1) /\ u[Len(s) + 1] = -1 /\ DOMAIN s = 1..Len(s) /\ Len(s) \in Nat
      /\ \A i \in 1..Len(s) : u[i] = s[i]
  BY LongerLog, -1 \in Int DEF Sig!Clear
<1> HIDE DEF u
<1>2. \A k \in 1..n : \E i \in DOMAIN u : u[i] = k
  <2> SUFFICES ASSUME NEW k \in 1..n PROVE \E i \in DOMAIN u : u[i] = k
    OBVIOUS
  <2>1. PICK i \in DOMAIN s : s[i] = k
    BY DEF Sig!InTurn
  <2> QED
    BY <1>1, <2>1
<1>3. \A i \in DOMAIN u : u[i] <= n
  <2> SUFFICES ASSUME NEW i \in DOMAIN u PROVE u[i] <= n
    OBVIOUS
  <2>1. CASE i = Len(s) + 1
    BY <1>1, <2>1
  <2>2. CASE i # Len(s) + 1
    <3>1. i \in DOMAIN s /\ u[i] = s[i]
      BY <1>1, <2>2
    <3> QED
      BY <3>1 DEF Sig!InTurn
  <2> QED
    BY <2>1, <2>2
<1>4. \A i, j \in DOMAIN u : i < j /\ u[i] > 0 /\ u[j] > 0 => u[i] < u[j]
  <2> SUFFICES ASSUME NEW i \in DOMAIN u, NEW j \in DOMAIN u, i < j, u[i] > 0, u[j] > 0 PROVE u[i] < u[j]
    OBVIOUS
  <2>1. i \in DOMAIN s /\ j \in DOMAIN s /\ u[i] = s[i] /\ u[j] = s[j]
    BY <1>1
  <2> QED
    BY <2>1 DEF Sig!InTurn
<1>5. Sig!InTurn(u, n)
  BY <1>2, <1>3, <1>4 DEF Sig!InTurn
<1> QED
  BY <1>5 DEF u

LEMMA NoMessageMore ==
  ASSUME NEW s \in Seq(Int), NEW x \in Int, NoMessage(s), x # Sig!Message
  PROVE  NoMessage(Append(s, x))
<1> SUFFICES ASSUME NEW i \in DOMAIN Append(s, x) PROVE Append(s, x)[i] # Sig!Message
  BY DEF NoMessage
<1>1. /\ DOMAIN Append(s, x) = 1..(Len(s) + 1) /\ DOMAIN s = 1..Len(s) /\ Len(s) \in Nat
      /\ \A k \in 1..Len(s) : Append(s, x)[k] = s[k]
      /\ Append(s, x)[Len(s) + 1] = x
  BY LongerLog
<1>2. i \in 1..Len(s) \/ i = Len(s) + 1
  BY <1>1
<1> QED
  BY <1>1, <1>2 DEF NoMessage

\* The message between what is on the screen and what follows from the buffer.
LEMMA MessageBetween ==
  ASSUME NEW s \in Seq(Int), NEW t \in Seq(Int)
  PROVE  LET u == (s \o <<Sig!Message>>) \o t
         IN  /\ u \in Seq(Int) /\ Len(u) = Len(s) + 1 + Len(t) /\ DOMAIN u = 1..(Len(s) + 1 + Len(t))
             /\ \A i \in 1..Len(s) : u[i] = (s \o t)[i]
             /\ u[Len(s) + 1] = Sig!Message
             /\ \A i \in 1..Len(t) : /\ u[Len(s) + 1 + i] = (s \o t)[Len(s) + i]
                                    /\ u[Len(s) + 1 + i] = t[i]
BY DEF Sig!Message

LEMMA MessageLogged ==
  ASSUME NEW s \in Seq(Int), NEW t \in Seq(Int), NEW n \in Nat, Sig!InTurn(s \o t, n), NoMessage(s \o t)
  PROVE  LET u == (s \o <<Sig!Message>>) \o t
         IN  /\ Sig!InTurn(u, n) /\ u[Len(s) + 1] = Sig!Message
             /\ Len(s) + 1 \in DOMAIN u
             /\ \A i \in DOMAIN u : u[i] = Sig!Message => i = Len(s) + 1
<1> DEFINE u == (s \o <<Sig!Message>>) \o t
           w == s \o t
           a == Len(s)
           b == Len(t)
<1>1. /\ DOMAIN u = 1..(a + 1 + b) /\ u[a + 1] = 0 /\ a \in Nat /\ b \in Nat
      /\ \A i \in 1..a : u[i] = w[i]
      /\ \A i \in 1..b : u[a + 1 + i] = w[a + i]
      /\ DOMAIN w = 1..(a + b) /\ w \in Seq(Int)
  BY MessageBetween, JoinedLog DEF Sig!Message
<1>2. Sig!InTurn(w, n) /\ NoMessage(w)
  OBVIOUS
<1> HIDE DEF u, w, a, b
<1>0. a \in Nat /\ b \in Nat
  BY <1>1
<1>2a. \A i \in 1..(a + 1 + b) : i > a + 1 => i - (a + 1) \in 1..b /\ i - 1 \in 1..(a + b)
  BY ONLY <1>0
<1>2b. \A i \in 1..(a + 1 + b) : i \in 1..a \/ i = a + 1 \/ i > a + 1
  BY ONLY <1>0
<1>2c. \A i \in 1..a : i \in 1..(a + b)
  BY ONLY <1>0
<1>3. \A i \in DOMAIN u : \/ i \in 1..a /\ u[i] = w[i] /\ i \in DOMAIN w
                          \/ i = a + 1 /\ u[i] = 0
                          \/ i > a + 1 /\ u[i] = w[i - 1] /\ i - 1 \in DOMAIN w
  <2> SUFFICES ASSUME NEW i \in DOMAIN u, i > a + 1 PROVE u[i] = w[i - 1] /\ i - 1 \in DOMAIN w
    BY <1>1, <1>2b, <1>2c
  <2>1. i - (a + 1) \in 1..b /\ i - 1 \in 1..(a + b)
    BY <1>1, <1>2a
  <2>0. i \in Int
    BY <1>1
  <2>2. a + 1 + (i - (a + 1)) = i /\ a + (i - (a + 1)) = i - 1
    BY ONLY <1>0, <2>0
  <2>3. u[a + 1 + (i - (a + 1))] = w[a + (i - (a + 1))]
    BY <1>1, <2>1
  <2> QED
    BY <1>1, <2>1, <2>2, <2>3
<1>4. \A k \in 1..n : \E i \in DOMAIN u : u[i] = k
  <2> SUFFICES ASSUME NEW k \in 1..n PROVE \E i \in DOMAIN u : u[i] = k
    OBVIOUS
  <2>1. PICK i \in DOMAIN w : w[i] = k
    BY <1>2 DEF Sig!InTurn
  <2>2. CASE i <= a
    <3>1. i \in 1..a /\ i \in 1..(a + 1 + b)
      BY ONLY <1>1, <2>2, i \in DOMAIN w
    <3> QED
      BY <1>1, <2>1, <3>1
  <2>3. CASE i > a
    <3>0. i \in 1..(a + b)
      BY <1>1
    <3>1. i - a \in 1..b /\ a + (i - a) = i /\ a + 1 + (i - a) \in 1..(a + 1 + b)
      BY ONLY <1>0, <2>3, <3>0
    <3>2. u[a + 1 + (i - a)] = w[a + (i - a)]
      BY <1>1, <3>1
    <3> QED
      BY <1>1, <2>1, <3>1, <3>2
  <2> QED
    BY <1>1, <2>2, <2>3
<1>5. \A i \in DOMAIN w : w[i] <= n /\ w[i] \in Int /\ w[i] # 0
  BY <1>1, <1>2 DEF Sig!InTurn, NoMessage, Sig!Message
<1>6. \A i \in DOMAIN u : u[i] <= n /\ (u[i] = 0 => i = a + 1)
  BY <1>3, <1>5
<1>7. \A i, j \in DOMAIN u : i < j /\ u[i] > 0 /\ u[j] > 0 => u[i] < u[j]
  <2> SUFFICES ASSUME NEW i \in DOMAIN u, NEW j \in DOMAIN u, i < j, u[i] > 0, u[j] > 0 PROVE u[i] < u[j]
    OBVIOUS
  <2>1. \A x, y \in DOMAIN w : x < y /\ w[x] > 0 /\ w[y] > 0 => w[x] < w[y]
    BY <1>2 DEF Sig!InTurn
  <2>2. i # a + 1 /\ j # a + 1 /\ i \in Int /\ j \in Int /\ a \in Int
    BY <1>1
  <2>3. CASE i <= a /\ j <= a
    BY <1>3, <2>1, <2>2, <2>3
  <2>4. CASE i <= a /\ j > a
    <3>1. i \in DOMAIN w /\ u[i] = w[i] /\ j - 1 \in DOMAIN w /\ u[j] = w[j - 1]
      BY <1>3, <2>2, <2>4
    <3>2. i < j - 1
      BY <2>2, <2>4
    <3> QED
      BY <2>1, <3>1, <3>2
  <2>5. CASE i > a
    BY <1>3, <2>1, <2>2, <2>5
  <2> QED
    BY <2>2, <2>3, <2>4, <2>5
<1>8. Sig!InTurn(u, n)
  BY <1>4, <1>6, <1>7 DEF Sig!InTurn
<1>9. u[a + 1] = Sig!Message /\ a + 1 \in DOMAIN u /\ \A i \in DOMAIN u : u[i] = Sig!Message => i = a + 1
  BY <1>1, <1>6 DEF Sig!Message
<1> QED
  BY <1>8, <1>9 DEF u, a

LEMMA IntInitInv == ASSUME Sig!IntInit PROVE IntIInv
<1> USE DEF Sig!IntInit
<1>1. IntTypes
  BY DEF IntTypes
<1>2. screen \o stdio = <<>> /\ Printed = 0 /\ stdio = <<>>
  BY DEF Printed, Sig!SleepsFirst
<1>3. Sig!InTurn(<<>>, 0) /\ NoMessage(<<>>) /\ OnlyClears(<<>>)
  BY DEF Sig!InTurn, NoMessage, OnlyClears
<1>4. Logged
  BY <1>2, <1>3 DEF Logged
<1>5. Sig!InterruptInv
  BY DEF Sig!InterruptInv, Sig!NothingLost, Sig!MessageLast, Sig!OnlyNamed
<1> QED
  BY <1>1, <1>4, <1>5 DEF IntIInv

\* A step in which the loop goes on keeps what it promises at its end.
LEMMA GoesOn == ASSUME outcome' = "running" PROVE Sig!InterruptInv'
BY DEF Sig!InterruptInv, Sig!NothingLost, Sig!MessageLast, Sig!OnlyNamed

LEMMA LoopInv == ASSUME IntIInv, Sig!Running, Sig!main PROVE IntIInv'
<1> DEFINE n == Printed
           log == screen \o stdio
<1>1. /\ outcome = "running" /\ IntTypes /\ n \in Nat
      /\ turn \in Nat \ {0} /\ screen \in Seq(Int) /\ stdio \in Seq(Int)
  BY DEF IntIInv, IntTypes, Sig!Running, Printed
<1>2. /\ Sig!InTurn(log, n) /\ NoMessage(log)
      /\ Sig!Flushes => OnlyClears(stdio) /\ (loop # "cursor" => stdio = <<>>)
  BY <1>1 DEF IntIInv, Logged
<1>3. log \in Seq(Int)
  BY <1>1, JoinedLog
<1>4. UNCHANGED <<loop, tty, killer>>
  BY DEF Sig!main, Sig!Register, Sig!BeginClear, Sig!EndClear, Sig!BeginPrint, Sig!EndPrint, Sig!Wake, Sig!NextTurn,
         Sig!Leaves
<1>5. Sig!Flushes' <=> Sig!Flushes
  BY <1>4 DEF Sig!Flushes
<1>6. ASSUME UNCHANGED <<stdio, screen>>, outcome' = "running", turn' \in Nat \ {0}, Printed' = n,
             ipc' \notin {"ended", "register"}, ipc' \in {"clear", "clearing"} => loop = "cursor"
      PROVE  IntIInv'
  <2>1. IntTypes'
    BY <1>1, <1>4, <1>6 DEF IntTypes
  <2>2. (screen \o stdio)' = log
    BY <1>6
  <2>3. Logged'
    BY <1>2, <1>4, <1>5, <1>6, <2>2 DEF Logged
  <2> QED
    BY <1>6, <2>1, <2>3, GoesOn DEF IntIInv
<1>7. ASSUME ipc' = "ended", outcome' = "finished", screen' = log, stdio' = <<>>, turn' = turn,
             n \in {turn - 1, turn}
      PROVE  IntIInv'
  <2>1. IntTypes' /\ Logged'
    BY <1>1, <1>3, <1>7 DEF IntTypes, Logged
  <2>2. Sig!NothingLost'
    BY <1>2, <1>7 DEF Sig!NothingLost, NoMessage
  <2>3. Sig!MessageLast' /\ Sig!OnlyNamed'
    BY <1>7 DEF Sig!MessageLast, Sig!OnlyNamed
  <2> QED
    BY <2>1, <2>2, <2>3 DEF IntIInv, Sig!InterruptInv
<1>8. CASE Sig!Register
  <2>1. /\ ipc = "register" /\ UNCHANGED <<turn, stdio, screen>> /\ turn = 1 /\ stdio = <<>> /\ screen = <<>>
        /\ \/ ipc' = Sig!Begin /\ outcome' = "running"
           \/ ipc' = "ended" /\ outcome' = "finished"
    BY <1>1, <1>8 DEF Sig!Register, Sig!Leaves, Sig!End, IntTypes
  <2>2. CASE ipc' = Sig!Begin /\ outcome' = "running"
    <3>1. /\ Printed' = n /\ ipc' \notin {"ended", "register"}
          /\ ipc' \in {"clear", "clearing"} => loop = "cursor"
      BY <1>4, <2>1, <2>2 DEF Printed, Sig!Begin, Sig!SleepsFirst
    <3> QED
      BY <1>1, <1>6, <2>1, <2>2, <3>1
  <2>3. CASE ipc' = "ended" /\ outcome' = "finished"
    <3>1. log = <<>> /\ n = 0
      BY <2>1 DEF Printed
    <3> QED
      BY <1>7, <2>1, <2>3, <3>1
  <2> QED
    BY <2>1, <2>2, <2>3
<1>9. CASE Sig!BeginClear \/ Sig!BeginPrint \/ Sig!Wake
  <2>1. /\ UNCHANGED <<turn, stdio, screen, outcome>>
        /\ \/ ipc = "clear" /\ ipc' = "clearing"
           \/ ipc = "print" /\ ipc' = "printing"
           \/ ipc = "sleep" /\ ipc' = IF loop \in Sig!SleepsFirst THEN "print" ELSE "next"
    BY <1>9 DEF Sig!BeginClear, Sig!BeginPrint, Sig!Wake, Sig!Leaves, Sig!Same
  <2>2. /\ Printed' = n /\ ipc' \notin {"ended", "register"}
        /\ ipc' \in {"clear", "clearing"} => loop = "cursor"
    BY <1>1, <1>4, <2>1 DEF Printed, IntTypes
  <2> QED
    BY <1>1, <1>6, <2>1, <2>2
<1>10. CASE Sig!EndClear
  <2>1. /\ ipc = "clearing" /\ ipc' = "sleep" /\ UNCHANGED <<turn, screen, outcome>>
        /\ stdio' = Append(stdio, Sig!Clear)
    BY <1>10 DEF Sig!EndClear, Sig!Leaves
  <2>2. loop = "cursor" /\ Printed' = n /\ outcome' = "running"
    BY <1>1, <1>4, <2>1 DEF IntTypes, Printed, Sig!SleepsFirst
  <2>3. Sig!InTurn(Append(log, Sig!Clear), n) /\ Append(stdio, Sig!Clear) \in Seq(Int)
    BY <1>1, <1>2, <1>3, ClearLogged, LongerLog, ClearIs
  <2>4. (screen \o stdio)' = Append(log, Sig!Clear)
    BY <1>1, <2>1, AppendJoined, ClearIs
  <2>5. NoMessage(Append(log, Sig!Clear))
    BY <1>2, <1>3, ClearIs, NoMessageMore
  <2>6. OnlyClears(stdio) => OnlyClears(Append(stdio, Sig!Clear))
    BY <1>1, LongerLog, ClearIs DEF OnlyClears
  <2>7. IntTypes'
    BY <1>1, <1>4, <2>1, <2>3 DEF IntTypes
  <2>8. Logged'
    BY <1>2, <1>4, <1>5, <2>1, <2>2, <2>3, <2>4, <2>5, <2>6 DEF Logged
  <2> QED
    BY <2>2, <2>7, <2>8, GoesOn DEF IntIInv
<1>11. CASE Sig!EndPrint
  <2>1. /\ ipc = "printing" /\ ipc' = (IF loop \in Sig!SleepsFirst THEN "next" ELSE "sleep")
        /\ UNCHANGED <<turn, outcome>>
        /\ IF Sig!Flushes THEN screen' = screen \o stdio \o <<turn>> /\ stdio' = <<>>
                           ELSE stdio' = Append(stdio, turn) /\ screen' = screen
    BY <1>11 DEF Sig!EndPrint, Sig!Leaves
  <2>2. n = turn - 1 /\ Printed' = n + 1 /\ turn = n + 1 /\ outcome' = "running"
    BY <1>1, <1>4, <2>1 DEF Printed
  <2>3. /\ Sig!InTurn(Append(log, turn), n + 1) /\ Append(log, turn) \in Seq(Int)
        /\ Append(stdio, turn) \in Seq(Int)
    <3>1. Sig!InTurn(Append(log, n + 1), n + 1)
      BY <1>1, <1>2, <1>3, TurnLogged
    <3>2. turn \in Int
      BY <1>1
    <3> QED
      BY <1>1, <1>3, <2>2, <3>1, <3>2, LongerLog
  <2>4. NoMessage(Append(log, turn))
    <3>1. turn \in Int /\ turn # 0
      BY <1>1
    <3> QED
      BY <1>2, <1>3, <3>1, NoMessageMore DEF Sig!Message
  <2>5. (screen \o stdio)' = Append(log, turn)
    <3>1. turn \in Int
      BY <1>1
    <3>2. CASE Sig!Flushes
      <4>1. screen' = Append(log, turn) /\ stdio' = <<>>
        BY <1>1, <2>1, <3>1, <3>2, AppendJoined
      <4> QED
        BY <2>3, <4>1, AppendJoined
    <3>3. CASE ~Sig!Flushes
      <4>1. screen' = screen /\ stdio' = Append(stdio, turn)
        BY <2>1, <3>3
      <4>2. screen \o Append(stdio, turn) = Append(screen \o stdio, turn)
        BY <1>1, <3>1, AppendJoined
      <4> QED
        BY <4>1, <4>2
    <3> QED
      BY <3>2, <3>3
  <2>6. screen' \in Seq(Int) /\ stdio' \in Seq(Int)
    <3>1. CASE Sig!Flushes
      <4>1. turn \in Int
        BY <1>1
      <4>2. screen' = Append(log, turn) /\ stdio' = <<>>
        BY <1>1, <2>1, <3>1, <4>1, AppendJoined
      <4> QED
        BY <2>3, <4>2
    <3>2. CASE ~Sig!Flushes
      BY <1>1, <2>1, <2>3, <3>2
    <3> QED
      BY <3>1, <3>2
  <2>7. IntTypes'
    BY <1>1, <1>4, <2>1, <2>2, <2>6 DEF IntTypes
  <2>8. Sig!Flushes => stdio' = <<>> /\ OnlyClears(stdio')
    BY <2>1 DEF OnlyClears
  <2>9. Logged'
    BY <1>4, <1>5, <2>2, <2>3, <2>4, <2>5, <2>8 DEF Logged
  <2> QED
    BY <2>2, <2>7, <2>9, GoesOn DEF IntIInv
<1>12. CASE Sig!NextTurn
  <2>1. ipc = "next" /\ n = turn
    BY <1>1, <1>12 DEF Sig!NextTurn, Sig!Leaves, Printed
  <2>2. CASE ipc' = Sig!Begin /\ turn' = turn + 1 /\ UNCHANGED <<stdio, screen, outcome>>
    <3>1. /\ Printed' = n /\ ipc' \notin {"ended", "register"} /\ turn' \in Nat \ {0}
          /\ ipc' \in {"clear", "clearing"} => loop = "cursor"
      BY <1>1, <1>4, <2>1, <2>2 DEF Printed, Sig!Begin, Sig!SleepsFirst
    <3> QED
      BY <1>1, <1>6, <2>2, <3>1
  <2>3. CASE /\ ipc' = "ended" /\ screen' = screen \o stdio /\ stdio' = <<>>
             /\ outcome' = "finished" /\ turn' = turn
    BY <1>7, <2>1, <2>3
  <2> QED
    BY <1>12, <2>2, <2>3 DEF Sig!NextTurn, Sig!Leaves, Sig!End
<1> QED
  BY <1>8, <1>9, <1>10, <1>11, <1>12 DEF Sig!main

\* The handler of one program in any of its states.
LEMMA HandlerInv ==
  ASSUME IntIInv, outcome = "running", killer' = Sig!Named, Sig!Handler
  PROVE  IntIInv'
<1> DEFINE n == Printed
           log == screen \o stdio
           tail == IF loop = "cursor" THEN Append(stdio, Sig!Clear) ELSE stdio
<1>1. /\ IntTypes /\ n \in Nat /\ n \in {turn - 1, turn}
      /\ screen \in Seq(Int) /\ stdio \in Seq(Int)
  BY DEF IntIInv, IntTypes, Printed
<1>2. /\ Sig!InTurn(log, n) /\ NoMessage(log)
      /\ Sig!Flushes => OnlyClears(stdio) /\ (loop # "cursor" => stdio = <<>>)
  BY DEF IntIInv, Logged
<1>3. log \in Seq(Int)
  BY <1>1, JoinedLog
<1>4. /\ ipc' = "ended" /\ UNCHANGED <<loop, tty, turn>>
      /\ outcome' \in {"interrupted", "undefined", "default"}
      /\ outcome' = "interrupted" => screen' = (screen \o <<Sig!Message>>) \o tail /\ stdio' = <<>>
      /\ outcome' # "interrupted" => UNCHANGED <<screen, stdio>>
  BY DEF Sig!Handler, Sig!End
<1>5. Sig!Flushes' <=> Sig!Flushes
  BY <1>4 DEF Sig!Flushes
<1>6. tail \in Seq(Int) /\ Sig!InTurn(screen \o tail, n) /\ NoMessage(screen \o tail)
  <2>1. CASE loop = "cursor"
    <3>1. tail = Append(stdio, Sig!Clear) /\ tail \in Seq(Int) /\ screen \o tail = Append(log, Sig!Clear)
      BY <1>1, <2>1, LongerLog, AppendJoined, ClearIs
    <3>2. NoMessage(Append(log, Sig!Clear))
      BY <1>2, <1>3, ClearIs, NoMessageMore
    <3> QED
      BY <1>1, <1>2, <1>3, <3>1, <3>2, ClearLogged
  <2>2. CASE loop # "cursor"
    BY <1>1, <1>2, <2>2
  <2> QED
    BY <2>1, <2>2
<1>7. Sig!Flushes => OnlyClears(tail) /\ (Len(tail) = 0 <=> loop # "cursor")
  <2>1. CASE loop = "cursor"
    <3>1. tail = Append(stdio, Sig!Clear)
      BY <2>1
    <3>2. /\ DOMAIN tail = 1..(Len(stdio) + 1) /\ Len(tail) = Len(stdio) + 1 /\ Len(stdio) \in Nat
          /\ DOMAIN stdio = 1..Len(stdio) /\ tail[Len(stdio) + 1] = Sig!Clear
          /\ \A i \in 1..Len(stdio) : tail[i] = stdio[i]
      BY <1>1, <3>1, LongerLog, ClearIs
    <3> HIDE DEF tail
    <3> QED
      BY <1>2, <2>1, <3>2 DEF OnlyClears
  <2>2. CASE loop # "cursor"
    BY <1>1, <1>2, <2>2 DEF OnlyClears
  <2> QED
    BY <2>1, <2>2
<1> HIDE DEF tail, n, log
<1>8. outcome' = "interrupted" =>
        /\ screen' \in Seq(Int) /\ Sig!InTurn(screen', n) /\ screen'[Len(screen) + 1] = Sig!Message
        /\ Len(screen) + 1 \in DOMAIN screen'
        /\ \A i \in DOMAIN screen' : screen'[i] = Sig!Message => i = Len(screen) + 1
        /\ Len(screen') = Len(screen) + 1 + Len(tail)
        /\ DOMAIN screen' = 1..(Len(screen) + 1 + Len(tail))
        /\ \A i \in 1..Len(tail) : screen'[Len(screen) + 1 + i] = tail[i]
  <2> SUFFICES ASSUME outcome' = "interrupted"
               PROVE  /\ screen' \in Seq(Int) /\ Sig!InTurn(screen', n) /\ screen'[Len(screen) + 1] = Sig!Message
                      /\ Len(screen) + 1 \in DOMAIN screen'
                      /\ \A i \in DOMAIN screen' : screen'[i] = Sig!Message => i = Len(screen) + 1
                      /\ Len(screen') = Len(screen) + 1 + Len(tail)
                      /\ DOMAIN screen' = 1..(Len(screen) + 1 + Len(tail))
                      /\ \A i \in 1..Len(tail) : screen'[Len(screen) + 1 + i] = tail[i]
    OBVIOUS
  <2>1. screen' = (screen \o <<Sig!Message>>) \o tail
    BY <1>4
  <2>2. LET u == (screen \o <<Sig!Message>>) \o tail
        IN  /\ Sig!InTurn(u, n) /\ u[Len(screen) + 1] = Sig!Message
            /\ Len(screen) + 1 \in DOMAIN u
            /\ \A i \in DOMAIN u : u[i] = Sig!Message => i = Len(screen) + 1
    BY <1>1, <1>6, MessageLogged, Zenon
  <2>3. LET u == (screen \o <<Sig!Message>>) \o tail
        IN  /\ u \in Seq(Int) /\ Len(u) = Len(screen) + 1 + Len(tail)
            /\ DOMAIN u = 1..(Len(screen) + 1 + Len(tail))
            /\ \A i \in 1..Len(screen) : u[i] = (screen \o tail)[i]
            /\ u[Len(screen) + 1] = Sig!Message
            /\ \A i \in 1..Len(tail) : /\ u[Len(screen) + 1 + i] = (screen \o tail)[Len(screen) + i]
                                      /\ u[Len(screen) + 1 + i] = tail[i]
    BY <1>1, <1>6, MessageBetween, Zenon
  <2> QED
    BY ONLY <2>1, <2>2, <2>3, Zenon
<1>9. IntTypes' /\ Logged' /\ Sig!OnlyNamed'
  <2>1. screen' \in Seq(Int) /\ stdio' \in Seq(Int)
    <3>1. <<>> \in Seq(Int)
      OBVIOUS
    <3>2. CASE outcome' = "interrupted"
      BY <1>4, <1>8, <3>1, <3>2, Zenon
    <3>3. CASE outcome' # "interrupted"
      BY <1>1, <1>4, <3>3, Zenon
    <3> QED
      BY <3>2, <3>3
  <2>2. IntTypes'
    BY <1>1, <1>4, <2>1 DEF IntTypes
  <2> QED
    BY <1>4, <2>2 DEF Logged, Sig!OnlyNamed
<1>10. Sig!NothingLost'
  BY <1>1, <1>4, <1>8 DEF Sig!NothingLost
<1>11. Sig!MessageLast'
  <2> SUFFICES ASSUME outcome' = "interrupted", Sig!Flushes
               PROVE  \E m \in DOMAIN screen' :
                        /\ screen'[m] = Sig!Message
                        /\ m < Len(screen') <=> loop' = "cursor"
                        /\ \A i \in DOMAIN screen' : i > m => screen'[i] = Sig!Clear
    BY <1>5 DEF Sig!MessageLast
  <2> DEFINE m == Len(screen) + 1
  <2>1. Len(screen) \in Nat /\ Len(tail) \in Nat /\ DOMAIN tail = 1..Len(tail)
    BY <1>1, <1>6
  <2>2. m < Len(screen') <=> loop' = "cursor"
    BY <1>4, <1>7, <1>8, <2>1
  <2>3. ASSUME NEW i \in DOMAIN screen', i > m PROVE screen'[i] = Sig!Clear
    <3>1. i - m \in 1..Len(tail) /\ m + (i - m) = i
      BY <1>8, <2>1, <2>3
    <3>2. screen'[m + (i - m)] = tail[i - m]
      BY <1>8, <3>1
    <3> HIDE DEF m
    <3> QED
      BY <1>7, <2>1, <3>1, <3>2 DEF OnlyClears
  <2> QED
    BY <1>8, <2>2, <2>3
<1> QED
  BY <1>9, <1>10, <1>11 DEF IntIInv, Sig!InterruptInv

LEMMA IntUnchanged ==
  ASSUME IntIInv, UNCHANGED <<loop, tty, ipc, turn, stdio, screen, outcome>>,
         killer' = killer \/ outcome = "running"
  PROVE  IntIInv'
<1>1. IntTypes' /\ Logged'
  BY DEF IntIInv, IntTypes, Logged, Printed, Sig!Flushes
<1>2. Sig!NothingLost'
  BY DEF IntIInv, Sig!InterruptInv, Sig!NothingLost
<1>3. Sig!MessageLast' /\ Sig!OnlyNamed'
  BY DEF IntIInv, Sig!InterruptInv, Sig!MessageLast, Sig!OnlyNamed, Sig!Flushes
<1> QED
  BY <1>1, <1>2, <1>3 DEF IntIInv, Sig!InterruptInv

LEMMA IntStepInv == ASSUME IntIInv, [Sig!IntNext]_(Sig!intvars) PROVE IntIInv'
<1>1. CASE UNCHANGED Sig!intvars
  BY <1>1, IntUnchanged DEF Sig!intvars
<1>2. ASSUME NEW argument \in Sig!Arguments, Sig!Kill(argument) PROVE IntIInv'
  <2>1. outcome = "running" /\ killer' = argument
    BY <1>2 DEF Sig!Kill, Sig!Running
  <2>2. CASE argument = Sig!Named
    <3>1. Sig!Handler
      BY <1>2, <2>2 DEF Sig!Kill
    <3> QED
      BY <2>1, <2>2, <3>1, HandlerInv
  <2>3. CASE argument # Sig!Named
    <3>1. UNCHANGED <<loop, tty, ipc, turn, stdio, screen, outcome>>
      BY <1>2, <2>3 DEF Sig!Kill
    <3> QED
      BY <2>1, <3>1, IntUnchanged
  <2> QED
    BY <2>2, <2>3
<1> QED
  BY <1>1, <1>2, LoopInv DEF Sig!IntNext

\* Wherever the signal comes, outside of printf no line is lost and none is written twice; on a
\* terminal nothing comes behind the handler's message but the clear-screen of cursor.c, which
\* always does; and only a kill.c that named the process sends the signal (signal.c,
\* signal-test.c, progress.c, cursor.c, kill.c).
THEOREM LoopsSound == Sig!IntSpec => []Sig!InterruptInv
<1>1. Sig!IntInit => IntIInv
  BY IntInitInv
<1>2. IntIInv /\ [Sig!IntNext]_(Sig!intvars) => IntIInv'
  BY IntStepInv
<1>3. IntIInv => Sig!InterruptInv
  BY DEF IntIInv
<1> QED
  BY <1>1, <1>2, <1>3, PTL DEF Sig!IntSpec

(***************************************************************************)
(* The descriptors of mx_socket.c.  Between the calls every open one is a  *)
(* socket's.  During a call there may be one more, which is new, blocks,   *)
(* and is not yet a socket's.                                              *)
(***************************************************************************)
SockTypes ==
  /\ sock \in [Sck!Sockets -> [fd : Fds \cup {None}, blocking : BOOLEAN]]
  /\ sfd \in Fds \cup {None} /\ target \in Sck!Sockets
  /\ nonblock \subseteq held
  /\ kpc \in {"idle", "address", "option", "attempt", "listen", "finish", "remove", "unixbind", "unixconnect"}
InCall ==
  /\ kpc \in {"idle", "address"} <=> sfd = None
  /\ kpc # "idle" => sock[target].fd = None /\ sock[target].blocking
  /\ sfd # None => sfd \notin nonblock /\ \A s \in Sck!Sockets : sock[s].fd # sfd
SockIInv == SockTypes /\ InCall /\ Sck!Owned /\ Sck!ModeAgrees

LEMMA SockInitInv == ASSUME Sck!SocketAssumption, Sck!SocketInit PROVE SockIInv
BY DEF Sck!SocketAssumption, Sck!SocketInit, SockIInv, SockTypes, InCall, Sck!Owned, Sck!ModeAgrees, Sck!Valid, Sck!Blank, Sck!Sockets

LEMMA SockStepInv ==
  ASSUME Sck!SocketAssumption, SockIInv, [Sck!SocketNext]_(Sck!socketvars)
  PROVE  SockIInv'
<1> USE DEF Sck!SocketAssumption, SockIInv, SockTypes, InCall, Sck!Owned, Sck!ModeAgrees, Sck!Valid, Sck!Blank, Sck!Sockets, Sck!Fresh,
            Sck!Closing, Sck!Opening, Sck!Same, Sck!Return, Sck!Fail, Sck!Go, Sck!Done
<1>1. ASSUME NEW s \in Sck!Sockets, Sck!Begin(s) PROVE SockIInv'
  BY <1>1 DEF Sck!Begin
<1>2. ASSUME NEW s \in Sck!Sockets, Sck!UnixBegin(s) PROVE SockIInv'
  BY <1>2 DEF Sck!UnixBegin
<1>3. ASSUME NEW s \in Sck!Sockets, Sck!Close(s) PROVE SockIInv'
  BY <1>3 DEF Sck!Close
<1>4. ASSUME NEW s \in Sck!Sockets, NEW state \in BOOLEAN, Sck!SetBlocking(s, state) PROVE SockIInv'
  BY <1>4 DEF Sck!SetBlocking
<1>5. CASE Sck!Address
  BY <1>5 DEF Sck!Address
<1>6. CASE Sck!NoAddress
  BY <1>6 DEF Sck!NoAddress
<1>7. CASE Sck!Option
  BY <1>7 DEF Sck!Option
<1>8. CASE Sck!Attempt
  BY <1>8 DEF Sck!Attempt
<1>9. CASE Sck!Listen
  BY <1>9 DEF Sck!Listen
<1>10. CASE Sck!Finish
  BY <1>10 DEF Sck!Finish
<1>11. CASE Sck!RemovePath
  BY <1>11 DEF Sck!RemovePath
<1>12. CASE Sck!UnixBind
  BY <1>12 DEF Sck!UnixBind
<1>13. CASE Sck!UnixConnect
  BY <1>13 DEF Sck!UnixConnect
<1>14. CASE Sck!Accept
  BY <1>14 DEF Sck!Accept, Sck!Mode
<1>15. CASE Sck!PathGone
  BY <1>15 DEF Sck!PathGone
<1>16. CASE UNCHANGED Sck!socketvars
  BY <1>16 DEF Sck!socketvars
<1> QED
  BY <1>1, <1>2, <1>3, <1>4, <1>5, <1>6, <1>7, <1>8, <1>9, <1>10, <1>11, <1>12, <1>13, <1>14, <1>15,
     <1>16 DEF Sck!SocketNext

\* mx_socket.c: whichever call fails, no descriptor is lost or closed twice, and each has the
\* mode that its MXSocket says.
THEOREM DescriptorsSound == ASSUME Sck!SocketAssumption PROVE Sck!SocketSpec => []Sck!SocketInv
<1>1. Sck!SocketInit => SockIInv
  BY SockInitInv
<1>2. SockIInv /\ [Sck!SocketNext]_(Sck!socketvars) => SockIInv'
  BY SockStepInv
<1>3. SockIInv => Sck!SocketInv
  BY DEF SockIInv, Sck!SocketInv
<1> QED
  BY <1>1, <1>2, <1>3, PTL DEF Sck!SocketSpec

(***************************************************************************)
(* The Unix server and its clients.                                        *)
(***************************************************************************)
LEMMA SrvCardinality == \A S : Srv!Cardinality(S) = Cardinality(S)
BY DEF Srv!Cardinality, Cardinality

Places(s, c) == {i \in DOMAIN s : s[i] = c}
Repeated(n, d) == [i \in 1..n |-> d]

Longer(s, n, d, t) ==
  /\ Len(s) \in Nat /\ Len(t) = Len(s) + n
  /\ DOMAIN s = 1..Len(s) /\ DOMAIN t = 1..(Len(s) + n)
  /\ \A i \in 1..(Len(s) + n) : t[i] = IF i <= Len(s) THEN s[i] ELSE d

LEMMA RepeatsLength ==
  ASSUME NEW S, NEW s \in Seq(S), NEW n \in Nat, NEW d \in S
  PROVE  s \o Repeated(n, d) \in Seq(S) /\ Len(s \o Repeated(n, d)) = Len(s) + n
<1>1. Repeated(n, d) \in Seq(S) /\ Len(Repeated(n, d)) = n
  BY DEF Repeated
<1> QED
  BY <1>1

LEMMA Repeats ==
  ASSUME NEW S, NEW s \in Seq(S), NEW n \in Nat, NEW d \in S, NEW t, t = s \o Repeated(n, d)
  PROVE  t \in Seq(S) /\ Longer(s, n, d, t)
<1>1. Repeated(n, d) \in Seq(S) /\ Len(Repeated(n, d)) = n /\ Len(s) \in Nat
  BY DEF Repeated
<1>2. t \in Seq(S) /\ Len(t) = Len(s) + n
  BY RepeatsLength
<1>3. DOMAIN s = 1..Len(s) /\ DOMAIN t = 1..(Len(s) + n)
  <2>1. \A q \in Seq(S) : DOMAIN q = 1..Len(q)
    OBVIOUS
  <2> QED
    BY <1>2, <2>1, Zenon
<1>4. ASSUME NEW i \in 1..(Len(s) + n) PROVE t[i] = IF i <= Len(s) THEN s[i] ELSE d
  <2>1. CASE i <= Len(s)
    BY <1>1, <2>1
  <2>2. CASE ~(i <= Len(s))
    <3>1. i - Len(s) \in 1..n
      BY <1>1, <2>2
    <3>2. t[i] = Repeated(n, d)[i - Len(s)]
      BY <1>1, <2>2
    <3>3. Repeated(n, d)[i - Len(s)] = d
      BY <3>1 DEF Repeated
    <3> QED
      BY <2>2, <3>2, <3>3
  <2> QED
    BY <2>1, <2>2
<1> QED
  BY <1>1, <1>2, <1>3, <1>4 DEF Longer

CountsMore(s, n, d, c, t) ==
  /\ Cardinality(Places(s, c)) \in Nat
  /\ Cardinality(Places(t, c)) = Cardinality(Places(s, c)) + (IF c = d THEN n ELSE 0)

\* The pieces of a client are more by those that are copied.
LEMMA PlacesMore ==
  ASSUME NEW s, NEW n \in Nat, NEW d, NEW c, NEW t, Longer(s, n, d, t)
  PROVE  CountsMore(s, n, d, c, t)
<1> DEFINE L == Len(s)
<1>1. /\ DOMAIN s = 1..L /\ DOMAIN t = 1..(L + n) /\ L \in Nat
      /\ \A i \in 1..(L + n) : t[i] = IF i <= L THEN s[i] ELSE d
  BY DEF Longer
<1> HIDE DEF L
<1>2. Places(t, c) = Places(s, c) \cup (IF c = d THEN (L + 1)..(L + n) ELSE {})
  BY <1>1 DEF Places
<1>3. IsFiniteSet(Places(s, c)) /\ Cardinality(Places(s, c)) \in Nat
  <2>1. IsFiniteSet(1..L)
    BY <1>1, FS_Interval
  <2>2. Places(s, c) \subseteq 1..L
    BY <1>1 DEF Places
  <2> QED
    BY <2>1, <2>2, FS_Subset, FS_CardinalityType
<1>4. CASE c = d
  <2>1. IsFiniteSet((L + 1)..(L + n)) /\ Cardinality((L + 1)..(L + n)) = n
    <3>1. L + 1 \in Int /\ L + n \in Int
      BY <1>1
    <3>2. /\ IsFiniteSet((L + 1)..(L + n))
          /\ Cardinality((L + 1)..(L + n)) = IF L + 1 > L + n THEN 0 ELSE (L + n) - (L + 1) + 1
      BY <3>1, FS_Interval, Zenon
    <3> QED
      BY <1>1, <3>2
  <2>2. Places(s, c) \cap ((L + 1)..(L + n)) = {}
    BY <1>1 DEF Places
  <2>3. Cardinality(Places(s, c) \cup ((L + 1)..(L + n))) =
          Cardinality(Places(s, c)) + Cardinality((L + 1)..(L + n)) - Cardinality(Places(s, c) \cap ((L + 1)..(L + n)))
    BY <1>3, <2>1, FS_Union
  <2>4. Cardinality({}) = 0
    BY FS_EmptySet
  <2>5. Cardinality(Places(t, c)) = Cardinality(Places(s, c)) + n
    <3>1. Places(t, c) = Places(s, c) \cup ((L + 1)..(L + n))
      BY <1>2, <1>4
    <3>2. Cardinality(Places(t, c)) = Cardinality(Places(s, c)) + n - 0
      BY <2>1, <2>2, <2>3, <2>4, <3>1
    <3> QED
      BY <1>3, <3>2
  <2> QED
    BY <1>3, <1>4, <2>5 DEF CountsMore
<1>5. CASE c # d
  <2>1. Places(t, c) = Places(s, c)
    BY <1>2, <1>5
  <2> QED
    BY <1>3, <1>5, <2>1 DEF CountsMore
<1> QED
  BY <1>4, <1>5 DEF CountsMore

LEMMA PlacesCounted == ASSUME NEW S, NEW s \in Seq(S), NEW c PROVE Cardinality(Places(s, c)) \in Nat
<1>1. IsFiniteSet(1..Len(s)) /\ Places(s, c) \subseteq 1..Len(s)
  BY FS_Interval DEF Places
<1> QED
  BY <1>1, FS_Subset, FS_CardinalityType


\* Whoever is served, waits, has not connected yet or is gone: each client is one of these, and
\* only the one that is served is copied.
Unheard(c) == \A i \in DOMAIN copied : copied[i] # c
Queued(c) == \E i \in DOMAIN backlog : backlog[i] = c
UdsTypes ==
  /\ client \in [UdsClients -> {"idle", "open", "sent", "refused", "killed"}]
  /\ written \in [UdsClients -> Nat] /\ unread \in [UdsClients -> Nat]
  /\ copied \in Seq(UdsClients) /\ backlog \in Seq(UdsClients)
  /\ current \in UdsClients \cup {None}
  /\ upc \in {"listen", "check", "accept", "serve", "exited"}
  /\ runs \in Nat \ {0}
  /\ upc = "serve" <=> current # None
OneQueue ==
  /\ \A i, j \in DOMAIN backlog : backlog[i] = backlog[j] => i = j
  /\ ~Queued(current)
  /\ \A c \in UdsClients : Queued(c) => Unheard(c) /\ client[c] # "idle"
  /\ current # None => client[current] # "idle"
CountedPieces ==
  \A c \in UdsClients :
    /\ Cardinality(Places(copied, c)) + unread[c] <= written[c]
    /\ c \notin complained => Cardinality(Places(copied, c)) + unread[c] = written[c]
NotBegun == \A c \in UdsClients : client[c] = "idle" => Unheard(c) /\ written[c] = 0
Progress ==
  \A c \in UdsClients :
    /\ client[c] = "sent" => written[c] = Pieces
    /\ client[c] = "open" => written[c] < Pieces
    /\ client[c] \in {"open", "sent"} /\ c # current /\ ~Queued(c) /\ c \notin dropped =>
         client[c] = "sent" /\ unread[c] = 0
LastIsCurrent ==
  current # None => Unheard(current) \/ (Len(copied) > 0 /\ copied[Len(copied)] = current)
FlagMeans ==
  /\ flag => signalled
  /\ ~first => ~path /\ upc \in {"listen", "exited"} /\ copied = <<>>
UdsIInv ==
  /\ UdsTypes /\ OneQueue /\ CountedPieces /\ NotBegun /\ Progress /\ LastIsCurrent /\ FlagMeans
  /\ Srv!OneAtATime /\ Srv!DroppedBySignal

LEMMA UdsInitInv == ASSUME Srv!UdsAssumption, Srv!UdsInit PROVE UdsIInv
<1> USE DEF Srv!UdsAssumption, Srv!UdsInit
<1>1. UdsTypes /\ FlagMeans
  BY DEF UdsTypes, FlagMeans
<1>2. OneQueue /\ NotBegun /\ Progress /\ LastIsCurrent /\ Srv!OneAtATime /\ Srv!DroppedBySignal
  BY DEF OneQueue, NotBegun, Progress, LastIsCurrent, Srv!OneAtATime, Srv!DroppedBySignal, Unheard, Queued
<1>3. CountedPieces
  <2>1. \A c : Places(copied, c) = {}
    BY DEF Places
  <2> QED
    BY <2>1, FS_EmptySet DEF CountedPieces
<1> QED
  BY <1>1, <1>2, <1>3 DEF UdsIInv

\* The steps that neither copy nor change whom the server has to do with.
LEMMA UdsQuiet ==
  ASSUME UdsIInv, UNCHANGED <<copied, client, written, unread, backlog, current, first>>,
         upc' \in {"listen", "check", "accept", "serve", "exited"},
         upc' = "serve" <=> upc = "serve", runs' \in Nat \ {0}, flag' => signalled',
         ~first => ~path' /\ upc' \in {"listen", "exited"},
         dropped' = dropped, complained' = complained,
         dropped \ complained # {} => signalled' \/ runs' > 1
  PROVE  UdsIInv'
<1> USE DEF UdsIInv
<1>1. UdsTypes' /\ FlagMeans'
  BY DEF UdsTypes, FlagMeans
<1>2. OneQueue' /\ NotBegun' /\ Progress' /\ LastIsCurrent'
  BY DEF OneQueue, NotBegun, Progress, LastIsCurrent, Unheard, Queued
<1>3. CountedPieces' /\ Srv!OneAtATime' /\ Srv!DroppedBySignal'
  BY DEF CountedPieces, Srv!OneAtATime, Srv!DroppedBySignal, Places
<1> QED
  BY <1>1, <1>2, <1>3

LEMMA UdsSignals == ASSUME Srv!UdsAssumption, UdsIInv, Srv!Listen \/ Srv!Restart PROVE UdsIInv'
<1>1. CASE Srv!Listen
  <2>1. /\ UNCHANGED <<copied, client, written, unread, backlog, current, first, runs, dropped, complained, flag, signalled>>
        /\ upc = "listen" /\ upc' \in {"check", "exited"}
        /\ upc' = "check" => path /\ path' = path
        /\ path' \in {FALSE, path}
    BY <1>1 DEF Srv!Listen, Srv!Server, Srv!Connections
  <2>2. ~first => ~path' /\ upc' \in {"listen", "exited"}
    BY <2>1 DEF UdsIInv, FlagMeans
  <2> QED
    BY <2>1, <2>2, UdsQuiet DEF UdsIInv, UdsTypes, FlagMeans, Srv!DroppedBySignal
<1>2. CASE Srv!Restart
  <2>1. /\ UNCHANGED <<copied, client, written, unread, backlog, current, first, dropped, complained, path>>
        /\ upc = "exited" /\ upc' = "listen" /\ runs' = runs + 1 /\ ~flag'
    BY <1>2 DEF Srv!Restart, Srv!Connections
  <2> QED
    BY <2>1, UdsQuiet DEF UdsIInv, UdsTypes, FlagMeans
<1> QED
  BY <1>1, <1>2

\* Those who waited as the server exits are given up.
LEMMA UdsChecks == ASSUME Srv!UdsAssumption, UdsIInv, Srv!CheckFlag PROVE UdsIInv'
<1>1. CASE ~flag
  <2>1. /\ UNCHANGED <<copied, client, written, unread, backlog, current, first, runs, dropped, complained, path, flag, signalled>>
        /\ upc = "check" /\ upc' = "accept"
    BY <1>1 DEF Srv!CheckFlag, Srv!Server, Srv!Connections
  <2> QED
    BY <2>1, UdsQuiet DEF UdsIInv, UdsTypes, FlagMeans, Srv!DroppedBySignal
<1>2. CASE flag
  <2>1. /\ UNCHANGED <<copied, client, written, unread, current, first, runs, path, flag, signalled, complained>>
        /\ upc = "check" /\ upc' = "exited" /\ backlog' = <<>> /\ dropped' = dropped \cup Srv!Waiting
    BY <1>2 DEF Srv!CheckFlag, Srv!Server
  <2> USE DEF UdsIInv
  <2>2. \A c \in UdsClients : ~Queued(c)' /\ (Queued(c) => c \in dropped')
    BY <2>1 DEF Queued, Srv!Waiting
  <2>3. UdsTypes' /\ FlagMeans'
    BY <2>1 DEF UdsTypes, FlagMeans
  <2>4. OneQueue'
    BY <2>1, <2>2 DEF OneQueue, UdsTypes, Queued
  <2>5. NotBegun' /\ LastIsCurrent'
    BY <2>1 DEF NotBegun, LastIsCurrent, Unheard
  <2>6. Progress'
    BY <2>1, <2>2 DEF Progress
  <2>7. CountedPieces' /\ Srv!OneAtATime'
    BY <2>1 DEF CountedPieces, Srv!OneAtATime, Places
  <2>8. Srv!DroppedBySignal'
    BY <1>2, <2>1 DEF Srv!DroppedBySignal, FlagMeans
  <2> QED
    BY <2>3, <2>4, <2>5, <2>6, <2>7, <2>8
<1> QED
  BY <1>1, <1>2

LEMMA HeadTail ==
  ASSUME NEW S, NEW s \in Seq(S), s # <<>>
  PROVE  /\ Head(s) = s[1] /\ 1 \in DOMAIN s /\ Head(s) \in S
         /\ Tail(s) \in Seq(S) /\ DOMAIN Tail(s) = 1..(Len(s) - 1)
         /\ \A i \in DOMAIN Tail(s) : i + 1 \in DOMAIN s /\ Tail(s)[i] = s[i + 1]
         /\ \A i \in DOMAIN s : i = 1 \/ (i - 1 \in DOMAIN Tail(s) /\ Tail(s)[i - 1] = s[i])
OBVIOUS

LEMMA UdsAccepts == ASSUME Srv!UdsAssumption, UdsIInv, Srv!AcceptClient PROVE UdsIInv'
<1>1. CASE Srv!Server("accept", "check") /\ Srv!Connections /\ UNCHANGED <<path, flag, signalled>>
  <2>1. /\ UNCHANGED <<copied, client, written, unread, backlog, current, first, runs, dropped, complained, path, flag, signalled>>
        /\ upc = "accept" /\ upc' = "check"
    BY <1>1 DEF Srv!Server, Srv!Connections
  <2> QED
    BY <2>1, UdsQuiet DEF UdsIInv, UdsTypes, FlagMeans, Srv!DroppedBySignal
<1>2. ASSUME backlog # <<>>, upc = "accept", upc' = "serve", current' = Head(backlog), backlog' = Tail(backlog),
             UNCHANGED <<copied, client, written, unread, first, runs, dropped, complained, path, flag, signalled>>
      PROVE  UdsIInv'
  <2> USE DEF UdsIInv
  <2>1. /\ current' = backlog[1] /\ 1 \in DOMAIN backlog /\ current' \in UdsClients
        /\ backlog' \in Seq(UdsClients)
        /\ \A i \in DOMAIN backlog' : i + 1 \in DOMAIN backlog /\ i \in Nat /\ i >= 1 /\ backlog'[i] = backlog[i + 1]
        /\ \A i \in DOMAIN backlog : i = 1 \/ (i - 1 \in DOMAIN backlog' /\ backlog'[i - 1] = backlog[i])
    BY <1>2, HeadTail DEF UdsTypes
  <2>2. \A c : Queued(c)' <=> (Queued(c) /\ c # current')
    <3>1. \A i \in DOMAIN backlog : i # 1 => backlog[i] # backlog[1]
      BY <2>1 DEF OneQueue
    <3>2. ASSUME NEW c, Queued(c)' PROVE Queued(c) /\ c # current'
      BY <2>1, <3>1, <3>2 DEF Queued
    <3>3. ASSUME NEW c, Queued(c), c # current' PROVE Queued(c)'
      BY <2>1, <3>3 DEF Queued
    <3> QED
      BY <3>2, <3>3
  <2>3. current = None /\ Queued(current')
    BY <1>2, <2>1 DEF UdsTypes, Queued
  <2>4. UdsTypes' /\ FlagMeans'
    BY <1>2, <2>1 DEF UdsTypes, FlagMeans, Srv!UdsAssumption
  <2>5. OneQueue'
    <3>1. \A i, j \in DOMAIN backlog' : backlog'[i] = backlog'[j] => i = j
      BY <2>1 DEF OneQueue
    <3> QED
      BY <1>2, <2>1, <2>2, <2>3, <3>1 DEF OneQueue, Unheard
  <2>6. NotBegun' /\ LastIsCurrent'
    BY <1>2, <2>1, <2>3 DEF NotBegun, LastIsCurrent, OneQueue, Unheard
  <2>7. Progress'
    BY <1>2, <2>1, <2>2, <2>3 DEF Progress, Srv!UdsAssumption
  <2>8. CountedPieces' /\ Srv!OneAtATime' /\ Srv!DroppedBySignal'
    BY <1>2 DEF CountedPieces, Srv!OneAtATime, Srv!DroppedBySignal, Places
  <2> QED
    BY <2>4, <2>5, <2>6, <2>7, <2>8
<1> QED
  BY <1>1, <1>2 DEF Srv!AcceptClient, Srv!Server

LEMMA UdsCopies == ASSUME Srv!UdsAssumption, UdsIInv, Srv!Copy PROVE UdsIInv'
<1> USE DEF UdsIInv
<1>1. PICK n \in 1..unread[current] : \E k \in 0..n :
        /\ unread' = [unread EXCEPT ![current] = @ - n]
        /\ copied' = copied \o Repeated(k, current)
        /\ complained' = IF k = n THEN complained ELSE complained \cup {current}
  BY DEF Srv!Copy, Repeated
<1>m. PICK m \in 0..n :
        /\ copied' = copied \o Repeated(m, current)
        /\ complained' = IF m = n THEN complained ELSE complained \cup {current}
  BY <1>1
<1>2. /\ current \in UdsClients /\ upc = "serve" /\ upc' = "serve"
      /\ UNCHANGED <<client, written, backlog, current, first, runs, dropped, path, flag, signalled>>
  BY DEF Srv!Copy, Srv!Server, UdsTypes
<1>3. n \in Nat /\ m \in Nat /\ m <= n /\ unread[current] \in Nat /\ n <= unread[current]
  BY <1>m, <1>1, <1>2 DEF UdsTypes
<1>4. copied' \in Seq(UdsClients) /\ Longer(copied, m, current, copied')
  BY <1>m, <1>1, <1>2, <1>3, Repeats DEF UdsTypes
<1>5. \A c \in UdsClients : CountsMore(copied, m, current, c, copied')
  <2> HIDE DEF UdsIInv
  <2> QED
    BY <1>3, <1>4, PlacesMore, Zenon
<1>6. UdsTypes' /\ FlagMeans'
  <2>1. unread' = [unread EXCEPT ![current] = unread[current] - n] /\ unread[current] - n \in Nat
    BY <1>1, <1>3
  <2>2. unread' \in [UdsClients -> Nat]
    BY <2>1 DEF UdsTypes
  <2> QED
    BY <1>2, <1>4, <2>2 DEF UdsTypes, FlagMeans
<1>7. \A c \in UdsClients : Unheard(c) /\ c # current => Unheard(c)'
  BY <1>4 DEF Unheard, Longer
<1>8. OneQueue' /\ NotBegun'
  <2>1. \A c \in UdsClients : Queued(c)' <=> Queued(c)
    BY <1>2 DEF Queued
  <2>2. ~Queued(current')
    BY <1>2 DEF OneQueue
  <2>3. ~Queued(current)' /\ client[current] # "idle"
    BY <1>2, <2>1, <2>2 DEF OneQueue, Srv!UdsAssumption
  <2>4. OneQueue'
    BY <1>2, <1>7, <2>1, <2>3 DEF OneQueue
  <2>5. NotBegun'
    BY <1>2, <1>7, <2>3 DEF NotBegun
  <2> QED
    BY <2>4, <2>5
<1>9. CountedPieces'
  <2> SUFFICES ASSUME NEW c \in UdsClients
               PROVE  /\ Cardinality(Places(copied', c)) + unread'[c] <= written'[c]
                      /\ c \notin complained' => Cardinality(Places(copied', c)) + unread'[c] = written'[c]
    BY DEF CountedPieces
  <2>1. /\ Cardinality(Places(copied, c)) + unread[c] <= written[c]
        /\ c \notin complained => Cardinality(Places(copied, c)) + unread[c] = written[c]
    BY DEF CountedPieces
  <2>2. unread'[c] = (IF c = current THEN unread[c] - n ELSE unread[c]) /\ unread[c] \in Nat
    BY <1>1, <1>2 DEF UdsTypes
  <2>3. written'[c] = written[c] /\ written[c] \in Nat
    BY <1>2 DEF UdsTypes
  <2>4. c \notin complained' => c \notin complained /\ (c = current => m = n)
    BY <1>m
  <2> HIDE DEF UdsIInv
  <2> QED
    BY <1>3, <1>5, <2>1, <2>2, <2>3, <2>4 DEF CountsMore
<1>10. Progress'
  BY <1>1, <1>2 DEF Progress, UdsTypes, Queued
<1>11. LastIsCurrent'
  <2>1. CASE m = 0
    BY <1>2, <1>3, <1>4, <2>1 DEF LastIsCurrent, Longer, Unheard
  <2>2. CASE m # 0
    BY <1>2, <1>3, <1>4, <2>2 DEF LastIsCurrent, Longer
  <2> QED
    BY <2>1, <2>2
<1>12. Srv!OneAtATime'
  <2> SUFFICES ASSUME NEW i \in DOMAIN copied', NEW j \in DOMAIN copied', NEW k \in DOMAIN copied',
                      i < j, j < k, copied'[i] = copied'[k]
               PROVE  copied'[j] = copied'[i]
    BY DEF Srv!OneAtATime
  <2>1. CASE k <= Len(copied)
    BY <1>3, <1>4, <2>1 DEF Longer, Srv!OneAtATime
  <2>2. CASE i > Len(copied)
    BY <1>3, <1>4, <2>2 DEF Longer
  <2>3. CASE i <= Len(copied) /\ k > Len(copied)
    <3>1. copied'[k] = current /\ copied[i] = current /\ i \in DOMAIN copied
      BY <1>3, <1>4, <2>3 DEF Longer
    <3>2. copied[Len(copied)] = current
      BY <1>2, <3>1 DEF LastIsCurrent, Unheard, Srv!UdsAssumption
    <3>3. CASE j <= Len(copied)
      <4>1. j \in DOMAIN copied /\ Len(copied) \in DOMAIN copied
        BY <1>3, <1>4, <2>3, <3>3 DEF Longer
      <4>2. j = Len(copied) \/ j < Len(copied)
        BY <1>4, <3>3 DEF Longer
      <4>3. copied[j] = current
        BY <3>1, <3>2, <4>1, <4>2 DEF Srv!OneAtATime
      <4> QED
        BY <1>3, <1>4, <3>1, <3>3, <4>3 DEF Longer
    <3>4. CASE j > Len(copied)
      BY <1>3, <1>4, <3>1, <3>4 DEF Longer
    <3> QED
      BY <1>4, <3>3, <3>4 DEF Longer
  <2> QED
    BY <1>4, <2>1, <2>2, <2>3 DEF Longer
<1>13. Srv!DroppedBySignal'
  BY <1>m, <1>2 DEF Srv!DroppedBySignal
<1> QED
  BY <1>6, <1>8, <1>9, <1>10, <1>11, <1>12, <1>13

\* The server is done with a client: it has read it to its end, or gives it up.
LEMMA UdsLeaves ==
  ASSUME Srv!UdsAssumption, UdsIInv, upc = "serve", upc' = "check", current' = None,
         UNCHANGED <<copied, client, written, unread, backlog, first, runs, path>>,
         flag' => signalled', dropped \subseteq dropped', complained \subseteq complained',
         (client[current] = "sent" /\ unread[current] = 0) \/ current \in dropped',
         dropped' \ complained' # {} => signalled' \/ runs > 1
  PROVE  UdsIInv'
<1> USE DEF UdsIInv
<1>1. current \in UdsClients /\ current # None
  BY DEF UdsTypes
<1>2. UdsTypes' /\ FlagMeans'
  BY DEF UdsTypes, FlagMeans
<1>3. \A c : Queued(c)' <=> Queued(c)
  BY DEF Queued
<1>4. OneQueue'
  <2>1. ~Queued(None)
    BY DEF Queued, UdsTypes, Srv!UdsAssumption
  <2> QED
    BY <1>3, <2>1 DEF OneQueue, Unheard
<1>5. NotBegun' /\ LastIsCurrent'
  BY DEF NotBegun, LastIsCurrent, Unheard
<1>6. Progress'
  BY <1>1, <1>3 DEF Progress
<1>7. CountedPieces' /\ Srv!OneAtATime' /\ Srv!DroppedBySignal'
  BY DEF CountedPieces, Srv!OneAtATime, Srv!DroppedBySignal, Places
<1> QED
  BY <1>2, <1>4, <1>5, <1>6, <1>7

LEMMA UdsEnds ==
  ASSUME Srv!UdsAssumption, UdsIInv, Srv!Served \/ Srv!ReadFails \/ Srv!Signal
  PROVE  UdsIInv'
<1>1. CASE Srv!Served
  <2>1. /\ UNCHANGED <<copied, client, written, unread, backlog, first, runs, path, flag, signalled, dropped, complained>>
        /\ upc = "serve" /\ upc' = "check" /\ current' = None
        /\ client[current] = "sent" /\ unread[current] = 0
    BY <1>1 DEF Srv!Served, Srv!Server
  <2> QED
    BY <2>1, UdsLeaves DEF UdsIInv, FlagMeans, Srv!DroppedBySignal
<1>2. CASE Srv!Signal
  <2>1. /\ UNCHANGED <<path, first, runs, client, written>> /\ flag' /\ signalled' /\ Srv!Listening
    BY <1>2 DEF Srv!Signal
  <2>2. CASE (Srv!Connections /\ UNCHANGED upc) \/ (upc = "accept" /\ upc' = "check" /\ Srv!Connections)
    <3>1. /\ UNCHANGED <<copied, unread, backlog, current, dropped, complained>>
          /\ upc' = upc \/ (upc = "accept" /\ upc' = "check")
      BY <2>2 DEF Srv!Connections
    <3>2. first
      BY <2>1 DEF UdsIInv, FlagMeans, Srv!Listening
    <3>3. runs' \in Nat \ {0} /\ upc' \in {"listen", "check", "accept", "serve", "exited"}
      BY <2>1, <3>1 DEF UdsIInv, UdsTypes
    <3> QED
      BY <2>1, <3>1, <3>2, <3>3, UdsQuiet
  <2>3. CASE /\ upc = "serve" /\ unread[current] = 0 /\ client[current] = "open"
             /\ Srv!GiveUp
    BY <2>1, <2>3, UdsLeaves DEF Srv!GiveUp
  <2> QED
    BY <1>2, <2>2, <2>3 DEF Srv!Signal
<1>3. CASE Srv!ReadFails
  <2>1. /\ UNCHANGED <<copied, client, written, unread, backlog, first, runs, path, flag, signalled>>
        /\ upc = "serve" /\ upc' = "check" /\ current' = None
        /\ dropped' = dropped \cup {current} /\ complained' = complained \cup {current}
    BY <1>3 DEF Srv!ReadFails, Srv!GiveUp, Srv!Server
  <2>2. dropped' \ complained' # {} => signalled' \/ runs > 1
    BY <2>1 DEF UdsIInv, Srv!DroppedBySignal
  <2> QED
    BY <2>1, <2>2, UdsLeaves DEF UdsIInv, FlagMeans
<1> QED
  BY <1>1, <1>2, <1>3

\* A signal that kills the server: whoever it had to do with is given up.
LEMMA UdsKilled == ASSUME Srv!UdsAssumption, UdsIInv, Srv!Killed PROVE UdsIInv'
<1>1. /\ UNCHANGED <<first, runs, client, written, flag, path, unread, copied, complained>>
      /\ upc' = "exited" /\ signalled' /\ backlog' = <<>> /\ current' = None
      /\ dropped' = dropped \cup Srv!Waiting \cup ({current} \ {None})
  BY DEF Srv!Killed, Srv!Server
<1> USE DEF UdsIInv
<1>2. \A c \in UdsClients : ~Queued(c)' /\ (Queued(c) \/ c = current => c \in dropped')
  BY <1>1 DEF Queued, Srv!Waiting, Srv!UdsAssumption
<1>3. UdsTypes' /\ FlagMeans'
  BY <1>1 DEF UdsTypes, FlagMeans, Srv!UdsAssumption
<1>4. OneQueue'
  BY <1>1 DEF OneQueue, Queued
<1>5. NotBegun' /\ LastIsCurrent'
  BY <1>1 DEF NotBegun, LastIsCurrent, Unheard
<1>6. Progress'
  BY <1>1, <1>2 DEF Progress
<1>7. CountedPieces' /\ Srv!OneAtATime' /\ Srv!DroppedBySignal'
  BY <1>1 DEF CountedPieces, Srv!OneAtATime, Srv!DroppedBySignal, Places
<1> QED
  BY <1>3, <1>4, <1>5, <1>6, <1>7

LEMMA Appended ==
  ASSUME NEW S, NEW s \in Seq(S), NEW x \in S
  PROVE  /\ Append(s, x) \in Seq(S) /\ DOMAIN s = 1..Len(s) /\ DOMAIN Append(s, x) = 1..(Len(s) + 1)
         /\ Len(s) \in Nat /\ Append(s, x)[Len(s) + 1] = x
         /\ \A i \in DOMAIN s : Append(s, x)[i] = s[i]
OBVIOUS

LEMMA UdsConnects == ASSUME Srv!UdsAssumption, UdsIInv, NEW c \in UdsClients, Srv!Connect(c) PROVE UdsIInv'
<1> USE DEF UdsIInv
<1>1. /\ UNCHANGED <<upc, flag, signalled, path, first, runs, current, copied, dropped, complained, written, unread>>
      /\ client[c] = "idle" /\ client' = [client EXCEPT ![c] = client'[c]]
      /\ client'[c] \in {"open", "refused"}
      /\ backlog' = IF client'[c] = "open" THEN Append(backlog, c) ELSE backlog
  BY DEF Srv!Connect, Srv!Client, UdsTypes
<1>2. Unheard(c) /\ ~Queued(c) /\ c # current /\ written[c] = 0
  BY <1>1 DEF NotBegun, OneQueue, Srv!UdsAssumption
<1>3. /\ backlog' \in Seq(UdsClients)
      /\ \A d : Queued(d)' <=> (Queued(d) \/ (d = c /\ client'[c] = "open"))
      /\ \A i, j \in DOMAIN backlog' : backlog'[i] = backlog'[j] => i = j
  <2>1. CASE client'[c] = "open"
    <3>1. backlog' = Append(backlog, c) /\ backlog \in Seq(UdsClients)
      BY <1>1, <2>1 DEF UdsTypes
    <3> DEFINE L == Len(backlog)
    <3>2. /\ backlog' \in Seq(UdsClients) /\ DOMAIN backlog = 1..L /\ DOMAIN backlog' = 1..(L + 1)
          /\ L \in Nat /\ backlog'[L + 1] = c /\ \A i \in DOMAIN backlog : backlog'[i] = backlog[i]
      BY <3>1, Appended
    <3> HIDE DEF L
    <3>3. \A i \in DOMAIN backlog' : i \in DOMAIN backlog \/ i = L + 1
      BY <3>2
    <3>4. \A d : Queued(d)' <=> (Queued(d) \/ d = c)
      BY <3>2, <3>3 DEF Queued
    <3>5. \A i \in DOMAIN backlog : backlog[i] # c
      BY <1>2 DEF Queued
    <3>6. \A i, j \in DOMAIN backlog : backlog[i] = backlog[j] => i = j
      BY DEF OneQueue
    <3>7. \A i, j \in DOMAIN backlog' : backlog'[i] = backlog'[j] => i = j
      BY <3>2, <3>3, <3>5, <3>6
    <3> QED
      BY <2>1, <3>2, <3>4, <3>7
  <2>2. CASE client'[c] # "open"
    BY <1>1, <2>2 DEF Queued, OneQueue, UdsTypes
  <2> QED
    BY <2>1, <2>2
<1>4. UdsTypes' /\ FlagMeans'
  BY <1>1, <1>3 DEF UdsTypes, FlagMeans
<1>5. OneQueue'
  <2>1. ~Queued(current)'
    BY <1>1, <1>2, <1>3 DEF OneQueue
  <2>2. ASSUME NEW d \in UdsClients, Queued(d)' PROVE Unheard(d)' /\ client'[d] # "idle"
    BY <1>1, <1>2, <1>3, <2>2 DEF OneQueue, Unheard, UdsTypes
  <2>3. current' # None => client'[current'] # "idle"
    BY <1>1, <1>2 DEF OneQueue, UdsTypes
  <2> QED
    BY <1>3, <2>1, <2>2, <2>3 DEF OneQueue
<1>6. NotBegun' /\ LastIsCurrent'
  BY <1>1, <1>2 DEF NotBegun, LastIsCurrent, Unheard, UdsTypes
<1>7. Progress'
  BY <1>1, <1>2, <1>3 DEF Progress, UdsTypes, Srv!UdsAssumption
<1>8. CountedPieces' /\ Srv!OneAtATime' /\ Srv!DroppedBySignal'
  BY <1>1 DEF CountedPieces, Srv!OneAtATime, Srv!DroppedBySignal, Places
<1> QED
  BY <1>4, <1>5, <1>6, <1>7, <1>8

LEMMA UdsWrites == ASSUME Srv!UdsAssumption, UdsIInv, NEW c \in UdsClients, Srv!Write(c) PROVE UdsIInv'
<1> USE DEF UdsIInv
<1>1. /\ UNCHANGED <<upc, flag, signalled, path, first, runs, current, copied, dropped, complained, backlog>>
      /\ client[c] = "open" /\ client' = [client EXCEPT ![c] = client'[c]]
      /\ client'[c] \in {"open", "sent", "killed"}
      /\ client'[c] = "killed" => written' = written /\ unread' = unread
      /\ client'[c] # "killed" => /\ c \notin dropped
                                  /\ client'[c] = "sent" <=> written[c] + 1 = Pieces
                                  /\ written' = [written EXCEPT ![c] = @ + 1]
                                  /\ unread' = [unread EXCEPT ![c] = @ + 1]
  BY DEF Srv!Write, Srv!Client, UdsTypes
<1>2. UdsTypes' /\ FlagMeans'
  <2>1. written' \in [UdsClients -> Nat] /\ unread' \in [UdsClients -> Nat]
    <3>1. CASE client'[c] = "killed"
      BY <1>1, <3>1 DEF UdsTypes
    <3>2. CASE client'[c] # "killed"
      <4>1. /\ written' = [written EXCEPT ![c] = written[c] + 1]
            /\ unread' = [unread EXCEPT ![c] = unread[c] + 1]
        BY <1>1, <3>2
      <4>2. written \in [UdsClients -> Nat] /\ unread \in [UdsClients -> Nat]
        BY DEF UdsTypes
      <4> HIDE DEF UdsIInv
      <4> QED
        BY <4>1, <4>2
    <3> QED
      BY <3>1, <3>2
  <2>2. client' \in [UdsClients -> {"idle", "open", "sent", "refused", "killed"}]
    BY <1>1 DEF UdsTypes
  <2> QED
    BY <1>1, <2>1, <2>2 DEF UdsTypes, FlagMeans
<1>3. \A d : Queued(d)' <=> Queued(d)
  BY <1>1 DEF Queued
<1>4. OneQueue'
  <2>1. \A d \in UdsClients : client'[d] = "idle" <=> client[d] = "idle"
    BY <1>1 DEF UdsTypes
  <2> QED
    BY <1>1, <1>3, <2>1 DEF OneQueue, Unheard, UdsTypes
<1>5. NotBegun' /\ LastIsCurrent'
  BY <1>1 DEF NotBegun, LastIsCurrent, Unheard, UdsTypes
<1>6. Progress'
  <2> SUFFICES ASSUME NEW d \in UdsClients
               PROVE  /\ client'[d] = "sent" => written'[d] = Pieces
                      /\ client'[d] = "open" => written'[d] < Pieces
                      /\ client'[d] \in {"open", "sent"} /\ d # current' /\ ~Queued(d)' /\ d \notin dropped' =>
                           client'[d] = "sent" /\ unread'[d] = 0
    BY DEF Progress
  <2>1. CASE d # c
    BY <1>1, <1>3, <2>1 DEF Progress, UdsTypes
  <2>2. CASE d = c
    BY <1>1, <1>3, <2>2 DEF Progress, UdsTypes, Srv!UdsAssumption
  <2> QED
    BY <2>1, <2>2
<1>7. CountedPieces'
  <2> SUFFICES ASSUME NEW d \in UdsClients
               PROVE  /\ Cardinality(Places(copied', d)) + unread'[d] <= written'[d]
                      /\ d \notin complained' => Cardinality(Places(copied', d)) + unread'[d] = written'[d]
    BY DEF CountedPieces
  <2>1. /\ Cardinality(Places(copied, d)) + unread[d] <= written[d]
        /\ d \notin complained => Cardinality(Places(copied, d)) + unread[d] = written[d]
        /\ unread[d] \in Nat /\ written[d] \in Nat
    BY DEF CountedPieces, UdsTypes
  <2>2. \/ unread'[d] = unread[d] /\ written'[d] = written[d]
        \/ unread'[d] = unread[d] + 1 /\ written'[d] = written[d] + 1
    BY <1>1 DEF UdsTypes
  <2>3. copied' = copied /\ complained' = complained /\ Cardinality(Places(copied, d)) \in Nat
    BY <1>1, PlacesCounted DEF UdsTypes
  <2> HIDE DEF UdsIInv
  <2> QED
    BY <2>1, <2>2, <2>3
<1>8. Srv!OneAtATime' /\ Srv!DroppedBySignal'
  BY <1>1 DEF Srv!OneAtATime, Srv!DroppedBySignal
<1> QED
  BY <1>2, <1>4, <1>5, <1>6, <1>7, <1>8

LEMMA UdsStepInv == ASSUME Srv!UdsAssumption, UdsIInv, Srv!UdsNext \/ UNCHANGED unixserver PROVE UdsIInv'
<1>1. CASE Srv!UdsNext
  BY <1>1, UdsSignals, UdsChecks, UdsAccepts, UdsCopies, UdsEnds, UdsKilled, UdsConnects, UdsWrites
    DEF Srv!UdsNext
<1>2. CASE UNCHANGED unixserver
  <2>1. UNCHANGED <<upc, flag, signalled, path, first, runs, backlog, current, client, written, unread, copied, dropped,
                    complained>>
    BY <1>2 DEF unixserver
  <2> QED
    BY <2>1, UdsQuiet DEF UdsIInv, UdsTypes, FlagMeans, Srv!DroppedBySignal
<1> QED
  BY <1>1, <1>2

\* What is promised of the Unix server follows.
LEMMA UdsGood == ASSUME Srv!UdsAssumption, UdsIInv PROVE Srv!UnixServerInv
<1> USE DEF UdsIInv
<1>1. \A c : Srv!CopiedOf(c) = Cardinality(Places(copied, c))
  BY SrvCardinality DEF Srv!CopiedOf, Places
<1>2. Srv!Pieced
  BY <1>1 DEF Srv!Pieced, CountedPieces
<1>3. Srv!SentIsCopied
  <2> SUFFICES ASSUME NEW c \in UdsClients, client[c] = "sent", c # current, c \notin Srv!Waiting, c \notin dropped, c \notin complained
               PROVE  Srv!CopiedOf(c) = Pieces
    BY DEF Srv!SentIsCopied
  <2>1. ~Queued(c)
    BY DEF Queued, Srv!Waiting
  <2>2. unread[c] = 0 /\ written[c] = Pieces
    BY <2>1 DEF Progress
  <2>3. Srv!CopiedOf(c) + unread[c] = written[c]
    BY <1>2 DEF Srv!Pieced
  <2>4. Srv!CopiedOf(c) \in Nat
    BY <1>1, PlacesCounted DEF UdsTypes
  <2> HIDE DEF UdsIInv
  <2> QED
    BY <2>2, <2>3, <2>4
<1>4. Srv!NeverStarts
  BY DEF Srv!NeverStarts, FlagMeans, Srv!Listening
<1> QED
  BY <1>2, <1>3, <1>4 DEF Srv!UnixServerInv

\* The Unix server: each text that it was sent, does not drop and no failed call takes, which it
\* tells, is copied once, whole, with no other in between, through any number of signals,
\* restarts and killed clients.
THEOREM UnixServerSound == ASSUME Srv!UdsAssumption PROVE Srv!UdsSpec => []Srv!UnixServerInv
<1>1. Srv!UdsInit => UdsIInv
  BY UdsInitInv
<1>2. UdsIInv /\ [Srv!UdsNext]_(Srv!udsvars) => UdsIInv'
  BY UdsStepInv DEF Srv!udsvars, unixserver
<1>3. UdsIInv => Srv!UnixServerInv
  BY UdsGood
<1> QED
  BY <1>1, <1>2, <1>3, PTL DEF Srv!UdsSpec

(***************************************************************************)
(* The server with a thread for each connection.                           *)
(***************************************************************************)
ThrTypes ==
  /\ tpc \in {"listen", "allocate", "accept", "spawn", "returned"} /\ listener \in BOOLEAN
  /\ cells \subseteq SockCells /\ IsFiniteSet(cells)
  /\ carries \in [SockCells -> Peers \cup {NoCell}]
  /\ thread \in [Peers -> {"none", "waiting", "accepted", "reading", "done", "reset"}]
  /\ unheard \in [Peers -> Nat] /\ sentTo \in [Peers -> Nat] /\ heard \in [Peers -> Seq(Nat)]
  /\ \A p \in Peers : unheard[p] <= sentTo[p]
\* What the listener works on is its own cell; it has none between two connections.
ListenersCell ==
  tpc # "returned" =>
    /\ IF tpc \in {"accept", "spawn"} THEN cell \in cells ELSE cell = NoCell
    /\ tpc = "accept" => carries[cell] = NoCell
    /\ tpc = "spawn" => carries[cell] \in Peers /\ thread[carries[cell]] = "accepted"
ThreadsCells ==
  tpc # "returned" =>
    /\ \A c \in cells : c # cell => carries[c] \in Peers /\ thread[carries[c]] = "reading"
    /\ \A p \in Peers : thread[p] = "reading" => \E c \in cells : c # cell /\ carries[c] = p
OwnCells == \A c, d \in cells : c # d /\ carries[c] # NoCell => carries[c] # carries[d]
CellCount ==
  tpc # "returned" =>
    /\ IsFiniteSet(Srv!Reading)
    /\ Cardinality(cells) = Cardinality(Srv!Reading) + (IF cell = NoCell THEN 0 ELSE 1)
\* The numbers printed of the first g pieces: no zero byte, and what is missing lies behind one.
Missing(s, k) == \A i \in DOMAIN s : s[i] # k
PrintedOf(s, g) ==
  /\ \A i, j \in DOMAIN s : i < j => s[i] < s[j]
  /\ \A i \in DOMAIN s : s[i] \in 1..g /\ s[i] \notin Nuls
  /\ \A k \in 1..g : k \notin Nuls /\ Missing(s, k) => k > 1 /\ Missing(s, k - 1)
HeardLines == \A p \in Peers : PrintedOf(heard[p], Srv!Got(p))
NoneReads == tpc = "returned" => ~listener /\ \A p \in Peers : thread[p] # "reading"
ThrIInv == ThrTypes /\ ListenersCell /\ ThreadsCells /\ OwnCells /\ CellCount /\ HeardLines /\ NoneReads

LEMMA ThrInitInv == ASSUME Srv!ThrAssumption, Srv!ThrInit PROVE ThrIInv
<1> USE DEF Srv!ThrAssumption, Srv!ThrInit
<1>1. Srv!Reading = {}
  BY DEF Srv!Reading
<1>2. IsFiniteSet({}) /\ Cardinality({}) = 0
  BY FS_EmptySet
<1>3. ThrTypes
  <2>1. heard \in [Peers -> Seq(Nat)] /\ \A p \in Peers : unheard[p] <= sentTo[p]
    OBVIOUS
  <2>3. listener \in BOOLEAN
    BY Zenon
  <2>2. carries \in [SockCells -> Peers \cup {NoCell}]
    OBVIOUS
  <2> QED
    BY <1>2, <2>1, <2>2, <2>3 DEF ThrTypes
<1>4. CellCount /\ HeardLines
  <2>1. \A p \in Peers : heard[p] = <<>> /\ Srv!Got(p) = 0
    BY DEF Srv!Got
  <2> QED
    BY <1>1, <1>2, <2>1 DEF CellCount, HeardLines, PrintedOf
<1>5. ListenersCell /\ ThreadsCells /\ OwnCells /\ NoneReads
  BY DEF ListenersCell, ThreadsCells, OwnCells, NoneReads
<1> QED
  BY <1>3, <1>4, <1>5 DEF ThrIInv

\* The process ends in each of three steps.
LEMMA ThrReturns ==
  ASSUME Srv!ThrAssumption, ThrIInv, Srv!Return, UNCHANGED <<carries, unheard, sentTo, heard>>, cells' \subseteq cells
  PROVE  ThrIInv'
<1> USE DEF ThrIInv
<1>1. /\ tpc' = "returned" /\ ~listener' /\ \A p \in Peers : thread'[p] # "reading"
      /\ thread' \in [Peers -> {"none", "waiting", "accepted", "reading", "done", "reset"}]
  BY DEF Srv!Return, ThrTypes
<1>2. ThrTypes'
  <2>1. IsFiniteSet(cells')
    BY FS_Subset DEF ThrTypes
  <2> QED
    BY <1>1, <2>1 DEF ThrTypes, Srv!Return
<1>3. ListenersCell' /\ ThreadsCells' /\ CellCount' /\ NoneReads'
  BY <1>1 DEF ListenersCell, ThreadsCells, CellCount, NoneReads
<1>4. OwnCells' /\ HeardLines'
  BY DEF OwnCells, HeardLines, Srv!Got
<1> QED
  BY <1>2, <1>3, <1>4

LEMMA CellMore ==
  ASSUME NEW S, NEW x, IsFiniteSet(S), x \notin S
  PROVE  IsFiniteSet(S \cup {x}) /\ Cardinality(S \cup {x}) = Cardinality(S) + 1 /\ Cardinality(S) \in Nat
BY FS_AddElement, FS_CardinalityType

LEMMA CellLess ==
  ASSUME NEW S, NEW x, IsFiniteSet(S), x \in S
  PROVE  IsFiniteSet(S \ {x}) /\ Cardinality(S \ {x}) = Cardinality(S) - 1 /\ Cardinality(S) \in Nat
BY FS_RemoveElement, FS_CardinalityType

LEMMA ThrAllocates == ASSUME Srv!ThrAssumption, ThrIInv, Srv!Listens \/ Srv!Allocate PROVE ThrIInv'
<1> USE DEF ThrIInv
<1>1. CASE UNCHANGED <<carries, unheard, sentTo, heard, cells>> /\ Srv!Return
  BY <1>1, ThrReturns
<1>2. CASE /\ tpc = "listen" /\ tpc' = "allocate" /\ listener' = TRUE
           /\ UNCHANGED <<thread, cell, cells, carries, unheard, sentTo, heard>>
  <2>1. Srv!Reading' = Srv!Reading
    BY <1>2 DEF Srv!Reading
  <2>2. ThrTypes' /\ OwnCells' /\ HeardLines' /\ NoneReads'
    BY <1>2 DEF ThrTypes, OwnCells, HeardLines, NoneReads, Srv!Got
  <2>3. ListenersCell' /\ ThreadsCells'
    BY <1>2 DEF ListenersCell, ThreadsCells
  <2>4. CellCount'
    BY <1>2, <2>1 DEF CellCount
  <2> QED
    BY <2>2, <2>3, <2>4
<1>3. ASSUME NEW c \in SockCells, c \notin cells, tpc = "allocate", tpc' = "accept",
             cell' = c, cells' = cells \cup {c}, carries' = [carries EXCEPT ![c] = NoCell],
             UNCHANGED <<listener, thread, unheard, sentTo, heard>>
      PROVE  ThrIInv'
  <2>1. Srv!Reading' = Srv!Reading
    BY <1>3 DEF Srv!Reading
  <2>2. IsFiniteSet(cells') /\ Cardinality(cells') = Cardinality(cells) + 1
    BY <1>3, CellMore DEF ThrTypes
  <2>3. cell = NoCell /\ NoCell \notin cells /\ c # NoCell
    BY <1>3 DEF ListenersCell, ThrTypes, Srv!ThrAssumption
  <2>4. /\ carries' \in [SockCells -> Peers \cup {NoCell}] /\ carries'[c] = NoCell
        /\ \A d \in SockCells : d # c => carries'[d] = carries[d]
    BY <1>3 DEF ThrTypes
  <2>5. ThrTypes' /\ HeardLines' /\ NoneReads'
    BY <1>3, <2>2, <2>4 DEF ThrTypes, HeardLines, NoneReads, Srv!Got
  <2>6. ListenersCell'
    BY <1>3, <2>4 DEF ListenersCell
  <2>7. ThreadsCells'
    <3>1. \A d \in cells : d # c /\ d # cell /\ d \in SockCells
      BY <1>3, <2>3 DEF ThrTypes
    <3>2. \A d \in cells' : d # cell' => carries'[d] \in Peers /\ thread'[carries'[d]] = "reading"
      BY <1>3, <2>4, <3>1 DEF ThreadsCells
    <3>3. \A p \in Peers : thread'[p] = "reading" => \E d \in cells' : d # cell' /\ carries'[d] = p
      BY <1>3, <2>4, <3>1 DEF ThreadsCells
    <3> QED
      BY <3>2, <3>3 DEF ThreadsCells
  <2>8. OwnCells'
    BY <1>3, <2>4 DEF OwnCells, ThrTypes
  <2>9. CellCount'
    <3>1. Cardinality(Srv!Reading) \in Nat /\ Cardinality(cells) = Cardinality(Srv!Reading) /\ IsFiniteSet(Srv!Reading)
      BY <1>3, <2>3, FS_CardinalityType DEF CellCount
    <3> QED
      BY <1>3, <2>1, <2>2, <2>3, <3>1 DEF CellCount
  <2> QED
    BY <2>5, <2>6, <2>7, <2>8, <2>9
<1> QED
  BY <1>1, <1>2, <1>3 DEF Srv!Listens, Srv!Allocate, Srv!Traffic

LEMMA ThrAccepts == ASSUME Srv!ThrAssumption, ThrIInv, Srv!Accepts PROVE ThrIInv'
<1> USE DEF ThrIInv
<1>1. /\ tpc = "accept" /\ cell \in cells /\ cell \in SockCells /\ cell # NoCell /\ carries[cell] = NoCell
      /\ UNCHANGED <<listener, unheard, sentTo, heard>>
  BY DEF Srv!Accepts, Srv!Traffic, ListenersCell, ThrTypes, Srv!ThrAssumption
<1>2. ASSUME NEW p \in Peers, thread[p] = "waiting", thread' = [thread EXCEPT ![p] = "accepted"],
             carries' = [carries EXCEPT ![cell] = p], tpc' = "spawn", UNCHANGED <<cell, cells>>
      PROVE  ThrIInv'
  <2>1. /\ \A q \in Peers : thread'[q] = IF q = p THEN "accepted" ELSE thread[q]
        /\ \A d \in SockCells : carries'[d] = IF d = cell THEN p ELSE carries[d]
        /\ thread' \in [Peers -> {"none", "waiting", "accepted", "reading", "done", "reset"}]
        /\ carries' \in [SockCells -> Peers \cup {NoCell}]
    BY <1>1, <1>2 DEF ThrTypes
  <2>2. Srv!Reading' = Srv!Reading
    BY <1>2, <2>1 DEF Srv!Reading
  <2>3. ThrTypes' /\ HeardLines' /\ NoneReads'
    BY <1>1, <1>2, <2>1 DEF ThrTypes, HeardLines, NoneReads, Srv!Got
  <2>4. ListenersCell'
    BY <1>1, <1>2, <2>1 DEF ListenersCell
  <2>5. ThreadsCells'
    BY <1>1, <1>2, <2>1 DEF ThreadsCells, ThrTypes
  <2>6. OwnCells'
    <3>1. \A d \in cells : d # cell => carries[d] # p /\ d \in SockCells
      BY <1>1, <1>2 DEF ThreadsCells, ThrTypes
    <3> QED
      BY <1>1, <1>2, <2>1, <3>1 DEF OwnCells
  <2>7. CellCount'
    BY <1>1, <1>2, <2>2 DEF CellCount
  <2> QED
    BY <2>3, <2>4, <2>5, <2>6, <2>7
<1>3. ASSUME tpc' = "allocate", cells' = cells \ {cell}, cell' = NoCell, UNCHANGED <<carries, thread>>
      PROVE  ThrIInv'
  <2>1. IsFiniteSet(cells') /\ Cardinality(cells') = Cardinality(cells) - 1 /\ NoCell \notin cells
    BY <1>1, <1>3, CellLess DEF ThrTypes, Srv!ThrAssumption
  <2>2. Srv!Reading' = Srv!Reading
    BY <1>3 DEF Srv!Reading
  <2>3. ThrTypes' /\ HeardLines' /\ NoneReads' /\ ListenersCell' /\ OwnCells'
    BY <1>1, <1>3, <2>1 DEF ThrTypes, HeardLines, NoneReads, ListenersCell, OwnCells, Srv!Got
  <2>4. ThreadsCells'
    BY <1>1, <1>3, <2>1 DEF ThreadsCells
  <2>5. CellCount'
    <3>1. Cardinality(Srv!Reading) \in Nat /\ Cardinality(cells) = Cardinality(Srv!Reading) + 1 /\ IsFiniteSet(Srv!Reading)
      BY <1>1, FS_CardinalityType DEF CellCount
    <3> QED
      BY <1>1, <1>3, <2>1, <2>2, <3>1 DEF CellCount
  <2> QED
    BY <2>3, <2>4, <2>5
<1> QED
  BY <1>2, <1>3 DEF Srv!Accepts

LEMMA ThrSpawns == ASSUME Srv!ThrAssumption, ThrIInv, Srv!Spawn PROVE ThrIInv'
<1> USE DEF ThrIInv
<1>1. /\ tpc = "spawn" /\ UNCHANGED <<carries, unheard, sentTo, heard>>
      /\ cell \in cells /\ cell # NoCell /\ carries[cell] \in Peers /\ thread[carries[cell]] = "accepted"
  BY DEF Srv!Spawn, Srv!Traffic, ListenersCell, ThrTypes, Srv!ThrAssumption
<1>2. CASE Srv!Return /\ cells' = cells \ {cell}
  BY <1>1, <1>2, ThrReturns
<1>3. ASSUME tpc' = "allocate", thread' = [thread EXCEPT ![carries[cell]] = "reading"], cell' = NoCell,
             UNCHANGED <<listener, cells>>
      PROVE  ThrIInv'
  <2> DEFINE p == carries[cell]
  <2>1. /\ \A q \in Peers : thread'[q] = IF q = p THEN "reading" ELSE thread[q]
        /\ thread' \in [Peers -> {"none", "waiting", "accepted", "reading", "done", "reset"}]
        /\ NoCell \notin cells
    BY <1>1, <1>3 DEF ThrTypes, Srv!ThrAssumption
  <2>2. Srv!Reading' = Srv!Reading \cup {p} /\ p \notin Srv!Reading
    BY <1>1, <2>1 DEF Srv!Reading
  <2>3. ThrTypes' /\ HeardLines' /\ NoneReads' /\ ListenersCell'
    BY <1>1, <1>3, <2>1 DEF ThrTypes, HeardLines, NoneReads, ListenersCell, Srv!Got
  <2>4. ThreadsCells'
    <3>1. \A c \in cells : carries[c] \in Peers /\ (c # cell => thread[carries[c]] = "reading")
      BY <1>1 DEF ThreadsCells
    <3>2. \A q \in Peers : thread[q] = "reading" => \E c \in cells : carries[c] = q
      BY <1>1 DEF ThreadsCells
    <3>3. \A c \in cells : carries'[c] \in Peers /\ thread'[carries'[c]] = "reading"
      BY <1>1, <2>1, <3>1
    <3>4. \A q \in Peers : thread'[q] = "reading" => \E c \in cells : carries'[c] = q
      BY <1>1, <2>1, <3>2
    <3> QED
      BY <1>3, <2>1, <3>3, <3>4 DEF ThreadsCells
  <2>5. OwnCells'
    BY <1>1, <1>3 DEF OwnCells
  <2>6. CellCount'
    <3>1. Cardinality(cells) = Cardinality(Srv!Reading) + 1 /\ IsFiniteSet(Srv!Reading)
      BY <1>1 DEF CellCount
    <3> HIDE DEF ThrIInv
    <3>2. IsFiniteSet(Srv!Reading') /\ Cardinality(Srv!Reading') = Cardinality(Srv!Reading) + 1
      BY <2>2, <3>1, CellMore
    <3> HIDE DEF p
    <3> QED
      BY <1>3, <3>1, <3>2, FS_CardinalityType DEF CellCount
  <2> QED
    BY <2>3, <2>4, <2>5, <2>6
<1> QED
  BY <1>1, <1>2, <1>3 DEF Srv!Spawn

LEMMA ThrHangsUp == ASSUME Srv!ThrAssumption, ThrIInv, NEW p \in Peers, Srv!HangUp(p) PROVE ThrIInv'
<1> USE DEF ThrIInv
<1>1. /\ UNCHANGED <<tpc, listener, cell, unheard, sentTo, heard>>
      /\ thread[p] = "reading" /\ thread' = [thread EXCEPT ![p] = "done"] /\ tpc # "returned"
  BY DEF Srv!HangUp, Srv!Traffic, NoneReads
<1>2. PICK c \in cells : carries[c] = p /\ cells' = cells \ {c} /\ carries' = [carries EXCEPT ![c] = NoCell]
  BY DEF Srv!HangUp
<1>3. c # cell /\ c \in SockCells
  BY <1>1, <1>2 DEF ListenersCell, ThrTypes, Srv!ThrAssumption
<1>4. /\ \A q \in Peers : thread'[q] = IF q = p THEN "done" ELSE thread[q]
      /\ \A d \in SockCells : carries'[d] = IF d = c THEN NoCell ELSE carries[d]
      /\ thread' \in [Peers -> {"none", "waiting", "accepted", "reading", "done", "reset"}]
      /\ carries' \in [SockCells -> Peers \cup {NoCell}]
  BY <1>1, <1>2, <1>3 DEF ThrTypes
<1>5. Srv!Reading' = Srv!Reading \ {p} /\ p \in Srv!Reading
  BY <1>1, <1>4 DEF Srv!Reading
<1>6. IsFiniteSet(cells') /\ Cardinality(cells') = Cardinality(cells) - 1 /\ Cardinality(cells) \in Nat
  BY <1>2, CellLess DEF ThrTypes
<1>7. ThrTypes' /\ HeardLines' /\ NoneReads'
  BY <1>1, <1>2, <1>4, <1>6 DEF ThrTypes, HeardLines, NoneReads, Srv!Got
<1>8. \A d \in cells : d # c => carries[d] # p /\ d \in SockCells
  BY <1>2 DEF OwnCells, ThrTypes, Srv!ThrAssumption
<1>9. ListenersCell'
  <2>1. cell' = cell /\ tpc' = tpc /\ (cell \in cells => cell \in cells' /\ carries'[cell] = carries[cell])
    BY <1>1, <1>2, <1>3, <1>4, <1>8
  <2>2. cell \in cells => carries[cell] # p
    BY <1>3, <1>8
  <2> QED
    BY <1>1, <1>4, <2>1, <2>2 DEF ListenersCell
<1>10. ThreadsCells'
  <2>1. \A d \in cells' : d # cell' => carries'[d] \in Peers /\ thread'[carries'[d]] = "reading"
    BY <1>1, <1>2, <1>4, <1>8 DEF ThreadsCells
  <2>2. \A q \in Peers : thread'[q] = "reading" => \E d \in cells' : d # cell' /\ carries'[d] = q
    <3> SUFFICES ASSUME NEW q \in Peers, thread'[q] = "reading"
                 PROVE  \E d \in cells' : d # cell' /\ carries'[d] = q
      OBVIOUS
    <3>1. q # p /\ thread[q] = "reading"
      BY <1>4
    <3>2. PICK d \in cells : d # cell /\ carries[d] = q
      BY <1>1, <3>1 DEF ThreadsCells
    <3> QED
      BY <1>1, <1>2, <1>4, <1>8, <3>1, <3>2
  <2> QED
    BY <2>1, <2>2 DEF ThreadsCells
<1>11. OwnCells'
  BY <1>2, <1>4, <1>8 DEF OwnCells
<1>12. CellCount'
  <2>1. IsFiniteSet(Srv!Reading) /\ Cardinality(cells) = Cardinality(Srv!Reading) + (IF cell = NoCell THEN 0 ELSE 1)
    BY <1>1 DEF CellCount
  <2>2. /\ IsFiniteSet(Srv!Reading') /\ Cardinality(Srv!Reading') = Cardinality(Srv!Reading) - 1
        /\ Cardinality(Srv!Reading) \in Nat
    BY <1>5, <2>1, CellLess
  <2> HIDE DEF ThrIInv
  <2> QED
    BY <1>1, <1>6, <2>1, <2>2 DEF CellCount
<1> QED
  BY <1>7, <1>9, <1>10, <1>11, <1>12

Prints(s, m, g, t) ==
  /\ t \in Seq(Nat) /\ Len(s) \in Nat /\ DOMAIN s = 1..Len(s) /\ DOMAIN t = 1..(Len(s) + m)
  /\ \A i \in 1..Len(s) : t[i] = s[i]
  /\ \A i \in 1..m : t[Len(s) + i] = g + i

LEMMA JoinedNumbers ==
  ASSUME NEW s \in Seq(Nat), NEW t \in Seq(Nat)
  PROVE  /\ s \o t \in Seq(Nat) /\ Len(s \o t) = Len(s) + Len(t) /\ DOMAIN (s \o t) = 1..(Len(s) + Len(t))
         /\ \A i \in 1..Len(s) : (s \o t)[i] = s[i]
         /\ \A i \in 1..Len(t) : (s \o t)[Len(s) + i] = t[i]
OBVIOUS

LEMMA PrintsRule ==
  ASSUME NEW s \in Seq(Nat), NEW m \in Nat, NEW g \in Nat
  PROVE  Prints(s, m, g, s \o [i \in 1..m |-> g + i])
<1> DEFINE u == [i \in 1..m |-> g + i]
<1>1. u \in Seq(Nat) /\ Len(u) = m /\ \A i \in 1..m : u[i] = g + i
  <2>1. u \in [1..m -> Nat]
    OBVIOUS
  <2>2. u \in Seq(Nat) /\ Len(u) = m
    BY <2>1
  <2> QED
    BY <2>2
<1> HIDE DEF u
<1>2. /\ s \o u \in Seq(Nat) /\ DOMAIN (s \o u) = 1..(Len(s) + Len(u))
      /\ \A i \in 1..Len(s) : (s \o u)[i] = s[i]
      /\ \A i \in 1..Len(u) : (s \o u)[Len(s) + i] = u[i]
  BY <1>1, JoinedNumbers
<1>3. DOMAIN s = 1..Len(s) /\ Len(s) \in Nat
  OBVIOUS
<1>4. Prints(s, m, g, s \o u)
  BY <1>1, <1>2, <1>3 DEF Prints
<1> QED
  BY <1>4 DEF u

\* What is read to the first zero byte, or whole where there is none, goes on in order.
LEMMA PrintsOn ==
  ASSUME NEW s, NEW g \in Nat, NEW n \in Nat, NEW m \in 0..n, NEW t, PrintedOf(s, g), Prints(s, m, g, t),
         \A k \in 1..m : g + k \notin Nuls, m < n => g + m + 1 \in Nuls
  PROVE  PrintedOf(t, g + n)
<1> DEFINE L == Len(s)
<1>1. /\ L \in Nat /\ DOMAIN s = 1..L /\ DOMAIN t = 1..(L + m)
      /\ \A i \in 1..L : t[i] = s[i] /\ s[i] \in 1..g
      /\ \A i \in 1..m : t[L + i] = g + i
  BY DEF Prints, PrintedOf
<1> HIDE DEF L
<1>2. \A i \in DOMAIN t : (i <= L /\ t[i] = s[i] /\ t[i] \in 1..g) \/ (i > L /\ i - L \in 1..m /\ t[i] = g + (i - L))
  <2> SUFFICES ASSUME NEW i \in DOMAIN t, ~(i <= L) PROVE i > L /\ i - L \in 1..m /\ t[i] = g + (i - L)
    BY <1>1
  <2>1. i > L /\ i - L \in 1..m /\ L + (i - L) = i
    BY <1>1
  <2> QED
    BY <1>1, <2>1
<1>3. \A i, j \in DOMAIN t : i < j => t[i] < t[j]
  <2> SUFFICES ASSUME NEW i \in DOMAIN t, NEW j \in DOMAIN t, i < j PROVE t[i] < t[j]
    OBVIOUS
  <2>1. CASE j <= L
    BY <1>1, <1>2, <2>1 DEF PrintedOf
  <2>2. CASE j > L
    BY <1>1, <1>2, <2>2
  <2> QED
    BY <1>1, <2>1, <2>2
<1>4. \A i \in DOMAIN t : t[i] \in 1..(g + n) /\ t[i] \notin Nuls
  <2> SUFFICES ASSUME NEW i \in DOMAIN t PROVE t[i] \in 1..(g + n) /\ t[i] \notin Nuls
    OBVIOUS
  <2>1. CASE i <= L
    BY <1>1, <1>2, <2>1 DEF PrintedOf
  <2>2. CASE i > L
    <3>1. i - L \in 1..m /\ t[i] = g + (i - L)
      BY <1>1, <1>2, <2>2
    <3>2. g + (i - L) \notin Nuls
      BY <3>1
    <3> QED
      BY <3>1, <3>2
  <2> QED
    BY <1>1, <2>1, <2>2
<1>5. ASSUME NEW k \in 1..(g + n), k \notin Nuls, Missing(t, k) PROVE k > 1 /\ Missing(t, k - 1)
  <2>1. CASE k <= g
    <3>1. Missing(s, k)
      BY <1>1, <1>5 DEF Missing
    <3>2. k > 1 /\ Missing(s, k - 1)
      BY <1>5, <2>1, <3>1 DEF PrintedOf
    <3> QED
      BY <1>1, <1>2, <2>1, <3>2 DEF Missing
  <2>2. CASE k > g
    <3>1. k > g + m
      <4> SUFFICES ASSUME ~(k > g + m) PROVE FALSE
        OBVIOUS
      <4>1. k - g \in 1..m /\ L + (k - g) \in DOMAIN t
        BY <1>1, <2>2
      <4>2. t[L + (k - g)] = g + (k - g)
        BY <1>1, <4>1
      <4>3. g + (k - g) = k
        BY <4>1
      <4> QED
        BY <1>5, <4>1, <4>2, <4>3 DEF Missing
    <3>2. k # g + m + 1 /\ k > g + m + 1
      BY <1>5, <3>1
    <3> QED
      BY <1>1, <1>2, <3>2 DEF Missing
  <2> QED
    BY <2>1, <2>2
<1> QED
  BY <1>3, <1>4, <1>5 DEF PrintedOf

LEMMA ThrTraffic ==
  ASSUME Srv!ThrAssumption, ThrIInv, NEW p \in Peers,
         Srv!Hear(p) \/ Srv!PeerConnects(p) \/ Srv!PeerSends(p)
  PROVE  ThrIInv'
<1> USE DEF ThrIInv
<1>1. ASSUME UNCHANGED <<tpc, listener, cell, cells, carries, thread>>, HeardLines', heard' \in [Peers -> Seq(Nat)],
             unheard' \in [Peers -> Nat], sentTo' \in [Peers -> Nat], \A q \in Peers : unheard'[q] <= sentTo'[q]
      PROVE  ThrIInv'
  <2>1. Srv!Reading' = Srv!Reading
    BY <1>1 DEF Srv!Reading
  <2>2. CellCount'
    BY <1>1, <2>1 DEF CellCount
  <2>3. ThrTypes'
    BY <1>1 DEF ThrTypes
  <2>4. ListenersCell' /\ ThreadsCells' /\ OwnCells' /\ NoneReads'
    BY <1>1 DEF ListenersCell, ThreadsCells, OwnCells, NoneReads
  <2> QED
    BY <1>1, <2>2, <2>3, <2>4
<1>2. CASE Srv!Hear(p)
  <2> DEFINE g == Srv!Got(p)
  <2>1. PICK n \in 1..unheard[p] : \E k \in 0..n :
          /\ \A i \in 1..k : g + i \notin Nuls
          /\ k < n => g + k + 1 \in Nuls
          /\ unheard' = [unheard EXCEPT ![p] = @ - n]
          /\ heard' = [heard EXCEPT ![p] = @ \o [i \in 1..k |-> g + i]]
    BY <1>2 DEF Srv!Hear
  <2>2. PICK m \in 0..n :
          /\ \A i \in 1..m : g + i \notin Nuls
          /\ m < n => g + m + 1 \in Nuls
          /\ unheard' = [unheard EXCEPT ![p] = @ - n]
          /\ heard' = [heard EXCEPT ![p] = @ \o [i \in 1..m |-> g + i]]
    BY <2>1
  <2>3. UNCHANGED <<tpc, listener, cell, cells, carries, thread, sentTo>>
    BY <1>2 DEF Srv!Hear
  <2>4. /\ n \in Nat /\ m \in Nat /\ m \in 0..n /\ unheard[p] \in Nat /\ sentTo[p] \in Nat
        /\ n <= unheard[p] /\ unheard[p] <= sentTo[p] /\ g = sentTo[p] - unheard[p] /\ g \in Nat
    <3>1. unheard[p] \in Nat /\ sentTo[p] \in Nat /\ unheard[p] <= sentTo[p]
      BY DEF ThrTypes
    <3> QED
      BY <2>1, <3>1 DEF Srv!Got
  <2>5. /\ unheard' \in [Peers -> Nat] /\ unheard'[p] = unheard[p] - n
        /\ \A q \in Peers : q # p => unheard'[q] = unheard[q] /\ heard'[q] = heard[q]
    BY <2>2, <2>4 DEF ThrTypes
  <2>6. Srv!Got(p)' = g + n /\ \A q \in Peers : q # p => Srv!Got(q)' = Srv!Got(q)
    BY <2>3, <2>4, <2>5 DEF Srv!Got
  <2> HIDE DEF g
  <2>7. heard'[p] = heard[p] \o [i \in 1..m |-> g + i] /\ heard[p] \in Seq(Nat)
    BY <2>2 DEF ThrTypes
  <2>8. Prints(heard[p], m, g, heard'[p])
    BY <2>4, <2>7, PrintsRule
  <2>9. PrintedOf(heard[p], g)
    BY DEF HeardLines, g
  <2>10. PrintedOf(heard'[p], g + n)
    BY <2>2, <2>4, <2>8, <2>9, PrintsOn
  <2>11. HeardLines'
    <3> SUFFICES ASSUME NEW q \in Peers PROVE PrintedOf(heard'[q], Srv!Got(q)')
      BY DEF HeardLines, PrintedOf, Missing
    <3>1. PrintedOf(heard[q], Srv!Got(q))
      BY DEF HeardLines
    <3> QED
      BY <2>5, <2>6, <2>10, <3>1
  <2>12. heard' \in [Peers -> Seq(Nat)]
    <3>1. heard'[p] \in Seq(Nat)
      BY <2>8 DEF Prints
    <3>2. DOMAIN heard' = Peers /\ heard' = [q \in DOMAIN heard' |-> heard'[q]]
      BY <2>2 DEF ThrTypes
    <3>3. \A q \in Peers : heard'[q] \in Seq(Nat)
      BY <2>5, <3>1 DEF ThrTypes
    <3> QED
      BY <3>2, <3>3
  <2>13. sentTo' \in [Peers -> Nat] /\ \A q \in Peers : unheard'[q] <= sentTo'[q]
    <3>1. sentTo' = sentTo /\ sentTo \in [Peers -> Nat] /\ \A q \in Peers : unheard[q] <= sentTo[q]
      BY <2>3 DEF ThrTypes
    <3>2. unheard'[p] <= sentTo[p]
      BY <2>4, <2>5
    <3> HIDE DEF ThrIInv
    <3> QED
      BY <2>5, <3>1, <3>2
  <2> QED
    BY <1>1, <2>3, <2>5, <2>11, <2>12, <2>13
<1>3. CASE Srv!PeerConnects(p)
  <2>1. /\ UNCHANGED <<tpc, listener, cell, cells, carries, unheard, sentTo, heard>>
        /\ thread[p] = "none" /\ thread' = [thread EXCEPT ![p] = "waiting"]
    BY <1>3 DEF Srv!PeerConnects, Srv!Traffic
  <2>2. /\ \A q \in Peers : thread'[q] = IF q = p THEN "waiting" ELSE thread[q]
        /\ thread' \in [Peers -> {"none", "waiting", "accepted", "reading", "done", "reset"}]
    BY <2>1 DEF ThrTypes
  <2>3. Srv!Reading' = Srv!Reading
    BY <2>1, <2>2 DEF Srv!Reading
  <2>4. CellCount'
    BY <2>1, <2>3 DEF CellCount
  <2>5. ThrTypes' /\ HeardLines'
    BY <2>1, <2>2 DEF ThrTypes, HeardLines, Srv!Got
  <2>6. ListenersCell' /\ ThreadsCells' /\ OwnCells' /\ NoneReads'
    BY <2>1, <2>2 DEF ListenersCell, ThreadsCells, OwnCells, NoneReads
  <2> QED
    BY <2>4, <2>5, <2>6
<1>4. CASE Srv!PeerSends(p)
  <2>1. /\ UNCHANGED <<tpc, listener, cell, cells, carries, thread, heard>>
        /\ sentTo' = [sentTo EXCEPT ![p] = @ + 1] /\ unheard' = [unheard EXCEPT ![p] = @ + 1]
    BY <1>4 DEF Srv!PeerSends
  <2>2. \A q \in Peers : /\ unheard[q] \in Nat /\ sentTo[q] \in Nat /\ unheard[q] <= sentTo[q]
                          /\ \/ unheard'[q] = unheard[q] /\ sentTo'[q] = sentTo[q]
                             \/ unheard'[q] = unheard[q] + 1 /\ sentTo'[q] = sentTo[q] + 1
    BY <2>1 DEF ThrTypes
  <2>3. \A q \in Peers : Srv!Got(q)' = Srv!Got(q)
    BY <2>2 DEF Srv!Got
  <2>4. HeardLines'
    BY <2>1, <2>3 DEF HeardLines
  <2>5. /\ heard' \in [Peers -> Seq(Nat)] /\ unheard' \in [Peers -> Nat] /\ sentTo' \in [Peers -> Nat]
        /\ \A q \in Peers : unheard'[q] <= sentTo'[q]
    BY <2>1, <2>2 DEF ThrTypes
  <2> QED
    BY <1>1, <2>1, <2>4, <2>5
<1> QED
  BY <1>2, <1>3, <1>4

LEMMA ThrStepInv == ASSUME Srv!ThrAssumption, ThrIInv, Srv!ThrNext \/ UNCHANGED threads PROVE ThrIInv'
<1>1. CASE Srv!ThrNext
  BY <1>1, ThrAllocates, ThrAccepts, ThrSpawns, ThrHangsUp, ThrTraffic DEF Srv!ThrNext, Srv!socket_listen
<1>2. CASE UNCHANGED threads
  <2>1. UNCHANGED <<tpc, listener, cell, cells, carries, thread, unheard, sentTo, heard>>
    BY <1>2 DEF threads
  <2> USE DEF ThrIInv
  <2>2. Srv!Reading' = Srv!Reading
    BY <2>1 DEF Srv!Reading
  <2>3. CellCount'
    BY <2>1, <2>2 DEF CellCount
  <2>4. ThrTypes' /\ HeardLines'
    BY <2>1 DEF ThrTypes, HeardLines, Srv!Got
  <2>5. ListenersCell' /\ ThreadsCells' /\ OwnCells' /\ NoneReads'
    BY <2>1 DEF ListenersCell, ThreadsCells, OwnCells, NoneReads
  <2> QED
    BY <2>3, <2>4, <2>5
<1> QED
  BY <1>1, <1>2

\* What is promised of the threads follows.
LEMMA ThrGood == ASSUME Srv!ThrAssumption, ThrIInv PROVE Srv!ThreadServerInv
<1> USE DEF ThrIInv
<1>1. Srv!OwnDescriptor /\ Srv!ReturnsClean
  BY DEF Srv!OwnDescriptor, Srv!ReturnsClean, OwnCells, NoneReads, Srv!Reading
<1>2. Srv!HeardInOrder
  <2> SUFFICES ASSUME NEW p \in Peers
               PROVE  LET out == {heard[p][i] : i \in DOMAIN heard[p]}
                      IN  /\ \A i, j \in DOMAIN heard[p] : i < j => heard[p][i] < heard[p][j]
                          /\ out \subseteq (1..Srv!Got(p)) \ Nuls
                          /\ \A k \in ((1..Srv!Got(p)) \ Nuls) \ out : k > 1 /\ k - 1 \notin out
    BY DEF Srv!HeardInOrder
  <2>1. PrintedOf(heard[p], Srv!Got(p))
    BY DEF HeardLines
  <2> HIDE DEF ThrIInv
  <2> QED
    BY <2>1 DEF PrintedOf, Missing
<1>3. Srv!CellsOwned
  <2> SUFFICES ASSUME tpc # "returned"
               PROVE  /\ Cardinality(cells) = Cardinality(Srv!Reading) + (IF cell = NoCell THEN 0 ELSE 1)
                      /\ \A p \in Srv!Reading : Cardinality({c \in cells \ {cell} : carries[c] = p}) = 1
    BY SrvCardinality DEF Srv!CellsOwned
  <2>1. Cardinality(cells) = Cardinality(Srv!Reading) + (IF cell = NoCell THEN 0 ELSE 1)
    BY DEF CellCount
  <2>2. ASSUME NEW p \in Srv!Reading PROVE Cardinality({c \in cells \ {cell} : carries[c] = p}) = 1
    <3>1. p \in Peers /\ thread[p] = "reading" /\ p # NoCell
      BY DEF Srv!Reading, Srv!ThrAssumption
    <3>2. PICK c \in cells : c # cell /\ carries[c] = p
      BY <3>1 DEF ThreadsCells
    <3>3. {d \in cells \ {cell} : carries[d] = p} = {c}
      BY <3>1, <3>2 DEF OwnCells
    <3> QED
      BY <3>3, FS_Singleton
  <2> QED
    BY <2>1, <2>2
<1> QED
  BY <1>1, <1>2, <1>3 DEF Srv!ThreadServerInv

\* The server with a thread for each connection: every cell is the listener's or one thread's,
\* no two hold a descriptor, and what is printed of a connection comes in the order in which it
\* was sent, none of it twice, and lacks only what lies behind a zero byte, however many peers
\* come and whatever recv joins.
THEOREM ThreadServerSound == ASSUME Srv!ThrAssumption PROVE Srv!ThrSpec => []Srv!ThreadServerInv
<1>1. Srv!ThrInit => ThrIInv
  BY ThrInitInv
<1>2. ThrIInv /\ [Srv!ThrNext]_(Srv!thrvars) => ThrIInv'
  BY ThrStepInv DEF Srv!thrvars, threads
<1>3. ThrIInv => Srv!ThreadServerInv
  BY ThrGood
<1> QED
  BY <1>1, <1>2, <1>3, PTL DEF Srv!ThrSpec

(***************************************************************************)
(* Facts about sequences.                                                  *)
(***************************************************************************)
LEMMA SameSeq ==
  ASSUME NEW S, NEW s \in Seq(S), NEW t \in Seq(S), Len(s) = Len(t), \A i \in 1..Len(s) : s[i] = t[i]
  PROVE  s = t
OBVIOUS

LEMMA FirstRule ==
  ASSUME NEW S, NEW s \in Seq(S), NEW n \in 0..Len(s)
  PROVE  /\ SubSeq(s, 1, n) \in Seq(S) /\ Len(SubSeq(s, 1, n)) = n
         /\ \A i \in 1..n : SubSeq(s, 1, n)[i] = s[i]
OBVIOUS

LEMMA AfterRule ==
  ASSUME NEW S, NEW s \in Seq(S), NEW n \in 0..Len(s)
  PROVE  /\ SubSeq(s, n + 1, Len(s)) \in Seq(S) /\ Len(SubSeq(s, n + 1, Len(s))) = Len(s) - n
         /\ \A i \in 1..(Len(s) - n) : SubSeq(s, n + 1, Len(s))[i] = s[n + i]
OBVIOUS

LEMMA JoinRule ==
  ASSUME NEW S, NEW s \in Seq(S), NEW t \in Seq(S)
  PROVE  /\ s \o t \in Seq(S) /\ Len(s \o t) = Len(s) + Len(t)
         /\ \A i \in 1..Len(s) : (s \o t)[i] = s[i]
         /\ \A i \in 1..Len(t) : (s \o t)[Len(s) + i] = t[i]
OBVIOUS

LEMMA JoinTwo ==
  ASSUME NEW S, NEW s \in Seq(S), NEW x \in S, NEW y \in S
  PROVE  /\ s \o <<x, y>> \in Seq(S) /\ Len(s \o <<x, y>>) = Len(s) + 2
         /\ \A i \in 1..Len(s) : (s \o <<x, y>>)[i] = s[i]
         /\ (s \o <<x, y>>)[Len(s) + 1] = x /\ (s \o <<x, y>>)[Len(s) + 2] = y
OBVIOUS

LEMMA JoinAssoc ==
  ASSUME NEW S, NEW a \in Seq(S), NEW b \in Seq(S), NEW c \in Seq(S)
  PROVE  (a \o b) \o c = a \o (b \o c)
<1> DEFINE m == a \o b
           o == b \o c
<1>0. Len(a) \in Nat /\ Len(b) \in Nat /\ Len(c) \in Nat
  OBVIOUS
<1>1. m \in Seq(S) /\ Len(m) = Len(a) + Len(b) /\ (\A i \in 1..Len(a) : m[i] = a[i])
      /\ \A i \in 1..Len(b) : m[Len(a) + i] = b[i]
  BY JoinRule
<1>2. o \in Seq(S) /\ Len(o) = Len(b) + Len(c) /\ (\A i \in 1..Len(b) : o[i] = b[i])
      /\ \A i \in 1..Len(c) : o[Len(b) + i] = c[i]
  BY JoinRule
<1> HIDE DEF m, o
<1>8. m \in Seq(S) /\ o \in Seq(S)
  BY <1>1, <1>2
<1>3. m \o c \in Seq(S) /\ Len(m \o c) = Len(m) + Len(c) /\ (\A i \in 1..Len(m) : (m \o c)[i] = m[i])
      /\ \A i \in 1..Len(c) : (m \o c)[Len(m) + i] = c[i]
  <2>1. m \o c \in Seq(S) /\ Len(m \o c) = Len(m) + Len(c)
    BY <1>8, JoinRule
  <2>2. \A i \in 1..Len(m) : (m \o c)[i] = m[i]
    BY <1>8, JoinRule
  <2>3. \A i \in 1..Len(c) : (m \o c)[Len(m) + i] = c[i]
    BY <1>8, JoinRule
  <2> QED
    BY <2>1, <2>2, <2>3
<1>4. a \o o \in Seq(S) /\ Len(a \o o) = Len(a) + Len(o) /\ (\A i \in 1..Len(a) : (a \o o)[i] = a[i])
      /\ \A i \in 1..Len(o) : (a \o o)[Len(a) + i] = o[i]
  <2>1. a \o o \in Seq(S) /\ Len(a \o o) = Len(a) + Len(o)
    BY <1>8, JoinRule
  <2>2. \A i \in 1..Len(a) : (a \o o)[i] = a[i]
    BY <1>8, JoinRule
  <2>3. \A i \in 1..Len(o) : (a \o o)[Len(a) + i] = o[i]
    BY <1>8, JoinRule
  <2> QED
    BY <2>1, <2>2, <2>3
<1>5. Len(m \o c) = Len(a \o o) /\ Len(m \o c) = Len(a) + Len(b) + Len(c)
  BY <1>0, <1>1, <1>2, <1>3, <1>4
<1>6. ASSUME NEW i \in 1..Len(m \o c) PROVE (m \o c)[i] = (a \o o)[i]
  <2>0. i \in Nat /\ i >= 1 /\ i <= Len(a) + Len(b) + Len(c)
    BY <1>0, <1>5
  <2>1. CASE i <= Len(a)
    <3>1. i \in 1..Len(a) /\ i \in 1..Len(m)
      BY <1>0, <1>1, <2>0, <2>1
    <3> QED
      BY <1>1, <1>3, <1>4, <3>1
  <2>2. CASE i > Len(a) /\ i <= Len(a) + Len(b)
    <3> DEFINE j == i - Len(a)
    <3>1. j \in 1..Len(b) /\ i = Len(a) + j
      BY <1>0, <2>0, <2>2
    <3>2. i \in 1..Len(m) /\ j \in 1..Len(o)
      BY <1>0, <1>1, <1>2, <2>0, <2>2, <3>1
    <3> HIDE DEF j
    <3>3. (m \o c)[i] = m[Len(a) + j] /\ (a \o o)[Len(a) + j] = o[j]
      BY <1>3, <1>4, <3>1, <3>2
    <3>4. m[Len(a) + j] = b[j] /\ o[j] = b[j]
      BY <1>1, <1>2, <3>1
    <3> QED
      BY <3>1, <3>3, <3>4
  <2>3. CASE i > Len(a) + Len(b)
    <3> DEFINE j == i - (Len(a) + Len(b))
    <3>1. j \in 1..Len(c) /\ i = Len(m) + j /\ i = Len(a) + (Len(b) + j) /\ Len(b) + j \in 1..Len(o)
      BY <1>0, <1>1, <1>2, <2>0, <2>3
    <3> HIDE DEF j
    <3>2. (m \o c)[i] = c[j]
      BY <1>3, <3>1
    <3>3. (a \o o)[i] = o[Len(b) + j] /\ o[Len(b) + j] = c[j]
      BY <1>2, <1>4, <3>1
    <3> QED
      BY <3>2, <3>3
  <2>4. i <= Len(a) \/ (i > Len(a) /\ i <= Len(a) + Len(b)) \/ i > Len(a) + Len(b)
    BY <1>0, <2>0
  <2> QED
    BY <2>1, <2>2, <2>3, <2>4
<1>7. m \o c = a \o o
  BY <1>3, <1>4, <1>5, <1>6, SameSeq
<1> QED
  BY <1>7 DEF m, o

\* Concatenation under a name of its own, which the provers leave alone.
Joined(s, t) == s \o t

LEMMA JoinedAssoc ==
  ASSUME NEW S, NEW a \in Seq(S), NEW b \in Seq(S), NEW c \in Seq(S)
  PROVE  Joined(Joined(a, b), c) = Joined(a, Joined(b, c)) /\ Joined(a, b) \in Seq(S)
<1>1. Joined(Joined(a, b), c) = Joined(a, Joined(b, c))
  BY JoinAssoc DEF Joined
<1>2. Joined(a, b) \in Seq(S)
  BY JoinRule DEF Joined
<1> QED
  BY <1>1, <1>2

LEMMA JoinFour ==
  ASSUME NEW S, NEW a \in Seq(S), NEW b \in Seq(S), NEW c \in Seq(S), NEW d \in Seq(S)
  PROVE  Joined(Joined(a, Joined(b, c)), d) = Joined(Joined(a, b), Joined(c, d))
<1> DEFINE x == Joined(a, b)
<1>1. Joined(x, c) = Joined(a, Joined(b, c))
  BY JoinedAssoc
<1>2. x \in Seq(S)
  BY JoinedAssoc
<1> HIDE DEF x
<1>3. Joined(Joined(x, c), d) = Joined(x, Joined(c, d))
  BY <1>2, JoinedAssoc
<1> QED
  BY <1>1, <1>3 DEF x

LEMMA SplitRule ==
  ASSUME NEW S, NEW s \in Seq(S), NEW n \in 0..Len(s)
  PROVE  SubSeq(s, 1, n) \o SubSeq(s, n + 1, Len(s)) = s
<1> DEFINE a == SubSeq(s, 1, n)
           b == SubSeq(s, n + 1, Len(s))
<1>1. a \in Seq(S) /\ Len(a) = n /\ \A i \in 1..n : a[i] = s[i]
  BY FirstRule
<1>0. Len(s) \in Nat /\ n \in Nat
  OBVIOUS
<1>2. b \in Seq(S) /\ Len(b) = Len(s) - n /\ \A i \in 1..(Len(s) - n) : b[i] = s[n + i]
  BY AfterRule
<1> HIDE DEF a, b
<1>3. a \o b \in Seq(S) /\ Len(a \o b) = Len(s)
  BY <1>1, <1>2, JoinRule
<1>4. ASSUME NEW i \in 1..Len(s) PROVE (a \o b)[i] = s[i]
  <2>1. CASE i <= n
    BY <1>1, <1>2, <2>1, JoinRule
  <2>2. CASE i > n
    <3>1. i - n \in 1..Len(b) /\ i = Len(a) + (i - n)
      BY <1>1, <1>2, <2>2
    <3>2. (a \o b)[Len(a) + (i - n)] = b[i - n]
      BY <1>1, <1>2, <3>1, JoinRule
    <3>3. b[i - n] = s[n + (i - n)]
      BY <1>1, <1>2, <3>1
    <3> QED
      BY <3>1, <3>2, <3>3
  <2>3. i <= n \/ i > n
    BY <1>0
  <2> QED
    BY <2>1, <2>2, <2>3
<1>5. a \o b = s
  BY <1>3, <1>4, SameSeq
<1> QED
  BY <1>5 DEF a, b

\* An element put between the first n and the others.
Put(s, n, x) == SubSeq(s, 1, n) \o <<x>> \o SubSeq(s, n + 1, Len(s))

LEMMA PutRule ==
  ASSUME NEW S, NEW s \in Seq(S), NEW n \in 0..Len(s), NEW x \in S
  PROVE  /\ Put(s, n, x) \in Seq(S) /\ Len(Put(s, n, x)) = Len(s) + 1
         /\ Put(s, n, x)[n + 1] = x
         /\ \A i \in 1..n : Put(s, n, x)[i] = s[i]
         /\ \A i \in (n + 1)..Len(s) : Put(s, n, x)[i + 1] = s[i]
<1> DEFINE a == SubSeq(s, 1, n)
           b == SubSeq(s, n + 1, Len(s))
           ax == a \o <<x>>
<1>1. a \in Seq(S) /\ Len(a) = n /\ \A i \in 1..n : a[i] = s[i]
  BY FirstRule
<1>0. Len(s) \in Nat /\ n \in Nat
  OBVIOUS
<1>2. b \in Seq(S) /\ Len(b) = Len(s) - n /\ \A i \in 1..(Len(s) - n) : b[i] = s[n + i]
  BY AfterRule
<1> HIDE DEF a, b
<1>3. ax \in Seq(S) /\ Len(ax) = n + 1 /\ ax[n + 1] = x /\ \A i \in 1..n : ax[i] = s[i]
  <2>1. <<x>> \in Seq(S) /\ Len(<<x>>) = 1 /\ <<x>>[1] = x
    OBVIOUS
  <2> QED
    BY <1>1, <2>1, JoinRule
<1> HIDE DEF ax
<1>4. ax \o b \in Seq(S) /\ Len(ax \o b) = Len(s) + 1
  <2>1. ax \o b \in Seq(S) /\ Len(ax \o b) = Len(ax) + Len(b)
    BY <1>2, <1>3, JoinRule
  <2> QED
    BY <1>0, <1>2, <1>3, <2>1
<1>5. \A i \in 1..(n + 1) : (ax \o b)[i] = ax[i]
  BY <1>2, <1>3, JoinRule
<1>6. \A i \in (n + 1)..Len(s) : (ax \o b)[i + 1] = s[i]
  <2> TAKE i \in (n + 1)..Len(s)
  <2>1. i - n \in 1..Len(b) /\ i + 1 = Len(ax) + (i - n)
    BY <1>2, <1>3
  <2>2. (ax \o b)[Len(ax) + (i - n)] = b[i - n]
    BY <1>2, <1>3, <2>1, JoinRule
  <2>3. b[i - n] = s[n + (i - n)]
    BY <1>2, <2>1
  <2> QED
    BY <2>1, <2>2, <2>3
<1>7. \A i \in 1..n : (ax \o b)[i] = s[i]
  BY <1>3, <1>5
<1>8. (ax \o b)[n + 1] = x
  BY <1>3, <1>5
<1> QED
  BY <1>4, <1>6, <1>7, <1>8 DEF Put, ax, a, b

LEMMA HeadOf ==
  ASSUME NEW S, NEW s \in Seq(S), s # <<>>
  PROVE  /\ Head(s) \in S /\ Head(s) = s[1] /\ Len(s) >= 1
         /\ Tail(s) \in Seq(S) /\ Len(Tail(s)) = Len(s) - 1
         /\ \A i \in 1..(Len(s) - 1) : Tail(s)[i] = s[i + 1]
OBVIOUS

LEMMA AppendRule ==
  ASSUME NEW S, NEW s \in Seq(S), NEW x \in S
  PROVE  /\ Append(s, x) \in Seq(S) /\ Len(Append(s, x)) = Len(s) + 1
         /\ \A i \in 1..Len(s) : Append(s, x)[i] = s[i]
         /\ Append(s, x)[Len(s) + 1] = x
OBVIOUS

Holds(s, p) == \E i \in 1..Len(s) : s[i] = p
Once(s) == \A i, j \in 1..Len(s) : s[i] = s[j] => i = j

(***************************************************************************)
(* Induction, over a set of numbers, and what FlattenSeq makes.            *)
(***************************************************************************)
\* A non-empty set of natural numbers has a least element.
LEMMA Least ==
  ASSUME NEW P, P \subseteq Nat, P # {}
  PROVE  \E p \in P : \A q \in P : p <= q
<1> DEFINE R == OpToRel(<, Nat)
<1>1. IsWellFoundedOn(R, Nat)
  BY NatLessThanWellFounded
<1>2. \A x, y \in Nat : <<x, y>> \in R <=> x < y
  BY DEF OpToRel
<1> HIDE DEF R
<1>3. PICK p \in P : \A q \in P : ~(<<q, p>> \in R)
  BY <1>1, WFMin
<1>4. ASSUME NEW q \in P PROVE p <= q
  <2>1. p \in Nat /\ q \in Nat /\ ~(q < p)
    BY <1>2, <1>3
  <2> QED
    BY <2>1
<1> QED
  BY <1>4

LEMMA StepByStep ==
  ASSUME NEW S, 0 \in S, \A n \in Nat : n \in S => n + 1 \in S
  PROVE  Nat \subseteq S
<1> DEFINE Rest == Nat \ S
<1> SUFFICES ASSUME Rest # {} PROVE FALSE
  OBVIOUS
<1>1. PICK n \in Rest : \A q \in Rest : n <= q
  BY Least
<1>2. n # 0 /\ n - 1 \in Nat
  BY <1>1
<1>3. n - 1 \in S
  BY <1>1, <1>2
<1> QED
  BY <1>1, <1>2, <1>3

FlatStep(s, f, i) == IF i = 1 THEN s[i] ELSE f[i - 1] \o s[i]
Flattens(s, n, f) == f = [i \in 1..n |-> FlatStep(s, f, i)]
Flat(s) == IF Len(s) = 0 THEN s ELSE (CHOOSE f : Flattens(s, Len(s), f))[Len(s)]

LEMMA FlattensAt ==
  ASSUME NEW s, NEW n, NEW f, Flattens(s, n, f), NEW i \in 1..n
  PROVE  f[i] = FlatStep(s, f, i)
<1>1. f[i] = [j \in 1..n |-> FlatStep(s, f, j)][i]
  BY DEF Flattens
<1> QED
  BY <1>1

LEMMA FlattensExists == ASSUME NEW s PROVE \A n \in Nat : \E f : Flattens(s, n, f)
<1> DEFINE S == {n \in Nat : \E f : Flattens(s, n, f)}
<1>1. 0 \in S
  <2>1. Flattens(s, 0, [i \in 1..0 |-> s])
    BY DEF Flattens
  <2> QED
    BY <2>1
<1>2. ASSUME NEW n \in Nat, n \in S PROVE n + 1 \in S
  <2>1. PICK f : Flattens(s, n, f)
    BY <1>2
  <2> DEFINE g == [i \in 1..(n + 1) |-> IF i <= n THEN f[i] ELSE FlatStep(s, f, i)]
  <2>2. \A i \in 1..n : g[i] = f[i]
    OBVIOUS
  <2>3. \A i \in 1..(n + 1) : g[i] = FlatStep(s, f, i)
    BY <2>1, FlattensAt
  <2>4. \A i \in 1..(n + 1) : FlatStep(s, g, i) = FlatStep(s, f, i)
    BY <2>2 DEF FlatStep
  <2>5. g = [i \in 1..(n + 1) |-> g[i]]
    OBVIOUS
  <2> HIDE DEF g
  <2>6. Flattens(s, n + 1, g)
    BY <2>3, <2>4, <2>5 DEF Flattens
  <2> QED
    BY <2>6
<1> HIDE DEF S
<1>3. Nat \subseteq S
  BY <1>1, <1>2, StepByStep
<1> QED
  BY <1>3 DEF S

Alike(s, t, n) == \A i \in 1..n : s[i] = t[i]

\* Two sequences that begin alike are flattened alike so far.
LEMMA FlattensSame ==
  ASSUME NEW s, NEW t, NEW n \in Nat, NEW k \in Nat, n <= k, Alike(s, t, n),
         NEW f, NEW g, Flattens(s, n, f), Flattens(t, k, g)
  PROVE  Alike(f, g, n)
<1> DEFINE S == {i \in Nat : i \in 1..n => f[i] = g[i]}
<1>1. 0 \in S
  OBVIOUS
<1>2. ASSUME NEW i \in Nat, i \in S PROVE i + 1 \in S
  <2> SUFFICES ASSUME i + 1 \in 1..n PROVE f[i + 1] = g[i + 1]
    OBVIOUS
  <2>1. f[i + 1] = FlatStep(s, f, i + 1)
    BY FlattensAt
  <2>2. g[i + 1] = FlatStep(t, g, i + 1)
    BY FlattensAt
  <2>3. i + 1 # 1 => f[i] = g[i]
    BY <1>2
  <2> QED
    BY <2>1, <2>2, <2>3 DEF FlatStep, Alike
<1> HIDE DEF S
<1>3. Nat \subseteq S
  BY <1>1, <1>2, StepByStep
<1> QED
  BY <1>3 DEF S, Alike

LEMMA FlatEmpty == Flat(<<>>) = <<>>
BY DEF Flat

LEMMA FlatLast ==
  ASSUME NEW s, Len(s) \in Nat, Len(s) # 0, NEW f, Flattens(s, Len(s), f)
  PROVE  Flat(s) = f[Len(s)]
<1> DEFINE g == CHOOSE h : Flattens(s, Len(s), h)
<1>1. Flattens(s, Len(s), g)
  OBVIOUS
<1>2. Flat(s) = g[Len(s)]
  BY DEF Flat
<1> HIDE DEF g
<1>3. Alike(g, f, Len(s))
  BY <1>1, FlattensSame DEF Alike
<1> QED
  BY <1>2, <1>3 DEF Alike

\* One more sequence at the end puts its elements at the end.
LEMMA FlatAppend ==
  ASSUME NEW S, NEW s \in Seq(Seq(S)), NEW x \in Seq(S)
  PROVE  Flat(Append(s, x)) = IF s = <<>> THEN x ELSE Flat(s) \o x
<1> DEFINE t == Append(s, x)
           n == Len(s)
<1>1. n \in Nat /\ n + 1 \in Nat /\ n <= n + 1 /\ Len(t) = n + 1 /\ t[n + 1] = x /\ (\A i \in 1..n : s[i] = t[i]) /\ (s = <<>> <=> n = 0)
  OBVIOUS
<1> HIDE DEF t, n
<1>2. PICK f : Flattens(s, n, f)
  BY <1>1, FlattensExists
<1>3. PICK g : Flattens(t, n + 1, g)
  BY <1>1, FlattensExists
<1>4. Flat(t) = g[n + 1]
  BY <1>1, <1>3, FlatLast
<1>5. g[n + 1] = FlatStep(t, g, n + 1)
  BY <1>1, <1>3, FlattensAt
<1>6. CASE s = <<>>
  BY <1>1, <1>4, <1>5, <1>6 DEF FlatStep, t
<1>7. CASE s # <<>>
  <2>1. Flat(s) = f[n]
    BY <1>1, <1>2, <1>7, FlatLast DEF n
  <2>2. Alike(f, g, n)
    <3>1. Alike(s, t, n)
      BY <1>1 DEF Alike
    <3> QED
      BY <1>1, <1>2, <1>3, <3>1, FlattensSame
  <2>4. n \in 1..n /\ f[n] = g[n]
    BY <1>1, <1>7, <2>2 DEF Alike
  <2>3. FlatStep(t, g, n + 1) = g[n] \o x
    BY <1>1, <1>7 DEF FlatStep
  <2> QED
    BY <1>4, <1>5, <1>7, <2>1, <2>3, <2>4 DEF t
<1> QED
  BY <1>6, <1>7

LEMMA FlatJoin ==
  ASSUME NEW S, NEW s \in Seq(Seq(S)), Flat(s) \in Seq(S), NEW x \in Seq(S)
  PROVE  Flat(Append(s, x)) = Flat(s) \o x
<1>1. CASE s = <<>>
  <2>1. Flat(s) = <<>> /\ <<>> \o x = x
    BY <1>1, FlatEmpty
  <2> QED
    BY <1>1, <2>1, FlatAppend
<1>2. CASE s # <<>>
  BY <1>2, FlatAppend
<1> QED
  BY <1>1, <1>2

LEMMA ChannelsFlat == \A s : Chn!FlattenSeq(s) = Flat(s)
BY DEF Chn!FlattenSeq, Flat, Flattens, FlatStep

LEMMA SocketsFlat == \A s : Sck!FlattenSeq(s) = Flat(s)
BY DEF Sck!FlattenSeq, Flat, Flattens, FlatStep

(***************************************************************************)
(* The message queue.  A sender is at most once in the queue or among what *)
(* was printed, and that is where its message is when it says "sent".      *)
(***************************************************************************)
MqProcesses == Senders \cup {"receiver"}
MqStates == {"start", "check", "receive", "failed", "exited", "killed", "send", "sent"}

MqTypes ==
  /\ kind \in {"none", "attr", "default"}
  /\ kind # "attr" => received = <<>>
  /\ mqueue \in Seq(Senders) /\ Len(mqueue) <= MaxMsg /\ received \in Seq(Senders)
  /\ quit \in BOOLEAN /\ sofar \in Nat
  /\ mpc \in [MqProcesses -> MqStates]

Delivered ==
  /\ \A p \in Senders : mpc[p] = "sent" <=> Holds(mqueue, p) \/ Holds(received, p)
  /\ \A p \in Senders : ~(Holds(mqueue, p) /\ Holds(received, p))
  /\ Once(mqueue) /\ Once(received)

Prompt ==
  quit => /\ interrupted /\ Len(received) <= sofar + 1
          /\ mpc["receiver"] = "receive" => Len(received) <= sofar

MqIInv == MqTypes /\ Delivered /\ Prompt

LEMMA MqInitInv == ASSUME Chn!MqAssumption, Chn!MqInit PROVE MqIInv
<1> USE DEF Chn!MqInit, Chn!MqAssumption
<1>1. MqTypes
  <2>1. mpc \in [MqProcesses -> MqStates]
    BY DEF MqProcesses, MqStates
  <2>2. mqueue \in Seq(Senders) /\ Len(mqueue) = 0 /\ received \in Seq(Senders)
    OBVIOUS
  <2>3. Len(mqueue) <= MaxMsg
    BY <2>2
  <2> QED
    BY <2>1, <2>2, <2>3 DEF MqTypes
<1>2. Delivered
  BY DEF Delivered, Holds, Once
<1> QED
  BY <1>1, <1>2 DEF MqIInv, Prompt

\* A step of one process that sends and prints nothing.
LEMMA MqQuietStep ==
  ASSUME Chn!MqAssumption, MqIInv, UNCHANGED <<mqueue, received>>,
         NEW p \in MqProcesses, NEW from \in MqStates, NEW to \in MqStates,
         from # "sent", to # "sent", Chn!To(p, from, to)
  PROVE  /\ mpc' \in [MqProcesses -> MqStates] /\ mpc'[p] = to
         /\ \A o \in MqProcesses : o # p => mpc'[o] = mpc[o]
         /\ Delivered'
<1>1. /\ mpc' \in [MqProcesses -> MqStates] /\ mpc'[p] = to /\ mpc[p] = from
      /\ \A o \in MqProcesses : o # p => mpc'[o] = mpc[o]
  BY DEF Chn!To, MqIInv, MqTypes
<1>2. \A o \in Senders : mpc'[o] = "sent" <=> mpc[o] = "sent"
  BY <1>1 DEF MqProcesses
<1>3. Delivered'
  BY <1>2 DEF MqIInv, Delivered, Holds, Once
<1> QED
  BY <1>1, <1>3

LEMMA MqReceives == ASSUME Chn!MqAssumption, MqIInv, Chn!Receive_Open \/ Chn!Check PROVE MqIInv'
<1>1. "receiver" \in MqProcesses /\ MqStates = {"start", "check", "receive", "failed", "exited", "killed", "send", "sent"}
  BY DEF MqProcesses, MqStates
<1>2. /\ UNCHANGED <<mqueue, received, quit, interrupted, sofar>>
      /\ kind' = kind \/ (kind = "none" /\ kind' = "attr")
  BY DEF Chn!Receive_Open, Chn!Check, Chn!Quiet, Chn!QueueSame
<1>3. kind' # kind => received = <<>>
  BY <1>2 DEF MqIInv, MqTypes
<1>4. PICK from \in MqStates, to \in MqStates :
        /\ from # "sent" /\ to # "sent" /\ Chn!To("receiver", from, to)
        /\ to = "receive" => ~quit
  BY <1>1 DEF Chn!Receive_Open, Chn!Check, MqIInv, MqTypes
<1>5. mpc' \in [MqProcesses -> MqStates] /\ mpc'["receiver"] = to /\ Delivered'
  BY <1>1, <1>2, <1>4, MqQuietStep
<1>6. MqTypes'
  BY <1>2, <1>3, <1>5 DEF MqIInv, MqTypes
<1>7. Prompt'
  BY <1>2, <1>4, <1>5 DEF MqIInv, Prompt
<1> QED
  BY <1>5, <1>6, <1>7 DEF MqIInv

LEMMA MqTakes == ASSUME Chn!MqAssumption, MqIInv, Chn!Receive PROVE MqIInv'
<1>1. "receiver" \in MqProcesses /\ MqStates = {"start", "check", "receive", "failed", "exited", "killed", "send", "sent"}
  BY DEF MqProcesses, MqStates
<1>2. CASE kind = "default" /\ Chn!To("receiver", "receive", "failed") /\ Chn!QueueSame /\ Chn!Quiet /\ UNCHANGED received
  <2>1. UNCHANGED <<kind, mqueue, received, quit, interrupted, sofar>>
    BY <1>2 DEF Chn!Quiet, Chn!QueueSame
  <2>2. mpc' \in [MqProcesses -> MqStates] /\ mpc'["receiver"] = "failed" /\ Delivered'
    BY <1>1, <1>2, <2>1, MqQuietStep
  <2> QED
    BY <2>1, <2>2 DEF MqIInv, MqTypes, Prompt
<1>3. CASE /\ kind = "attr" /\ mqueue # <<>>
           /\ Chn!To("receiver", "receive", "check")
           /\ received' = Append(received, Head(mqueue)) /\ mqueue' = Tail(mqueue)
           /\ UNCHANGED kind /\ Chn!Quiet
  <2>1. /\ Head(mqueue) \in Senders /\ Head(mqueue) = mqueue[1] /\ Len(mqueue) >= 1
        /\ mqueue' \in Seq(Senders) /\ Len(mqueue') = Len(mqueue) - 1
        /\ \A i \in 1..(Len(mqueue) - 1) : mqueue'[i] = mqueue[i + 1]
    BY <1>3, HeadOf DEF MqIInv, MqTypes
  <2>2. /\ received' \in Seq(Senders) /\ Len(received') = Len(received) + 1
        /\ \A i \in 1..Len(received) : received'[i] = received[i]
        /\ received'[Len(received) + 1] = mqueue[1]
    BY <1>3, <2>1, AppendRule DEF MqIInv, MqTypes
  <2>3. /\ mpc["receiver"] = "receive" /\ mpc' \in [MqProcesses -> MqStates]
        /\ mpc'["receiver"] = "check" /\ \A p \in Senders : mpc'[p] = mpc[p]
    BY <1>1, <1>3 DEF MqIInv, MqTypes, Chn!To, Chn!MqAssumption, MqProcesses
  <2>4. UNCHANGED <<kind, quit, interrupted, sofar>>
    BY <1>3 DEF Chn!Quiet
  <2>5. Len(mqueue) \in Nat /\ Len(received) \in Nat /\ mqueue[1] \in Senders
    BY <2>1 DEF MqIInv, MqTypes
  <2>6. MqTypes'
    <3>1. Len(mqueue) <= MaxMsg => Len(mqueue') <= MaxMsg
      BY <2>1, <2>5 DEF Chn!MqAssumption
    <3> QED
      BY <1>3, <2>1, <2>2, <2>3, <2>4, <3>1 DEF MqIInv, MqTypes
  <2>7. ASSUME NEW p \in Senders
        PROVE  /\ Holds(mqueue, p) <=> p = mqueue[1] \/ Holds(mqueue', p)
               /\ Holds(received', p) <=> p = mqueue[1] \/ Holds(received, p)
    <3>1. Holds(mqueue', p) => Holds(mqueue, p)
      BY <2>1, <2>5 DEF Holds
    <3>2. ASSUME NEW i \in 1..Len(mqueue), mqueue[i] = p, i # 1 PROVE Holds(mqueue', p)
      <4>1. i - 1 \in 1..(Len(mqueue) - 1) /\ mqueue'[i - 1] = mqueue[(i - 1) + 1]
        BY <2>1, <2>5, <3>2
      <4> QED
        BY <2>1, <3>2, <4>1 DEF Holds
    <3>3. Holds(received', p) <=> p = mqueue[1] \/ Holds(received, p)
      BY <2>2, <2>5 DEF Holds
    <3>4. p = mqueue[1] => Holds(mqueue, p)
      BY <2>1, <2>5 DEF Holds
    <3> QED
      BY <3>1, <3>2, <3>3, <3>4 DEF Holds
  <2>8. Once(mqueue')
    BY <2>1, <2>5 DEF MqIInv, Delivered, Once
  <2>9. ~Holds(mqueue', mqueue[1])
    BY <2>1, <2>5 DEF MqIInv, Delivered, Once, Holds
  <2>10. Once(received')
    <3>1. Holds(mqueue, mqueue[1])
      BY <2>7, <2>5
    <3>2. ~Holds(received, mqueue[1])
      BY <2>5, <3>1 DEF MqIInv, Delivered
    <3> QED
      BY <2>2, <2>5, <3>2 DEF MqIInv, Delivered, Once, Holds
  <2>11. Delivered'
    <3>1. ASSUME NEW p \in Senders
          PROVE  /\ mpc'[p] = "sent" <=> Holds(mqueue', p) \/ Holds(received', p)
                 /\ ~(Holds(mqueue', p) /\ Holds(received', p))
      BY <2>3, <2>7, <2>9 DEF MqIInv, Delivered
    <3> QED
      BY <2>8, <2>10, <3>1 DEF Delivered
  <2>12. Prompt'
    BY <2>2, <2>3, <2>4, <2>5 DEF MqIInv, MqTypes, Prompt
  <2> QED
    BY <2>6, <2>11, <2>12 DEF MqIInv
<1> QED
  BY <1>2, <1>3 DEF Chn!Receive

LEMMA MqInterrupts == ASSUME Chn!MqAssumption, MqIInv, Chn!Interrupt PROVE MqIInv'
<1>1. "receiver" \in MqProcesses /\ MqStates = {"start", "check", "receive", "failed", "exited", "killed", "send", "sent"}
  BY DEF MqProcesses, MqStates
<1>2. interrupted' = TRUE /\ ~quit /\ UNCHANGED <<mqueue, received>> /\ Len(received) \in Nat
  BY DEF Chn!Interrupt, MqIInv, MqTypes, Prompt
<1>3. /\ kind' = kind \/ (kind = "none" /\ kind' = "attr")
      /\ (UNCHANGED <<quit, sofar>> \/ (quit' = TRUE /\ sofar' = Len(received)))
  BY DEF Chn!Interrupt
<1>4. /\ mpc' \in [MqProcesses -> MqStates]
      /\ \A p \in Senders : mpc'[p] = mpc[p]
  BY <1>1 DEF Chn!Interrupt, MqIInv, MqTypes, Chn!MqAssumption, MqProcesses
<1>5. Delivered'
  BY <1>2, <1>4 DEF MqIInv, Delivered, Holds, Once
<1>6. MqTypes'
  <2>1. quit' \in BOOLEAN /\ sofar' \in Nat
    BY <1>2, <1>3 DEF MqIInv, MqTypes
  <2> QED
    BY <1>2, <1>3, <1>4, <2>1 DEF MqIInv, MqTypes
<1>7. Prompt'
  <2>1. quit' => sofar' = Len(received')
    BY <1>2, <1>3
  <2> QED
    BY <1>2, <2>1 DEF Prompt
<1> QED
  BY <1>5, <1>6, <1>7 DEF MqIInv

LEMMA MqPlaced ==
  ASSUME NEW q \in Seq(Senders), NEW p \in Senders
  PROVE  \E n \in 0..Len(q) :
           /\ Chn!Placed(q, p) \in Seq(Senders) /\ Len(Chn!Placed(q, p)) = Len(q) + 1
           /\ Chn!Placed(q, p)[n + 1] = p
           /\ \A i \in 1..n : Chn!Placed(q, p)[i] = q[i]
           /\ \A i \in (n + 1)..Len(q) : Chn!Placed(q, p)[i + 1] = q[i]
<1> DEFINE ahead == {i \in DOMAIN q : Priority[q[i]] >= Priority[p]}
           n == Chn!Cardinality(ahead)
<1>1. Chn!Cardinality(ahead) = Cardinality(ahead)
  BY DEF Chn!Cardinality, Cardinality, Chn!IsFiniteSet, IsFiniteSet
<1>2. ahead \in SUBSET (1..Len(q)) /\ Len(q) \in Nat
  OBVIOUS
<1> HIDE DEF ahead
<1>3. IsFiniteSet(1..Len(q)) /\ Cardinality(1..Len(q)) = Len(q)
  <2>1. \A k \in Nat : IsFiniteSet(1..k) /\ Cardinality(1..k) = k
    BY FS_Interval
  <2> QED
    BY <1>2, <2>1, Zenon
<1>4. Cardinality(ahead) <= Len(q) /\ IsFiniteSet(ahead)
  BY <1>2, <1>3, FS_Subset
<1>5. n \in 0..Len(q)
  BY <1>1, <1>2, <1>4, FS_CardinalityType
<1>6. Chn!Placed(q, p) = Put(q, n, p)
  BY DEF Chn!Placed, Put, ahead
<1> HIDE DEF n
<1>7. Put(q, n, p) \in Seq(Senders) /\ Len(Put(q, n, p)) = Len(q) + 1
  BY <1>5, PutRule
<1>11. Put(q, n, p)[n + 1] = p
  BY <1>5, PutRule
<1>8. \A i \in 1..n : Put(q, n, p)[i] = q[i]
  BY <1>5, PutRule
<1>9. \A i \in (n + 1)..Len(q) : Put(q, n, p)[i + 1] = q[i]
  BY <1>5, PutRule
<1> QED
  BY <1>5, <1>6, <1>7, <1>8, <1>9, <1>11

LEMMA MqSends == ASSUME Chn!MqAssumption, MqIInv, NEW p \in Senders, Chn!Send(p) PROVE MqIInv'
<1>1. p \in MqProcesses /\ p # "receiver" /\ MqStates = {"start", "check", "receive", "failed", "exited", "killed", "send", "sent"}
  BY DEF MqProcesses, MqStates, Chn!MqAssumption
<1>2. UNCHANGED <<kind, received, quit, interrupted, sofar>>
  BY DEF Chn!Send, Chn!Quiet
<1>3. CASE Chn!To(p, "send", "failed") /\ UNCHANGED mqueue
  <2>1. /\ mpc' \in [MqProcesses -> MqStates] /\ Delivered'
        /\ \A o \in MqProcesses : o # p => mpc'[o] = mpc[o]
    BY <1>1, <1>2, <1>3, MqQuietStep
  <2>2. mpc'["receiver"] = mpc["receiver"]
    BY <1>1, <2>1 DEF MqProcesses
  <2> QED
    BY <1>2, <1>3, <2>1, <2>2 DEF MqIInv, MqTypes, Prompt
<1>4. CASE Chn!To(p, "send", "sent") /\ Len(mqueue) < MaxMsg /\ mqueue' = Chn!Placed(mqueue, p)
  <2>1. /\ mpc[p] = "send" /\ mpc' \in [MqProcesses -> MqStates] /\ mpc'[p] = "sent"
        /\ \A o \in MqProcesses : o # p => mpc'[o] = mpc[o]
    BY <1>1, <1>4 DEF MqIInv, MqTypes, Chn!To
  <2>2. mpc'["receiver"] = mpc["receiver"]
    BY <1>1, <2>1 DEF MqProcesses
  <2>3. mqueue \in Seq(Senders) /\ Len(mqueue) \in Nat
    BY DEF MqIInv, MqTypes
  <2>4. PICK n \in 0..Len(mqueue) :
           /\ mqueue' \in Seq(Senders) /\ Len(mqueue') = Len(mqueue) + 1
           /\ mqueue'[n + 1] = p
           /\ \A i \in 1..n : mqueue'[i] = mqueue[i]
           /\ \A i \in (n + 1)..Len(mqueue) : mqueue'[i + 1] = mqueue[i]
    BY <1>4, <2>3, MqPlaced
  <2>5. MqTypes'
    <3>1. Len(mqueue') <= MaxMsg
      BY <1>4, <2>3, <2>4 DEF Chn!MqAssumption
    <3> QED
      BY <1>2, <2>1, <2>4, <3>1 DEF MqIInv, MqTypes
  <2>6. ~Holds(mqueue, p) /\ ~Holds(received, p)
    BY <2>1 DEF MqIInv, Delivered
  <2>7. ASSUME NEW i \in 1..Len(mqueue'), i # n + 1
        PROVE  \E k \in 1..Len(mqueue) : mqueue'[i] = mqueue[k] /\ i = IF k <= n THEN k ELSE k + 1
    <3>1. CASE i <= n
      BY <2>3, <2>4, <2>7, <3>1
    <3>2. CASE i > n + 1
      <4>1. i - 1 \in (n + 1)..Len(mqueue) /\ i = (i - 1) + 1
        BY <2>3, <2>4, <3>2
      <4>2. mqueue'[(i - 1) + 1] = mqueue[i - 1]
        BY <2>4, <4>1
      <4> QED
        BY <2>3, <4>1, <4>2
    <3> QED
      BY <2>3, <2>4, <2>7, <3>1, <3>2
  <2>8. ASSUME NEW o \in Senders PROVE Holds(mqueue', o) <=> o = p \/ Holds(mqueue, o)
    <3>1. o = p => Holds(mqueue', o)
      BY <2>3, <2>4 DEF Holds
    <3>2. Holds(mqueue', o) => o = p \/ Holds(mqueue, o)
      BY <2>4, <2>7 DEF Holds
    <3>3. ASSUME NEW k \in 1..Len(mqueue), mqueue[k] = o PROVE Holds(mqueue', o)
      <4>1. CASE k <= n
        BY <2>3, <2>4, <3>3, <4>1 DEF Holds
      <4>2. CASE k > n
        <5>1. k \in (n + 1)..Len(mqueue) /\ k + 1 \in 1..Len(mqueue')
          BY <2>3, <2>4, <4>2
        <5> QED
          BY <2>4, <3>3, <5>1 DEF Holds
      <4> QED
        BY <2>3, <4>1, <4>2
    <3> QED
      BY <3>1, <3>2, <3>3 DEF Holds
  <2>9. Once(mqueue')
    <3> SUFFICES ASSUME NEW i \in 1..Len(mqueue'), NEW j \in 1..Len(mqueue'), mqueue'[i] = mqueue'[j]
                 PROVE  i = j
      BY DEF Once
    <3>1. \A k \in 1..Len(mqueue) : mqueue[k] # p
      BY <2>6 DEF Holds
    <3>2. (i = n + 1) <=> (j = n + 1)
      BY <2>4, <2>7, <3>1
    <3>3. CASE i # n + 1
      <4>1. PICK k \in 1..Len(mqueue) : mqueue'[i] = mqueue[k] /\ i = IF k <= n THEN k ELSE k + 1
        BY <2>7, <3>3
      <4>2. PICK l \in 1..Len(mqueue) : mqueue'[j] = mqueue[l] /\ j = IF l <= n THEN l ELSE l + 1
        BY <2>7, <3>2, <3>3
      <4>3. k = l
        BY <4>1, <4>2 DEF MqIInv, Delivered, Once
      <4> QED
        BY <4>1, <4>2, <4>3
    <3> QED
      BY <3>2, <3>3
  <2>10. Delivered'
    <3>1. ASSUME NEW o \in Senders
          PROVE  /\ mpc'[o] = "sent" <=> Holds(mqueue', o) \/ Holds(received', o)
                 /\ ~(Holds(mqueue', o) /\ Holds(received', o))
      <4>1. Holds(received', o) <=> Holds(received, o)
        BY <1>2
      <4> QED
        BY <2>1, <2>6, <2>8, <4>1 DEF MqIInv, Delivered, MqProcesses
    <3>2. Once(received')
      BY <1>2 DEF MqIInv, Delivered
    <3> QED
      BY <2>9, <3>1, <3>2 DEF Delivered
  <2>11. Prompt'
    BY <1>2, <2>2 DEF MqIInv, Prompt
  <2> QED
    BY <2>5, <2>10, <2>11 DEF MqIInv
<1> QED
  BY <1>3, <1>4 DEF Chn!Send

LEMMA MqSendOpens == ASSUME Chn!MqAssumption, MqIInv, NEW p \in Senders, Chn!Send_Open(p) PROVE MqIInv'
<1>1. p \in MqProcesses /\ p # "receiver" /\ MqStates = {"start", "check", "receive", "failed", "exited", "killed", "send", "sent"}
  BY DEF MqProcesses, MqStates, Chn!MqAssumption
<1>2. /\ UNCHANGED <<mqueue, received, quit, interrupted, sofar>>
      /\ kind' = kind \/ (kind = "none" /\ kind' = "default")
  BY DEF Chn!Send_Open, Chn!Quiet
<1>3. PICK to \in MqStates : to # "sent" /\ Chn!To(p, "start", to)
  BY <1>1 DEF Chn!Send_Open
<1>4. /\ mpc' \in [MqProcesses -> MqStates] /\ Delivered'
      /\ \A o \in MqProcesses : o # p => mpc'[o] = mpc[o]
  BY <1>1, <1>2, <1>3, MqQuietStep
<1>5. mpc'["receiver"] = mpc["receiver"]
  BY <1>1, <1>4 DEF MqProcesses
<1> QED
  BY <1>2, <1>4, <1>5 DEF MqIInv, MqTypes, Prompt

LEMMA MqStepInv == ASSUME Chn!MqAssumption, MqIInv, [Chn!MqNext]_(Chn!mqvars) PROVE MqIInv'
<1>1. CASE UNCHANGED Chn!mqvars
  BY <1>1 DEF MqIInv, MqTypes, Delivered, Prompt, Chn!mqvars, Holds, Once
<1> QED
  BY <1>1, MqReceives, MqTakes, MqInterrupts, MqSendOpens, MqSends DEF Chn!MqNext

\* A sequence that has nothing twice has as many elements as places.
LEMMA OnceCounted ==
  ASSUME NEW S, NEW s \in Seq(S), Once(s)
  PROVE  Cardinality({s[i] : i \in DOMAIN s}) = Len(s)
<1> DEFINE T == {s[i] : i \in DOMAIN s}
<1>1. Len(s) \in Nat /\ DOMAIN s = 1..Len(s)
  OBVIOUS
<1>2. s \in [1..Len(s) -> T] /\ \A t \in T : \E i \in 1..Len(s) : s[i] = t
  OBVIOUS
<1> HIDE DEF T
<1>3. s \in Bijection(1..Len(s), T)
  BY <1>1, <1>2 DEF Bijection, Injection, IsInjective, Surjection, Once
<1>4. IsFiniteSet(1..Len(s)) /\ Cardinality(1..Len(s)) = Len(s)
  BY <1>1, FS_Interval
<1>5. ExistsBijection(1..Len(s), T)
  BY <1>3 DEF ExistsBijection
<1> QED
  BY <1>4, <1>5, FS_Bijection DEF T

LEMMA MqGood == ASSUME Chn!MqAssumption, MqIInv PROVE Chn!MqInv
<1> DEFINE both == mqueue \o received
<1>1. /\ both \in Seq(Senders) /\ Len(both) = Len(mqueue) + Len(received)
      /\ \A i \in 1..Len(mqueue) : both[i] = mqueue[i]
      /\ \A i \in 1..Len(received) : both[Len(mqueue) + i] = received[i]
  BY JoinRule DEF MqIInv, MqTypes
<1>2. Len(mqueue) \in Nat /\ Len(received) \in Nat
  BY DEF MqIInv, MqTypes
<1> HIDE DEF both
<1>3. ASSUME NEW i \in 1..Len(both), i > Len(mqueue)
      PROVE  i - Len(mqueue) \in 1..Len(received) /\ both[i] = received[i - Len(mqueue)]
  <2>1. i - Len(mqueue) \in 1..Len(received) /\ i = Len(mqueue) + (i - Len(mqueue))
    BY <1>1, <1>2, <1>3
  <2> QED
    BY <1>1, <2>1
<1>4. ASSUME NEW p \in Senders PROVE mpc[p] = "sent" <=> \E i \in DOMAIN both : both[i] = p
  <2>1. DOMAIN both = 1..Len(both)
    BY <1>1
  <2>2. Holds(mqueue, p) => \E i \in DOMAIN both : both[i] = p
    BY <1>1, <1>2, <2>1 DEF Holds
  <2>3. ASSUME NEW i \in 1..Len(received), received[i] = p PROVE \E j \in DOMAIN both : both[j] = p
    <3>1. Len(mqueue) + i \in 1..Len(both) /\ both[Len(mqueue) + i] = p
      BY <1>1, <1>2, <2>3
    <3> QED
      BY <2>1, <3>1
  <2>4. ASSUME NEW i \in 1..Len(both), both[i] = p PROVE Holds(mqueue, p) \/ Holds(received, p)
    BY <1>1, <1>2, <1>3, <2>4 DEF Holds
  <2> QED
    BY <2>1, <2>2, <2>3, <2>4 DEF MqIInv, Delivered, Holds
<1>5. Once(both)
  <2> SUFFICES ASSUME NEW i \in 1..Len(both), NEW j \in 1..Len(both), both[i] = both[j] PROVE i = j
    BY DEF Once
  <2>1. ASSUME NEW k \in 1..Len(mqueue), NEW l \in 1..Len(received) PROVE mqueue[k] # received[l]
    <3>1. mqueue[k] \in Senders
      BY DEF MqIInv, MqTypes
    <3> QED
      BY <3>1 DEF MqIInv, Delivered, Holds
  <2>2. CASE i <= Len(mqueue) /\ j <= Len(mqueue)
    BY <1>1, <1>2, <2>2 DEF MqIInv, Delivered, Once
  <2>3. CASE i > Len(mqueue) /\ j > Len(mqueue)
    <3>1. i - Len(mqueue) = j - Len(mqueue)
      BY <1>3, <2>3 DEF MqIInv, Delivered, Once
    <3> QED
      BY <1>1, <1>2, <3>1
  <2>4. ~(i <= Len(mqueue) /\ j > Len(mqueue))
    BY <1>1, <1>2, <1>3, <2>1
  <2>5. ~(j <= Len(mqueue) /\ i > Len(mqueue))
    BY <1>1, <1>2, <1>3, <2>1
  <2> QED
    BY <1>1, <1>2, <2>2, <2>3, <2>4, <2>5
<1>6. {both[i] : i \in DOMAIN both} = {p \in Senders : mpc[p] = "sent"}
  <2>1. \A i \in DOMAIN both : both[i] \in Senders
    BY <1>1
  <2> QED
    BY <1>4, <2>1
<1>7. Cardinality({both[i] : i \in DOMAIN both}) = Len(both)
  BY <1>1, <1>5, OnceCounted
<1>8. Chn!ToSet(both) = {both[i] : i \in DOMAIN both}
  BY DEF Chn!ToSet
<1>9. Chn!Cardinality(Chn!ToSet(both)) = Cardinality({both[i] : i \in DOMAIN both})
  BY <1>8 DEF Chn!Cardinality, Cardinality, Chn!IsFiniteSet, IsFiniteSet
<1>10. Chn!NoneLost
  BY <1>6, <1>7, <1>8, <1>9 DEF Chn!NoneLost, both
<1>11. Chn!MqTypeOK
  BY DEF MqIInv, MqTypes, Chn!MqTypeOK
<1>12. Chn!QuitsSoon
  BY DEF MqIInv, Prompt, Chn!QuitsSoon
<1>13. Chn!WrongSize
  BY DEF MqIInv, MqTypes, Chn!WrongSize
<1> QED
  BY <1>10, <1>11, <1>12, <1>13 DEF Chn!MqInv

\* The message queue, for any senders and priorities: what was sent is in the queue or was printed,
\* once, whatever becomes of the receiver, and a receiver told to quit prints one more at most.
THEOREM MessagesKept == ASSUME Chn!MqAssumption PROVE Chn!MqSpec => []Chn!MqInv
<1>1. Chn!MqInit => MqIInv
  BY MqInitInv
<1>2. MqIInv /\ [Chn!MqNext]_(Chn!mqvars) => MqIInv'
  BY MqStepInv
<1>3. MqIInv => Chn!MqInv
  BY MqGood
<1> QED
  BY <1>1, <1>2, <1>3, PTL DEF Chn!MqSpec

(***************************************************************************)
(* The pipe.  Every byte has a place among those of all messages; what is  *)
(* in the medium are the bytes behind those the parent has taken, up to    *)
(* those the child has written.                                            *)
(***************************************************************************)
Bytes == Nat \X Nat \X BOOLEAN
Byte(j, b) == <<j, b, program = "message" /\ j = Chn!LastOne>>

TakenBytes == Len(printed) * IntSize + Len(got)
WrittenBytes ==
  IF pchild = "ended" THEN Chn!LastOne * IntSize ELSE (sending - 1) * IntSize + IntSize - left

\* The elements of s are the bytes behind the first m.
Behind(s, m) ==
  \A i \in 1..Len(s) :
    \E j \in 1..Chn!LastOne, b \in 1..IntSize : s[i] = Byte(j, b) /\ (j - 1) * IntSize + b = m + i

PipeTypes ==
  /\ program \in {"message", "single"}
  /\ pchild \in {"write", "ended", "killed"} /\ sending \in 1..Chn!LastOne /\ left \in 1..IntSize
  /\ parent \in {"read", "wait", "ended", "killed"} /\ unexpected \in BOOLEAN
  /\ stream \in Seq(Bytes) /\ got \in Seq(Bytes) /\ printed \in Seq(Seq(Bytes))

PipeFlow ==
  parent # "killed" /\ ~(pchild = "killed" /\ stream = <<>>) =>
    Behind(stream, TakenBytes) /\ Len(stream) = WrittenBytes - TakenBytes

PipeGot == Len(got) < IntSize /\ \A i \in 1..Len(got) : got[i] = Byte(Len(printed) + 1, i)

PipePrinted ==
  /\ \A j \in 1..Len(printed) : printed[j] = Chn!Message(j)
  /\ Flat(printed) \in Seq(Bytes) /\ Len(Flat(printed)) = Len(printed) * IntSize

PipeParent ==
  /\ parent = "read" => Len(printed) < Chn!LastOne /\ ~unexpected
  /\ parent \in {"wait", "ended"} =>
       /\ pchild # "write"
       /\ IF unexpected THEN program = "single" /\ pchild = "killed" /\ printed = <<>>
          ELSE Len(printed) = Chn!LastOne

PipeIInv == PipeTypes /\ PipeFlow /\ PipeGot /\ PipePrinted /\ PipeParent

LEMMA LastOneIs == ASSUME Chn!PipeAssumption PROVE Chn!LastOne \in Nat \ {0}
BY DEF Chn!PipeAssumption, Chn!LastOne

LEMMA MessageRule ==
  ASSUME Chn!PipeAssumption, NEW j \in Nat
  PROVE  /\ Chn!Message(j) \in Seq(Bytes) /\ Len(Chn!Message(j)) = IntSize
         /\ \A b \in 1..IntSize : Chn!Message(j)[b] = Byte(j, b)
<1>1. Chn!Message(j) = [b \in 1..IntSize |-> Byte(j, b)]
  BY DEF Chn!Message, Byte
<1>0. IntSize \in Nat
  BY DEF Chn!PipeAssumption
<1>2. ASSUME NEW b \in 1..IntSize PROVE Byte(j, b) \in Bytes
  <2>1. b \in Nat
    BY <1>0
  <2>2. (program = "message" /\ j = Chn!LastOne) \in BOOLEAN
    OBVIOUS
  <2> QED
    BY <2>1, <2>2, Zenon DEF Byte, Bytes
<1> QED
  BY <1>0, <1>1, <1>2

LEMMA Products ==
  ASSUME NEW size \in Nat, NEW j \in Nat
  PROVE  j * size \in Nat /\ (j + 1) * size = j * size + size
OBVIOUS

LEMMA ProductsGrow ==
  ASSUME NEW size \in Nat, NEW j \in Nat, NEW k \in Nat, j < k
  PROVE  j * size + size <= k * size
<1>1. k - j - 1 \in Nat
  OBVIOUS
<1>2. (k - j - 1) * size >= 0
  BY <1>1
<1> QED
  BY <1>2

\* Two bytes at one place are the same byte of the same message.
LEMMA OnePlace ==
  ASSUME NEW size \in Nat, NEW j \in Nat, NEW k \in Nat, NEW b \in 1..size, NEW c \in 1..size,
         j * size + b = k * size + c
  PROVE  j = k /\ b = c
<1>1. j * size \in Nat /\ k * size \in Nat
  BY Products
<1>2. j < k => j * size + size <= k * size
  BY ProductsGrow
<1>3. k < j => k * size + size <= j * size
  BY ProductsGrow
<1>4. j = k
  BY <1>1, <1>2, <1>3
<1> QED
  BY <1>1, <1>4

LEMMA PipeInitInv == ASSUME Chn!PipeAssumption, Chn!PipeInit PROVE PipeIInv
<1>1. Chn!LastOne \in Nat \ {0} /\ IntSize \in Nat \ {0} /\ Programs \subseteq {"message", "single"}
  BY LastOneIs DEF Chn!PipeAssumption
<1> USE DEF Chn!PipeInit
<1>2. stream = <<>> /\ got = <<>> /\ printed = <<>> /\ Len(<<>>) = 0
  OBVIOUS
<1>3. <<>> \in Seq(Bytes) /\ <<>> \in Seq(Seq(Bytes))
  OBVIOUS
<1>4. PipeTypes
  <2>1. 1 \in 1..Chn!LastOne /\ IntSize \in 1..IntSize
    BY <1>1
  <2>2. program \in {"message", "single"}
    BY <1>1
  <2> QED
    BY <1>3, <2>1, <2>2 DEF PipeTypes
<1>5. PipeFlow
  <2>1. TakenBytes = 0 /\ WrittenBytes = 0
    BY <1>1, <1>2 DEF TakenBytes, WrittenBytes
  <2> QED
    BY <1>2, <2>1 DEF PipeFlow, Behind
<1>6. PipeGot
  BY <1>1, <1>2 DEF PipeGot
<1>7. PipePrinted
  <2>1. Len(printed) * IntSize = 0
    BY <1>1, <1>2
  <2>2. Flat(printed) = <<>>
    BY <1>2, FlatEmpty
  <2>3. \A j \in 1..Len(printed) : printed[j] = Chn!Message(j)
    BY <1>2
  <2> QED
    BY <1>2, <1>3, <2>1, <2>2, <2>3 DEF PipePrinted
<1>8. PipeParent
  BY <1>1, <1>2 DEF PipeParent
<1> QED
  BY <1>4, <1>5, <1>6, <1>7, <1>8 DEF PipeIInv

\* The child has a message behind it, or lost the parent: what it has written grows as it should.
LEMMA PipeSent ==
  ASSUME Chn!PipeAssumption, PipeTypes, pchild = "write", Chn!Sent, UNCHANGED program
  PROVE  /\ pchild' \in {"write", "ended"} /\ sending' \in 1..Chn!LastOne /\ left' \in 1..IntSize
         /\ WrittenBytes' = WrittenBytes + left
<1>1. Chn!LastOne \in Nat \ {0} /\ IntSize \in Nat \ {0} /\ Chn!LastOne' = Chn!LastOne
  BY LastOneIs DEF Chn!PipeAssumption, Chn!LastOne
<1>2. WrittenBytes = (sending - 1) * IntSize + IntSize - left /\ sending \in 1..Chn!LastOne /\ left \in 1..IntSize
  BY DEF WrittenBytes, PipeTypes
<1>3. CASE sending = Chn!LastOne
  <2>1. pchild' = "ended" /\ UNCHANGED <<sending, left>>
    BY <1>3 DEF Chn!Sent
  <2>2. WrittenBytes' = Chn!LastOne * IntSize
    BY <1>1, <2>1 DEF WrittenBytes
  <2> QED
    BY <1>1, <1>2, <1>3, <2>1, <2>2
<1>4. CASE sending # Chn!LastOne
  <2>1. pchild' = "write" /\ sending' = sending + 1 /\ left' = IntSize
    BY <1>4 DEF Chn!Sent
  <2>2. WrittenBytes' = ((sending + 1) - 1) * IntSize + IntSize - IntSize
    BY <2>1 DEF WrittenBytes
  <2> QED
    BY <1>1, <1>2, <1>4, <2>1, <2>2
<1> QED
  BY <1>3, <1>4

LEMMA PipeWrites ==
  ASSUME Chn!PipeAssumption, PipeIInv, NEW n \in 1..IntSize, Chn!Write(n)
  PROVE  PipeIInv'
<1>1. Chn!LastOne \in Nat \ {0} /\ IntSize \in Nat \ {0} /\ Chn!LastOne' = Chn!LastOne
  BY LastOneIs DEF Chn!PipeAssumption, Chn!LastOne, Chn!Write
<1>2. /\ pchild = "write" /\ parent # "killed" /\ n <= left /\ stream' = stream \o Chn!Piece(n)
      /\ UNCHANGED <<program, parent, got, printed, unexpected>>
  BY DEF Chn!Write
<1>3. sending \in 1..Chn!LastOne /\ left \in 1..IntSize /\ stream \in Seq(Bytes) /\ PipeTypes
  BY DEF PipeIInv, PipeTypes
<1>4. /\ Chn!Message(sending) \in Seq(Bytes) /\ Len(Chn!Message(sending)) = IntSize
      /\ \A b \in 1..IntSize : Chn!Message(sending)[b] = Byte(sending, b)
  BY <1>1, <1>3, MessageRule
<1>5. /\ Chn!Piece(n) \in Seq(Bytes) /\ Len(Chn!Piece(n)) = n
      /\ \A i \in 1..n : Chn!Piece(n)[i] = Byte(sending, IntSize - left + i)
  <2>1. Chn!Piece(n) = SubSeq(Chn!Message(sending), IntSize - left + 1, IntSize - left + n)
    BY DEF Chn!Piece
  <2> QED
    BY <1>1, <1>2, <1>3, <1>4, <2>1
<1>6. /\ pchild' \in {"write", "ended"} /\ sending' \in 1..Chn!LastOne /\ left' \in 1..IntSize
      /\ WrittenBytes' = WrittenBytes + n
  <2>1. CASE n = left
    <3>1. Chn!Sent
      BY <2>1 DEF Chn!Write
    <3> QED
      BY <1>2, <1>3, <2>1, <3>1, PipeSent
  <2>2. CASE n # left
    <3>1. left' = left - n /\ UNCHANGED <<pchild, sending>>
      BY <2>2 DEF Chn!Write
    <3>2. WrittenBytes' = (sending - 1) * IntSize + IntSize - (left - n)
      BY <1>2, <3>1 DEF WrittenBytes
    <3>3. WrittenBytes = (sending - 1) * IntSize + IntSize - left
      BY <1>2 DEF WrittenBytes
    <3> QED
      BY <1>1, <1>2, <1>3, <2>2, <3>1, <3>2, <3>3
  <2> QED
    BY <2>1, <2>2
<1>7. /\ stream' \in Seq(Bytes) /\ Len(stream') = Len(stream) + n
      /\ \A i \in 1..Len(stream) : stream'[i] = stream[i]
      /\ \A i \in 1..n : stream'[Len(stream) + i] = Byte(sending, IntSize - left + i)
  <2>1. /\ stream' \in Seq(Bytes) /\ Len(stream') = Len(stream) + Len(Chn!Piece(n))
        /\ \A i \in 1..Len(stream) : stream'[i] = stream[i]
    BY <1>2, <1>3, <1>5, JoinRule
  <2>2. \A i \in 1..Len(Chn!Piece(n)) : stream'[Len(stream) + i] = Chn!Piece(n)[i]
    BY <1>2, <1>3, <1>5, JoinRule
  <2> QED
    BY <1>5, <2>1, <2>2
<1>8. Behind(stream, TakenBytes) /\ Len(stream) = WrittenBytes - TakenBytes
  BY <1>2 DEF PipeIInv, PipeFlow
<1>9. TakenBytes' = TakenBytes /\ TakenBytes \in Nat /\ WrittenBytes = (sending - 1) * IntSize + IntSize - left
  <2>1. Len(printed) \in Nat /\ Len(got) \in Nat
    BY <1>3 DEF PipeTypes
  <2>2. Len(printed) * IntSize \in Nat
    BY <1>1, <2>1
  <2>3. TakenBytes' = TakenBytes /\ TakenBytes \in Nat
    BY <1>2, <2>1, <2>2 DEF TakenBytes
  <2>4. WrittenBytes = (sending - 1) * IntSize + IntSize - left
    BY <1>2 DEF WrittenBytes
  <2> QED
    BY <2>3, <2>4
<1>10. WrittenBytes \in Int /\ Len(stream) \in Nat
  BY <1>1, <1>3, <1>9
<1>11. Behind(stream, TakenBytes)'
  <2> SUFFICES ASSUME NEW i \in 1..Len(stream')
               PROVE  \E j \in 1..Chn!LastOne, b \in 1..IntSize :
                        stream'[i] = Byte(j, b) /\ (j - 1) * IntSize + b = TakenBytes + i
    BY <1>1, <1>2, <1>9 DEF Behind, Byte
  <2>1. CASE i <= Len(stream)
    <3>1. i \in 1..Len(stream) /\ stream'[i] = stream[i]
      BY <1>7, <1>10, <2>1
    <3>2. \E j \in 1..Chn!LastOne, b \in 1..IntSize :
            stream[i] = Byte(j, b) /\ (j - 1) * IntSize + b = TakenBytes + i
      BY <1>8, <3>1 DEF Behind
    <3> QED
      BY <3>1, <3>2, Zenon
  <2>2. CASE i > Len(stream)
    <3>1. i - Len(stream) \in 1..n /\ i = Len(stream) + (i - Len(stream))
      BY <1>7, <1>10, <2>2
    <3>2. stream'[i] = Byte(sending, IntSize - left + (i - Len(stream)))
      BY <1>7, <3>1
    <3>3. IntSize - left + (i - Len(stream)) \in 1..IntSize
      BY <1>1, <1>2, <1>3, <3>1
    <3>4. (sending - 1) * IntSize + (IntSize - left + (i - Len(stream))) = TakenBytes + i
      BY <1>1, <1>3, <1>8, <1>9, <1>10, <3>1
    <3> QED
      BY <1>3, <3>2, <3>3, <3>4
  <2> QED
    BY <1>10, <2>1, <2>2
<1>12. PipeFlow'
  <2>1. Len(stream') = WrittenBytes' - TakenBytes'
    BY <1>6, <1>7, <1>8, <1>9, <1>10
  <2> QED
    BY <1>11, <2>1 DEF PipeFlow
<1>13. PipeTypes'
  BY <1>1, <1>2, <1>3, <1>6, <1>7 DEF PipeTypes
<1>14. PipeGot'
  BY <1>1, <1>2 DEF PipeIInv, PipeGot, Byte
<1>15. PipePrinted'
  BY <1>1, <1>2 DEF PipeIInv, PipePrinted, Chn!Message
<1>16. PipeParent'
  BY <1>1, <1>2, <1>3 DEF PipeIInv, PipeParent, PipeTypes
<1> QED
  BY <1>12, <1>13, <1>14, <1>15, <1>16 DEF PipeIInv

\* What read gives goes on with the message the parent is in.
LEMMA PipeTaken ==
  ASSUME Chn!PipeAssumption, PipeIInv, NEW n \in 1..IntSize, Chn!Read(n)
  PROVE  LET all1 == got \o SubSeq(stream, 1, n)
         IN  /\ all1 \in Seq(Bytes) /\ Len(all1) = Len(got) + n
             /\ \A i \in 1..(Len(got) + n) : all1[i] = Byte(Len(printed) + 1, i)
<1>1. Chn!LastOne \in Nat \ {0} /\ IntSize \in Nat \ {0}
  BY LastOneIs DEF Chn!PipeAssumption
<1>2. /\ parent = "read" /\ n <= Len(stream) /\ n <= IntSize - Len(got)
  BY DEF Chn!Read
<1>3. stream \in Seq(Bytes) /\ got \in Seq(Bytes) /\ Len(printed) \in Nat /\ Len(got) \in Nat /\ Len(stream) \in Nat
  BY DEF PipeIInv, PipeTypes
<1>4. Behind(stream, TakenBytes)
  <2>1. stream # <<>>
    BY <1>2, <1>3
  <2> QED
    BY <1>2, <2>1 DEF PipeIInv, PipeFlow
<1> DEFINE a == SubSeq(stream, 1, n)
           all1 == got \o a
<1>5. a \in Seq(Bytes) /\ Len(a) = n /\ \A i \in 1..n : a[i] = stream[i]
  <2>1. n \in 0..Len(stream)
    BY <1>1, <1>2, <1>3
  <2> QED
    BY <1>3, <2>1, FirstRule
<1>6. ASSUME NEW i \in 1..n PROVE a[i] = Byte(Len(printed) + 1, Len(got) + i)
  <2>1. i \in 1..Len(stream)
    BY <1>1, <1>2, <1>3
  <2>2. PICK j \in 1..Chn!LastOne, b \in 1..IntSize :
          stream[i] = Byte(j, b) /\ (j - 1) * IntSize + b = TakenBytes + i
    BY <1>4, <2>1 DEF Behind
  <2>3. Len(got) + i \in 1..IntSize
    BY <1>1, <1>2, <1>3
  <2>4. j - 1 \in Nat /\ Len(printed) \in Nat
    BY <1>1, <1>3
  <2>5. TakenBytes + i = Len(printed) * IntSize + (Len(got) + i)
    <3>1. Len(printed) * IntSize \in Nat
      BY <1>1, <1>3
    <3> QED
      BY <1>1, <1>3, <3>1 DEF TakenBytes
  <2>6. (j - 1) * IntSize + b = Len(printed) * IntSize + (Len(got) + i)
    BY <2>2, <2>5
  <2>7. j - 1 = Len(printed) /\ b = Len(got) + i
    <3>1. \A k \in Nat : k * IntSize + b = Len(printed) * IntSize + (Len(got) + i) =>
                            k = Len(printed) /\ b = Len(got) + i
      BY <1>1, <2>3, <2>4, OnePlace
    <3> QED
      BY <2>4, <2>6, <3>1
  <2>8. j = Len(printed) + 1
    BY <1>1, <1>3, <2>7
  <2> QED
    BY <1>5, <2>2, <2>7, <2>8
<1> HIDE DEF a
<1>7. all1 \in Seq(Bytes) /\ Len(all1) = Len(got) + n /\ \A i \in 1..Len(got) : all1[i] = got[i]
  BY <1>3, <1>5, JoinRule
<1>8. \A i \in 1..Len(a) : all1[Len(got) + i] = a[i]
  BY <1>3, <1>5, JoinRule
<1> HIDE DEF all1
<1>9. ASSUME NEW i \in 1..(Len(got) + n) PROVE all1[i] = Byte(Len(printed) + 1, i)
  <2>1. CASE i <= Len(got)
    <3>1. i \in 1..Len(got)
      BY <1>3, <2>1
    <3> QED
      BY <1>7, <3>1 DEF PipeIInv, PipeGot
  <2>2. CASE i > Len(got)
    <3>1. i - Len(got) \in 1..n /\ i = Len(got) + (i - Len(got))
      BY <1>1, <1>3, <2>2
    <3>2. all1[Len(got) + (i - Len(got))] = a[i - Len(got)]
      BY <1>5, <1>8, <3>1
    <3>3. a[i - Len(got)] = Byte(Len(printed) + 1, Len(got) + (i - Len(got)))
      BY <1>6, <3>1
    <3> QED
      BY <3>1, <3>2, <3>3
  <2>3. i <= Len(got) \/ i > Len(got)
    BY <1>1, <1>3
  <2> QED
    BY <2>1, <2>2, <2>3
<1> QED
  BY <1>7, <1>9 DEF all1, a

LEMMA PipeReads ==
  ASSUME Chn!PipeAssumption, PipeIInv, NEW n \in 1..IntSize, Chn!Read(n)
  PROVE  PipeIInv'
<1>1. /\ Chn!LastOne \in Nat \ {0} /\ IntSize \in Nat \ {0} /\ Chn!LastOne' = Chn!LastOne
      /\ UNCHANGED program
  BY LastOneIs DEF Chn!PipeAssumption, Chn!LastOne, Chn!Read
<1>2. /\ parent = "read" /\ n <= Len(stream) /\ n <= IntSize - Len(got)
      /\ stream' = SubSeq(stream, n + 1, Len(stream))
      /\ UNCHANGED <<program, pchild, sending, left, unexpected>>
  BY DEF Chn!Read
<1>3. /\ stream \in Seq(Bytes) /\ got \in Seq(Bytes) /\ printed \in Seq(Seq(Bytes))
      /\ Len(printed) \in Nat /\ Len(got) \in Nat /\ Len(stream) \in Nat /\ PipeTypes
  BY DEF PipeIInv, PipeTypes
<1> DEFINE all1 == got \o SubSeq(stream, 1, n)
<1>4. /\ all1 \in Seq(Bytes) /\ Len(all1) = Len(got) + n
      /\ \A i \in 1..(Len(got) + n) : all1[i] = Byte(Len(printed) + 1, i)
  BY PipeTaken
<1>5. IF Chn!Full(all1)
      THEN /\ printed' = Append(printed, all1) /\ got' = <<>>
           /\ parent' = IF program = "single" \/ all1[1][3] THEN "wait" ELSE "read"
      ELSE got' = all1 /\ UNCHANGED <<printed, parent>>
  BY DEF Chn!Read
<1> HIDE DEF all1
<1>6. Len(stream) = WrittenBytes - TakenBytes /\ Behind(stream, TakenBytes)
  <2>1. stream # <<>>
    BY <1>2, <1>3
  <2> QED
    BY <1>2, <2>1 DEF PipeIInv, PipeFlow
<1>7. WrittenBytes' = WrittenBytes /\ WrittenBytes \in Int /\ WrittenBytes <= Chn!LastOne * IntSize
      /\ (pchild = "write" => WrittenBytes < Chn!LastOne * IntSize)
  <2>1. sending \in 1..Chn!LastOne /\ left \in 1..IntSize
    BY <1>3 DEF PipeTypes
  <2>2. sending - 1 \in Nat /\ sending - 1 < Chn!LastOne
    BY <1>1, <2>1
  <2>3. /\ (sending - 1) * IntSize + IntSize <= Chn!LastOne * IntSize
        /\ (sending - 1) * IntSize \in Nat /\ Chn!LastOne * IntSize \in Nat
    BY <1>1, <2>2, Products, ProductsGrow
  <2>4. WrittenBytes' = WrittenBytes
    BY <1>1, <1>2 DEF WrittenBytes
  <2>5. CASE pchild = "ended"
    BY <2>3, <2>4, <2>5 DEF WrittenBytes
  <2>6. CASE pchild # "ended"
    <3>1. WrittenBytes = (sending - 1) * IntSize + IntSize - left
      BY <2>6 DEF WrittenBytes
    <3> QED
      BY <1>1, <2>1, <2>3, <2>4, <3>1
  <2> QED
    BY <2>5, <2>6
<1>8. Len(printed) * IntSize \in Nat /\ TakenBytes = Len(printed) * IntSize + Len(got)
  BY <1>1, <1>3 DEF TakenBytes
<1>9. Len(got) \in Nat /\ n \in Nat /\ Len(printed) \in Nat /\ IntSize \in Nat
  BY <1>1, <1>3
<1>10. /\ stream' \in Seq(Bytes) /\ Len(stream') = Len(stream) - n
       /\ \A i \in 1..(Len(stream) - n) : stream'[i] = stream[n + i]
  <2>1. n \in 0..Len(stream)
    BY <1>1, <1>2, <1>3
  <2> QED
    BY <1>2, <1>3, <2>1, AfterRule
<1>11. /\ got' \in Seq(Bytes) /\ printed' \in Seq(Seq(Bytes)) /\ PipeGot' /\ PipePrinted'
       /\ parent' \in {"read", "wait"} /\ TakenBytes' = TakenBytes + n /\ Len(printed') \in Nat
       /\ PipeParent'
  <2>1. CASE Chn!Full(all1)
    <3>0. Len(got) + n = IntSize
      BY <1>4, <2>1 DEF Chn!Full
    <3>1. /\ printed' = Append(printed, all1) /\ got' = <<>>
          /\ parent' = IF program = "single" \/ all1[1][3] THEN "wait" ELSE "read"
      BY <1>5, <2>1
    <3>2. printed' \in Seq(Seq(Bytes)) /\ Len(printed') = Len(printed) + 1
          /\ (\A j \in 1..Len(printed) : printed'[j] = printed[j]) /\ printed'[Len(printed) + 1] = all1
      BY <1>3, <1>4, <3>1, AppendRule
    <3>3. all1 = Chn!Message(Len(printed) + 1)
      <4>1. /\ Chn!Message(Len(printed) + 1) \in Seq(Bytes) /\ Len(Chn!Message(Len(printed) + 1)) = IntSize
            /\ \A b \in 1..IntSize : Chn!Message(Len(printed) + 1)[b] = Byte(Len(printed) + 1, b)
        BY <1>3, MessageRule
      <4>2. Len(all1) = IntSize /\ \A i \in 1..IntSize : all1[i] = Byte(Len(printed) + 1, i)
        BY <1>4, <3>0
      <4> QED
        BY <1>4, <4>1, <4>2, SameSeq
    <3>4. Flat(printed') \in Seq(Bytes) /\ Len(Flat(printed')) = Len(printed') * IntSize
      <4>1. Flat(printed') = IF printed = <<>> THEN all1 ELSE Flat(printed) \o all1
        BY <1>3, <1>4, <3>1, FlatAppend
      <4>2. Len(all1) = IntSize
        BY <1>4, <3>0
      <4>3. CASE printed = <<>>
        BY <1>1, <1>4, <3>2, <4>1, <4>2, <4>3
      <4>4. CASE printed # <<>>
        <5>1. Flat(printed) \in Seq(Bytes) /\ Len(Flat(printed)) = Len(printed) * IntSize
          BY DEF PipeIInv, PipePrinted
        <5>2. Flat(printed') \in Seq(Bytes) /\ Len(Flat(printed')) = Len(printed) * IntSize + IntSize
          BY <1>4, <4>1, <4>2, <4>4, <5>1, JoinRule
        <5> QED
          BY <1>1, <1>3, <3>2, <5>2
      <4> QED
        BY <4>3, <4>4
    <3>5. PipePrinted'
      <4>1. ASSUME NEW j \in 1..Len(printed') PROVE printed'[j] = Chn!Message(j)
        <5>1. j \in 1..Len(printed) \/ j = Len(printed) + 1
          BY <1>3, <3>2
        <5> QED
          BY <3>2, <3>3, <5>1 DEF PipeIInv, PipePrinted
      <4>2. \A j : Chn!Message(j)' = Chn!Message(j)
        BY <1>1 DEF Chn!Message
      <4> QED
        BY <3>4, <4>1, <4>2 DEF PipePrinted
    <3>6. PipeGot'
      <4>1. Len(got') = 0
        BY <3>1
      <4> QED
        BY <1>1, <4>1 DEF PipeGot
    <3>7. TakenBytes' = TakenBytes + n
      <4>1. TakenBytes' = (Len(printed) + 1) * IntSize + 0
        BY <3>1, <3>2 DEF TakenBytes
      <4>2. (Len(printed) + 1) * IntSize = Len(printed) * IntSize + IntSize
        BY <1>1, <1>3, Products
      <4> QED
        BY <1>8, <1>9, <3>0, <4>1, <4>2
    <3>8. all1[1][3] = (program = "message" /\ Len(printed) + 1 = Chn!LastOne)
      <4>1. all1[1] = Byte(Len(printed) + 1, 1)
        BY <1>1, <1>3, <1>4
      <4> QED
        BY <4>1 DEF Byte
    <3>9. Len(printed) < Chn!LastOne /\ ~unexpected
      BY <1>2 DEF PipeIInv, PipeParent
    <3>10. parent' = IF Len(printed) + 1 = Chn!LastOne THEN "wait" ELSE "read"
      <4>1. program = "single" => Chn!LastOne = 1
        BY DEF Chn!LastOne
      <4>2. program \in {"message", "single"}
        BY <1>3 DEF PipeTypes
      <4>3. program = "single" => Len(printed) + 1 = Chn!LastOne
        BY <1>3, <3>9, <4>1
      <4> QED
        BY <3>1, <3>8, <4>2, <4>3
    <3>11. ASSUME Len(printed) + 1 = Chn!LastOne PROVE pchild # "write"
      <4>1. TakenBytes + n <= WrittenBytes
        BY <1>2, <1>3, <1>6, <1>7, <1>8
      <4>2. TakenBytes + n = (Len(printed) + 1) * IntSize
        <5>1. (Len(printed) + 1) * IntSize = Len(printed) * IntSize + IntSize
          BY <1>1, <1>3, Products
        <5> QED
          BY <1>8, <1>9, <3>0, <5>1
      <4>3. Chn!LastOne * IntSize = TakenBytes + n
        BY <3>11, <4>2
      <4>4. Chn!LastOne * IntSize \in Nat
        BY <1>1, Products
      <4> QED
        BY <1>7, <4>1, <4>3, <4>4
    <3>12. PipeParent'
      BY <1>1, <1>2, <1>3, <3>2, <3>9, <3>10, <3>11 DEF PipeParent
    <3>13. got' \in Seq(Bytes)
      BY <3>1
    <3> QED
      BY <3>2, <3>5, <3>6, <3>7, <3>10, <3>12, <3>13
  <2>2. CASE ~Chn!Full(all1)
    <3>0. Len(got) + n # IntSize
      BY <1>4, <2>2 DEF Chn!Full
    <3>1. got' = all1 /\ UNCHANGED <<printed, parent>>
      BY <1>5, <2>2
    <3>2. PipeGot'
      <4>1. Len(got') < IntSize
        <5>1. Len(got) + n < IntSize
          BY <1>2, <1>9, <3>0
        <5> QED
          BY <1>4, <3>1, <5>1
      <4>2. \A i \in 1..Len(got') : got'[i] = Byte(Len(printed) + 1, i)
        BY <1>4, <3>1
      <4> QED
        BY <1>1, <3>1, <4>1, <4>2 DEF PipeGot, Byte
    <3>3. PipePrinted'
      BY <1>1, <3>1 DEF PipeIInv, PipePrinted, Chn!Message
    <3>5. PipeParent'
      BY <1>1, <1>2, <3>1 DEF PipeIInv, PipeParent
    <3>4. TakenBytes' = TakenBytes + n
      <4>1. TakenBytes' = Len(printed) * IntSize + (Len(got) + n)
        BY <1>4, <3>1 DEF TakenBytes
      <4> QED
        BY <1>1, <1>3, <1>8, <4>1
    <3> QED
      BY <1>2, <1>3, <1>4, <3>1, <3>2, <3>3, <3>4, <3>5
  <2> QED
    BY <2>1, <2>2
<1>12. Behind(stream, TakenBytes)'
  <2> SUFFICES ASSUME NEW i \in 1..Len(stream')
               PROVE  \E j \in 1..Chn!LastOne, b \in 1..IntSize :
                        stream'[i] = Byte(j, b) /\ (j - 1) * IntSize + b = (TakenBytes + n) + i
    BY <1>1, <1>11 DEF Behind, Byte
  <2>1. n + i \in 1..Len(stream) /\ stream'[i] = stream[n + i]
    BY <1>1, <1>2, <1>3, <1>10
  <2>2. TakenBytes + (n + i) = (TakenBytes + n) + i
    BY <1>1, <1>3, <1>8, <1>10
  <2> QED
    BY <1>6, <2>1, <2>2 DEF Behind
<1>13. PipeFlow'
  <2>1. Len(stream') = WrittenBytes' - TakenBytes'
    BY <1>1, <1>3, <1>6, <1>7, <1>8, <1>10, <1>11
  <2> QED
    BY <1>12, <2>1 DEF PipeFlow
<1>14. PipeTypes'
  BY <1>1, <1>2, <1>3, <1>10, <1>11 DEF PipeTypes
<1> QED
  BY <1>11, <1>13, <1>14 DEF PipeIInv

LEMMA PipeStops ==
  ASSUME Chn!PipeAssumption, PipeIInv, Chn!EndOfStream
  PROVE  PipeIInv'
<1>1. /\ Chn!LastOne \in Nat \ {0} /\ IntSize \in Nat \ {0} /\ Chn!LastOne' = Chn!LastOne
  BY LastOneIs DEF Chn!PipeAssumption, Chn!LastOne, Chn!EndOfStream
<1>2. /\ parent = "read" /\ stream = <<>> /\ pchild # "write" /\ got' = <<>>
      /\ IF program = "single" THEN parent' = "wait" /\ unexpected' = TRUE
         ELSE UNCHANGED <<parent, unexpected>>
      /\ UNCHANGED <<program, pchild, sending, left, stream, printed>>
  BY DEF Chn!EndOfStream
<1>3. /\ Len(printed) \in Nat /\ Len(got) \in Nat /\ PipeTypes /\ printed \in Seq(Seq(Bytes))
  BY DEF PipeIInv, PipeTypes
<1>4. Len(printed) < Chn!LastOne /\ ~unexpected /\ Len(got) < IntSize
  BY <1>2 DEF PipeIInv, PipeParent, PipeGot
<1>5. pchild = "killed"
  <2>1. SUFFICES ASSUME pchild = "ended" PROVE FALSE
    BY <1>2, <1>3 DEF PipeTypes
  <2>2. 0 = Chn!LastOne * IntSize - (Len(printed) * IntSize + Len(got))
    BY <1>2, <2>1 DEF PipeIInv, PipeFlow, WrittenBytes, TakenBytes
  <2>3. /\ Len(printed) * IntSize + IntSize <= Chn!LastOne * IntSize
        /\ Len(printed) * IntSize \in Nat /\ Chn!LastOne * IntSize \in Nat
    BY <1>1, <1>3, <1>4, Products, ProductsGrow
  <2> QED
    BY <1>1, <1>3, <1>4, <2>2, <2>3
<1>6. PipeTypes'
  BY <1>1, <1>2, <1>3 DEF PipeTypes
<1>7. PipeFlow'
  BY <1>2, <1>5 DEF PipeFlow
<1>8. PipeGot'
  <2>1. Len(got') = 0
    BY <1>2
  <2> QED
    BY <1>1, <2>1 DEF PipeGot
<1>9. PipePrinted'
  BY <1>1, <1>2 DEF PipeIInv, PipePrinted, Chn!Message
<1>10. PipeParent'
  <2>1. program = "single" => printed = <<>>
    <3>1. program = "single" => Chn!LastOne = 1
      BY DEF Chn!LastOne
    <3> QED
      BY <1>3, <1>4, <3>1
  <2> QED
    BY <1>1, <1>2, <1>4, <1>5, <2>1 DEF PipeParent
<1> QED
  BY <1>6, <1>7, <1>8, <1>9, <1>10 DEF PipeIInv

LEMMA PipeOthers ==
  ASSUME Chn!PipeAssumption, PipeIInv,
         Chn!WriteFails \/ Chn!Wait \/ Chn!KillChild \/ Chn!KillParent
  PROVE  PipeIInv'
<1>1. /\ UNCHANGED <<program, stream, got, printed, unexpected>> /\ PipeTypes
      /\ Chn!LastOne' = Chn!LastOne
  BY DEF Chn!WriteFails, Chn!Wait, Chn!KillChild, Chn!KillParent, PipeIInv, Chn!LastOne
<1>2. PipeGot' /\ PipePrinted'
  BY <1>1 DEF PipeIInv, PipeGot, PipePrinted, Byte, Chn!Message
<1>3. CASE Chn!WriteFails
  <2>1. pchild = "write" /\ parent = "killed" /\ UNCHANGED parent /\ Chn!Sent
    BY <1>3 DEF Chn!WriteFails, PipeIInv, PipeParent
  <2>2. pchild' \in {"write", "ended"} /\ sending' \in 1..Chn!LastOne /\ left' \in 1..IntSize
    BY <1>1, <2>1, PipeSent
  <2>3. PipeTypes'
    BY <1>1, <2>1, <2>2 DEF PipeTypes
  <2>4. PipeFlow' /\ PipeParent'
    BY <2>1 DEF PipeFlow, PipeParent
  <2> QED
    BY <1>2, <2>3, <2>4 DEF PipeIInv
<1>4. CASE Chn!Wait
  <2>1. parent = "wait" /\ parent' = "ended" /\ UNCHANGED <<pchild, sending, left>>
    BY <1>4 DEF Chn!Wait
  <2>2. PipeTypes'
    BY <1>1, <2>1 DEF PipeTypes
  <2>3. PipeFlow'
    BY <1>1, <2>1 DEF PipeIInv, PipeFlow, Behind, Byte, TakenBytes, WrittenBytes
  <2>4. PipeParent'
    BY <1>1, <2>1 DEF PipeIInv, PipeParent
  <2> QED
    BY <1>2, <2>2, <2>3, <2>4 DEF PipeIInv
<1>5. CASE Chn!KillChild
  <2>1. pchild = "write" /\ pchild' = "killed" /\ UNCHANGED <<parent, sending, left>>
    BY <1>5 DEF Chn!KillChild
  <2>2. PipeTypes'
    BY <1>1, <2>1 DEF PipeTypes
  <2>3. PipeFlow'
    BY <1>1, <2>1 DEF PipeIInv, PipeFlow, Behind, Byte, TakenBytes, WrittenBytes
  <2>4. PipeParent'
    BY <1>1, <2>1 DEF PipeIInv, PipeParent
  <2> QED
    BY <1>2, <2>2, <2>3, <2>4 DEF PipeIInv
<1>6. CASE Chn!KillParent
  <2>1. parent' = "killed" /\ UNCHANGED <<pchild, sending, left>>
    BY <1>6 DEF Chn!KillParent
  <2>2. PipeTypes'
    BY <1>1, <2>1 DEF PipeTypes
  <2>3. PipeFlow' /\ PipeParent'
    BY <2>1 DEF PipeFlow, PipeParent
  <2> QED
    BY <1>2, <2>2, <2>3 DEF PipeIInv
<1> QED
  BY <1>3, <1>4, <1>5, <1>6

LEMMA PipeStepInv == ASSUME Chn!PipeAssumption, PipeIInv, [Chn!PipeNext]_(Chn!pipevars) PROVE PipeIInv'
<1>1. CASE UNCHANGED Chn!pipevars
  <2>1. /\ UNCHANGED <<program, pchild, sending, left, stream, parent, got, printed, unexpected>>
        /\ Chn!LastOne' = Chn!LastOne
    BY <1>1 DEF Chn!pipevars, Chn!LastOne
  <2>2. PipeTypes' /\ PipeGot' /\ PipeParent'
    BY <2>1 DEF PipeIInv, PipeTypes, PipeGot, PipeParent, Byte
  <2>3. PipeFlow'
    BY <2>1 DEF PipeIInv, PipeFlow, Behind, Byte, TakenBytes, WrittenBytes
  <2>4. PipePrinted'
    BY <2>1 DEF PipeIInv, PipePrinted, Chn!Message
  <2> QED
    BY <2>2, <2>3, <2>4 DEF PipeIInv
<1> QED
  BY <1>1, PipeWrites, PipeReads, PipeStops, PipeOthers DEF Chn!PipeNext

LEMMA PipeGood == ASSUME Chn!PipeAssumption, PipeIInv PROVE Chn!Framed
<1>1. Chn!LastOne \in Nat \ {0} /\ IntSize \in Nat \ {0}
  BY LastOneIs DEF Chn!PipeAssumption
<1>2. /\ Len(printed) \in Nat /\ Len(got) \in Nat /\ Len(stream) \in Nat /\ DOMAIN printed = 1..Len(printed)
      /\ stream \in Seq(Bytes) /\ got \in Seq(Bytes)
  BY DEF PipeIInv, PipeTypes
<1>3. \A j \in DOMAIN printed : printed[j] = Chn!Message(j)
  BY <1>2 DEF PipeIInv, PipePrinted
<1>4. parent \in {"wait", "ended"} =>
        IF unexpected THEN program = "single" /\ pchild = "killed" /\ printed = <<>>
        ELSE Len(printed) = Chn!LastOne
  BY DEF PipeIInv, PipeParent
<1>5. ASSUME pchild = "ended", parent \in {"read", "wait", "ended"}
      PROVE  Len(Chn!FlattenSeq(printed) \o got \o stream) = Chn!LastOne * IntSize
  <2>1. Len(stream) = Chn!LastOne * IntSize - (Len(printed) * IntSize + Len(got))
    BY <1>5 DEF PipeIInv, PipeFlow, TakenBytes, WrittenBytes
  <2>2. Flat(printed) \in Seq(Bytes) /\ Len(Flat(printed)) = Len(printed) * IntSize
    BY DEF PipeIInv, PipePrinted
  <2>3. Flat(printed) \o got \in Seq(Bytes) /\ Len(Flat(printed) \o got) = Len(printed) * IntSize + Len(got)
    BY <1>2, <2>2, JoinRule
  <2>4. Len((Flat(printed) \o got) \o stream) = (Len(printed) * IntSize + Len(got)) + Len(stream)
    BY <1>2, <2>3, JoinRule
  <2>5. Chn!FlattenSeq(printed) = Flat(printed)
    BY ChannelsFlat
  <2>6. Len(printed) * IntSize \in Nat /\ Chn!LastOne * IntSize \in Nat
    BY <1>1, <1>2
  <2> QED
    BY <1>2, <2>1, <2>4, <2>5, <2>6
<1> QED
  BY <1>3, <1>4, <1>5 DEF Chn!Framed

\* The pipe, for any number and size of messages and any capacity of the medium: what is printed are
\* the messages sent, whole and in order, however write and read cut them and whoever is killed.
THEOREM MessagesFramed == ASSUME Chn!PipeAssumption PROVE Chn!PipeSpec => []Chn!Framed
<1>1. Chn!PipeInit => PipeIInv
  BY PipeInitInv
<1>2. PipeIInv /\ [Chn!PipeNext]_(Chn!pipevars) => PipeIInv'
  BY PipeStepInv
<1>3. PipeIInv => Chn!Framed
  BY PipeGood
<1> QED
  BY <1>1, <1>2, <1>3, PTL DEF Chn!PipeSpec

(***************************************************************************)
(* The FIFO.  The books: what the lines and the FIFO hold are the halves   *)
(* written and not given up, and each was written before the next.         *)
(***************************************************************************)
MessageHalves == FifoClients \X {1, 2}
FifoOut == Flat(lines) \o data
InOrder(s) == \A i, j \in 1..Len(s) : i < j => Chn!Precedes(s[i], s[j])

FifoBooks ==
  /\ data \in Seq(MessageHalves) /\ lost \subseteq MessageHalves
  /\ lines \in Seq(Seq(MessageHalves)) /\ Flat(lines) \in Seq(MessageHalves)
  /\ fwritten \in Seq(FifoClients) /\ Once(fwritten)
  /\ \A h \in lost : Holds(fwritten, h[1])
  /\ \A h \in MessageHalves : Holds(FifoOut, h) <=> Holds(fwritten, h[1]) /\ h \notin lost
  /\ InOrder(FifoOut)

FifoServers == {"open", "waiting", "loop", "read", "zero", "close", "unlink", "ended"}
ClientStates == {"away", "open", "write", "close", "done", "refused", "killed"}

FifoLinks ==
  /\ fclient \in [FifoClients -> ClientStates]
  /\ \A c \in FifoClients : Holds(fwritten, c) => fclient[c] \in {"close", "done"}

FifoTypes ==
  /\ server \in FifoServers
  /\ reading \in BOOLEAN /\ factive \in BOOLEAN /\ linked \in BOOLEAN /\ failed \in BOOLEAN
  /\ fsignals \in Nat

AllLate(s) == \A i \in 1..Len(s) : s[i][1] \in flate

FifoLate ==
  /\ server = "zero" \/ (~reading /\ factive) => AllLate(data)
  /\ factive => \A h \in lost : h[1] \in flate

Stopping == {"close", "unlink", "ended"}
LastExit == Len(lines) # 0 /\ Chn!IsExitLine(lines[Len(lines)])

FifoStops ==
  /\ server \in {"open", "unlink", "ended"} => ~reading
  /\ server = "close" => ~factive
  /\ ~factive \/ server \in Stopping => fsignals > 0 \/ failed \/ LastExit
  /\ LastExit => server \in Stopping
  /\ \A i \in 1..(Len(lines) - 1) : ~Chn!IsExitLine(lines[i])

FifoIInv == FifoBooks /\ FifoLinks /\ FifoTypes /\ FifoLate /\ FifoStops

LEMMA FifoOutRule ==
  ASSUME FifoBooks
  PROVE  /\ Len(Flat(lines)) \in Nat /\ Len(data) \in Nat
         /\ FifoOut \in Seq(MessageHalves) /\ Len(FifoOut) = Len(Flat(lines)) + Len(data)
         /\ \A i \in 1..Len(Flat(lines)) : FifoOut[i] = Flat(lines)[i]
         /\ \A i \in 1..Len(data) : FifoOut[Len(Flat(lines)) + i] = data[i]
         /\ \A i \in 1..Len(FifoOut) :
              i <= Len(Flat(lines)) \/ (i - Len(Flat(lines)) \in 1..Len(data) /\ FifoOut[i] = data[i - Len(Flat(lines))])
<1>1. data \in Seq(MessageHalves) /\ Flat(lines) \in Seq(MessageHalves)
  BY DEF FifoBooks
<1>2. Len(Flat(lines)) \in Nat /\ Len(data) \in Nat
  BY <1>1
<1>3. FifoOut \in Seq(MessageHalves) /\ Len(FifoOut) = Len(Flat(lines)) + Len(data)
  BY <1>1, JoinRule DEF FifoOut
<1>4. \A i \in 1..Len(Flat(lines)) : FifoOut[i] = Flat(lines)[i]
  BY <1>1, JoinRule DEF FifoOut
<1>5. \A i \in 1..Len(data) : FifoOut[Len(Flat(lines)) + i] = data[i]
  BY <1>1, JoinRule DEF FifoOut
<1>6. ASSUME NEW i \in 1..Len(FifoOut), ~(i <= Len(Flat(lines)))
      PROVE  i - Len(Flat(lines)) \in 1..Len(data) /\ FifoOut[i] = data[i - Len(Flat(lines))]
  <2>1. i - Len(Flat(lines)) \in 1..Len(data) /\ i = Len(Flat(lines)) + (i - Len(Flat(lines)))
    BY <1>2, <1>3, <1>6
  <2>2. FifoOut[Len(Flat(lines)) + (i - Len(Flat(lines)))] = data[i - Len(Flat(lines))]
    BY <1>5, <2>1
  <2> QED
    BY <2>1, <2>2
<1> QED
  BY <1>2, <1>3, <1>4, <1>5, <1>6

\* No half is twice in what was written.
LEMMA PrecedesStrictly ==
  ASSUME FifoBooks, NEW h \in MessageHalves
  PROVE  ~Chn!Precedes(h, h)
<1>1. h[2] \in {1, 2} /\ ~(h[2] < h[2])
  BY DEF MessageHalves
<1>2. DOMAIN fwritten = 1..Len(fwritten)
  BY DEF FifoBooks
<1>3. \A m, n \in DOMAIN fwritten : fwritten[m] = h[1] /\ fwritten[n] = h[1] => m = n
  BY <1>2 DEF FifoBooks, Once
<1>4. \A m \in DOMAIN fwritten : ~(m < m)
  BY <1>2
<1> QED
  BY <1>1, <1>3, <1>4 DEF Chn!Precedes

LEMMA BooksQuiet ==
  ASSUME FifoBooks, UNCHANGED <<data, lines, fwritten, lost>>
  PROVE  FifoBooks' /\ (AllLate(data) /\ flate \subseteq flate' => AllLate(data)')
<1>1. FifoOut' = FifoOut
  BY DEF FifoOut
<1>2. FifoBooks'
  BY <1>1 DEF FifoBooks, InOrder, Chn!Precedes
<1> QED
  BY <1>2 DEF AllLate

\* What is in the FIFO stays, or is given up.
LEMMA BooksKept ==
  ASSUME FifoBooks, NEW keep, Chn!Kept(keep), UNCHANGED <<lines, fwritten>>
  PROVE  /\ FifoBooks'
         /\ keep => UNCHANGED <<data, lost>>
         /\ \/ UNCHANGED <<data, lost>>
            \/ data' = <<>> /\ \A h \in lost' : h \in lost \/ \E i \in 1..Len(data) : h = data[i]
<1>1. CASE UNCHANGED <<data, lost>>
  BY <1>1, BooksQuiet
<1>2. CASE data' = <<>> /\ lost' = lost \cup Chn!ToSet(data) /\ ~keep
  <2> DEFINE F == Flat(lines)
  <2>1. data \in Seq(MessageHalves) /\ F \in Seq(MessageHalves) /\ fwritten \in Seq(FifoClients)
    BY DEF FifoBooks
  <2>2. \A h : h \in lost' <=> h \in lost \/ Holds(data, h)
    BY <1>2, <2>1 DEF Chn!ToSet, Holds
  <2>3. FifoOut' = F
    <3>1. F \o <<>> = F
      BY <2>1
    <3> QED
      BY <1>2, <3>1 DEF FifoOut
  <2> HIDE DEF F
  <2>4. /\ Len(F) \in Nat /\ Len(data) \in Nat /\ FifoOut \in Seq(MessageHalves)
        /\ Len(FifoOut) = Len(F) + Len(data)
        /\ \A i \in 1..Len(F) : FifoOut[i] = F[i]
        /\ \A i \in 1..Len(data) : FifoOut[Len(F) + i] = data[i]
    BY FifoOutRule DEF F
  <2>5. \A i \in 1..Len(FifoOut) :
          i <= Len(F) \/ (i - Len(F) \in 1..Len(data) /\ FifoOut[i] = data[i - Len(F)])
    BY FifoOutRule DEF F
  <2>6. ASSUME NEW h \in MessageHalves PROVE Holds(F, h) <=> Holds(FifoOut, h) /\ ~Holds(data, h)
    <3>1. Holds(F, h) => Holds(FifoOut, h)
      BY <2>4 DEF Holds
    <3>2. ASSUME NEW i \in 1..Len(F), NEW k \in 1..Len(data), F[i] = h, data[k] = h PROVE FALSE
      <4>1. i \in 1..Len(FifoOut) /\ Len(F) + k \in 1..Len(FifoOut) /\ i < Len(F) + k
        BY <2>4
      <4>2. FifoOut[i] = h /\ FifoOut[Len(F) + k] = h
        BY <2>4, <3>2
      <4>3. Chn!Precedes(h, h)
        BY <4>1, <4>2 DEF FifoBooks, InOrder
      <4> QED
        BY <4>3, PrecedesStrictly
    <3>3. ASSUME NEW i \in 1..Len(FifoOut), FifoOut[i] = h, ~Holds(data, h) PROVE Holds(F, h)
      <4>1. i <= Len(F)
        BY <2>5, <3>3 DEF Holds
      <4>2. i \in 1..Len(F) /\ F[i] = h
        BY <2>4, <3>3, <4>1
      <4> QED
        BY <4>2 DEF Holds
    <3> QED
      BY <3>1, <3>2, <3>3 DEF Holds
  <2>7. ASSUME NEW h \in MessageHalves PROVE Holds(FifoOut, h)' <=> Holds(fwritten, h[1])' /\ h \notin lost'
    BY <2>2, <2>3, <2>6 DEF FifoBooks, Holds
  <2>8. ASSUME NEW h \in lost' PROVE Holds(fwritten, h[1])'
    <3>1. CASE h \in lost
      BY <3>1 DEF FifoBooks, Holds
    <3>2. CASE Holds(data, h)
      <4>1. PICK i \in 1..Len(data) : data[i] = h
        BY <3>2 DEF Holds
      <4>2. h \in MessageHalves
        BY <2>1, <4>1
      <4>3. Len(F) + i \in 1..Len(FifoOut) /\ FifoOut[Len(F) + i] = h
        BY <2>4, <4>1
      <4>4. Holds(FifoOut, h)
        BY <4>3 DEF Holds
      <4> QED
        BY <4>2, <4>4 DEF FifoBooks, Holds
    <3> QED
      BY <2>2, <3>1, <3>2
  <2>9. InOrder(FifoOut)'
    <3>1. InOrder(F)
      BY <2>4 DEF FifoBooks, InOrder
    <3> QED
      BY <2>3, <3>1 DEF InOrder, Chn!Precedes
  <2>10. lost' \subseteq MessageHalves
    BY <2>1, <2>2 DEF FifoBooks, Holds
  <2>11. FifoBooks'
    <3>1. data' \in Seq(MessageHalves)
      BY <1>2
    <3>2. /\ lines' \in Seq(Seq(MessageHalves)) /\ Flat(lines)' \in Seq(MessageHalves)
          /\ fwritten' \in Seq(FifoClients) /\ Once(fwritten)'
      BY DEF FifoBooks, Once
    <3> QED
      BY <2>7, <2>8, <2>9, <2>10, <3>1, <3>2 DEF FifoBooks
  <2> QED
    BY <1>2, <2>2, <2>11 DEF Holds
<1> QED
  BY <1>1, <1>2 DEF Chn!Kept

LEMMA BooksRead ==
  ASSUME FifoBooks, NEW n \in 0..Len(data), lines' = Append(lines, SubSeq(data, 1, n)),
         data' = SubSeq(data, n + 1, Len(data)), UNCHANGED <<fwritten, lost>>
  PROVE  FifoBooks'
<1> DEFINE F == Flat(lines)
           line == SubSeq(data, 1, n)
           after == SubSeq(data, n + 1, Len(data))
<1>1. data \in Seq(MessageHalves) /\ F \in Seq(MessageHalves) /\ lines \in Seq(Seq(MessageHalves))
  BY DEF FifoBooks
<1>2. line \in Seq(MessageHalves)
  BY <1>1, FirstRule
<1>3. after \in Seq(MessageHalves)
  BY <1>1, AfterRule
<1>4. line \o after = data
  BY <1>1, SplitRule
<1>5. lines' = Append(lines, line) /\ data' = after
  OBVIOUS
<1> HIDE DEF line, after
<1>6. lines' \in Seq(Seq(MessageHalves))
  BY <1>1, <1>2, <1>5, AppendRule
<1>7. Flat(lines') = F \o line
  BY <1>1, <1>2, <1>5, FlatJoin
<1> HIDE DEF F
<1>8. Flat(lines') \in Seq(MessageHalves)
  BY <1>1, <1>2, <1>7, JoinRule
<1>9. (F \o line) \o after = F \o (line \o after)
  BY <1>1, <1>2, <1>3
<1>10. FifoOut' = FifoOut
  BY <1>4, <1>5, <1>7, <1>9 DEF FifoOut, F
<1> QED
  BY <1>3, <1>5, <1>6, <1>8, <1>10 DEF FifoBooks, InOrder, Chn!Precedes

LEMMA BooksWrite ==
  ASSUME FifoBooks, NEW c \in FifoClients, ~Holds(fwritten, c), data' = data \o Chn!Halves(c),
         fwritten' = Append(fwritten, c), UNCHANGED <<lines, lost>>
  PROVE  /\ FifoBooks' /\ \A d \in FifoClients : Holds(fwritten, d)' <=> Holds(fwritten, d) \/ d = c
         /\ Len(data') = Len(data) + 2
         /\ \A i \in 1..Len(data) : data'[i] = data[i]
         /\ data'[Len(data) + 1][1] = c /\ data'[Len(data) + 2][1] = c
<1> DEFINE x == <<c, 1>>
           y == <<c, 2>>
           n == Len(fwritten)
           l == Len(FifoOut)
<1>1. /\ data \in Seq(MessageHalves) /\ Flat(lines) \in Seq(MessageHalves) /\ fwritten \in Seq(FifoClients)
      /\ n \in Nat /\ DOMAIN fwritten = 1..n /\ Len(data) \in Nat
  BY DEF FifoBooks
<1>2. FifoOut \in Seq(MessageHalves) /\ l \in Nat
  BY FifoOutRule
<1>3. x \in MessageHalves /\ y \in MessageHalves
  BY DEF MessageHalves
<1>4. data' = data \o <<x, y>>
  BY DEF Chn!Halves
<1> HIDE DEF x, y
<1>5. /\ data' \in Seq(MessageHalves) /\ Len(data') = Len(data) + 2
      /\ \A i \in 1..Len(data) : data'[i] = data[i]
  BY <1>1, <1>3, <1>4, JoinTwo
<1>6. data'[Len(data) + 1] = x /\ data'[Len(data) + 2] = y
  BY <1>1, <1>3, <1>4, JoinTwo
<1>7. FifoOut' = FifoOut \o <<x, y>>
  <2>1. Flat(lines) \o (data \o <<x, y>>) = (Flat(lines) \o data) \o <<x, y>>
    <3>1. Flat(lines) \in Seq(MessageHalves) /\ data \in Seq(MessageHalves) /\ <<x, y>> \in Seq(MessageHalves)
      BY <1>1, <1>3
    <3> DEFINE f == Flat(lines)
               w == <<x, y>>
    <3> HIDE DEF f, w
    <3>2. f \in Seq(MessageHalves) /\ data \in Seq(MessageHalves) /\ w \in Seq(MessageHalves)
      BY <3>1 DEF f, w
    <3>3. Joined(Joined(f, data), w) = Joined(f, Joined(data, w))
      BY ONLY <3>2, JoinedAssoc
    <3> QED
      BY ONLY <3>3 DEF Joined, f, w
  <2> QED
    BY <1>4, <2>1 DEF FifoOut
<1>8. /\ FifoOut' \in Seq(MessageHalves) /\ Len(FifoOut') = l + 2
      /\ \A i \in 1..l : FifoOut'[i] = FifoOut[i]
  BY <1>2, <1>3, <1>7, JoinTwo
<1>9. FifoOut'[l + 1] = x /\ FifoOut'[l + 2] = y
  BY <1>2, <1>3, <1>7, JoinTwo
<1>10. /\ fwritten' \in Seq(FifoClients) /\ Len(fwritten') = n + 1 /\ fwritten'[n + 1] = c
       /\ \A i \in 1..n : fwritten'[i] = fwritten[i]
  BY <1>1, AppendRule
<1>11. DOMAIN fwritten' = 1..(n + 1)
  BY <1>10
<1> HIDE DEF n, l
<1>12. ASSUME NEW d \in FifoClients PROVE Holds(fwritten, d)' <=> Holds(fwritten, d) \/ d = c
  BY <1>1, <1>10 DEF Holds, n
<1>13. Once(fwritten)'
  BY <1>1, <1>10 DEF FifoBooks, Once, Holds, n
<1>14. ASSUME NEW h \in MessageHalves PROVE Holds(FifoOut, h)' <=> Holds(FifoOut, h) \/ h[1] = c
  <2>1. h[1] = c <=> h = x \/ h = y
    BY DEF MessageHalves, x, y
  <2>2. Holds(FifoOut, h) => Holds(FifoOut, h)'
    BY <1>2, <1>8 DEF Holds, l
  <2>3. h = x => Holds(FifoOut, h)'
    <3>1. l + 1 \in 1..Len(FifoOut')
      BY <1>2, <1>8
    <3> QED
      BY <1>9, <3>1 DEF Holds
  <2>4. h = y => Holds(FifoOut, h)'
    <3>1. l + 2 \in 1..Len(FifoOut')
      BY <1>2, <1>8
    <3> QED
      BY <1>9, <3>1 DEF Holds
  <2>5. Holds(FifoOut, h)' => Holds(FifoOut, h) \/ h = x \/ h = y
    <3>1. \A i \in 1..(l + 2) : i \in 1..l \/ i = l + 1 \/ i = l + 2
      BY <1>2
    <3> QED
      BY <1>8, <1>9, <3>1 DEF Holds, l
  <2> QED
    BY <2>1, <2>2, <2>3, <2>4, <2>5
<1>15. ASSUME NEW h \in MessageHalves PROVE Holds(FifoOut, h)' <=> Holds(fwritten, h[1])' /\ h \notin lost'
  <2>1. h[1] \in FifoClients
    BY DEF MessageHalves
  <2>2. h[1] = c => h \notin lost
    BY DEF FifoBooks
  <2> QED
    BY <1>12, <1>14, <2>1, <2>2 DEF FifoBooks
<1>16. InOrder(FifoOut)'
  <2> SUFFICES ASSUME NEW i \in 1..Len(FifoOut'), NEW j \in 1..Len(FifoOut'), i < j
               PROVE  Chn!Precedes(FifoOut[i], FifoOut[j])'
    BY DEF InOrder
  <2>1. i \in 1..(l + 2) /\ j \in 1..(l + 2)
    BY <1>8
  <2>2. CASE j \in 1..l
    <3>1. i \in 1..l
      BY <1>2, <2>1, <2>2
    <3>2. Chn!Precedes(FifoOut[i], FifoOut[j])
      BY <2>2, <3>1 DEF FifoBooks, InOrder, l
    <3>3. PICK m \in 1..n, k \in 1..n :
            fwritten[m] = FifoOut[i][1] /\ fwritten[k] = FifoOut[j][1] /\
            (m < k \/ (m = k /\ FifoOut[i][2] < FifoOut[j][2]))
      BY <1>1, <3>2 DEF Chn!Precedes
    <3>4. FifoOut'[i] = FifoOut[i] /\ FifoOut'[j] = FifoOut[j]
      BY <1>8, <2>2, <3>1
    <3>5. m \in DOMAIN fwritten' /\ k \in DOMAIN fwritten' /\ fwritten'[m] = fwritten[m] /\ fwritten'[k] = fwritten[k]
      BY <1>1, <1>10, <1>11
    <3> QED
      BY <3>3, <3>4, <3>5 DEF Chn!Precedes
  <2>3. CASE j \in {l + 1, l + 2} /\ i \in 1..l
    <3>1. FifoOut'[j][1] = c
      BY <1>9, <2>3 DEF x, y
    <3>2. FifoOut'[i] = FifoOut[i] /\ FifoOut[i] \in MessageHalves
      BY <1>2, <1>8, <2>3 DEF l
    <3>3. Holds(FifoOut, FifoOut[i])
      BY <2>3 DEF Holds, l
    <3>4. Holds(fwritten, FifoOut[i][1])
      BY <3>2, <3>3 DEF FifoBooks
    <3>5. PICK m \in 1..n : fwritten[m] = FifoOut[i][1]
      BY <3>4 DEF Holds, n
    <3>6. m \in DOMAIN fwritten' /\ n + 1 \in DOMAIN fwritten' /\ m < n + 1 /\ fwritten'[m] = fwritten[m]
      BY <1>1, <1>10, <1>11
    <3> QED
      BY <1>10, <3>1, <3>2, <3>5, <3>6 DEF Chn!Precedes
  <2>4. CASE j = l + 2 /\ i = l + 1
    <3>1. FifoOut'[i] = <<c, 1>> /\ FifoOut'[j] = <<c, 2>>
      BY <1>9, <2>4 DEF x, y
    <3>2. n + 1 \in DOMAIN fwritten'
      BY <1>1, <1>11
    <3> QED
      BY <1>10, <3>1, <3>2 DEF Chn!Precedes
  <2> QED
    BY <1>2, <2>1, <2>2, <2>3, <2>4
<1>17. FifoBooks'
  <2>1. \A h \in lost' : Holds(fwritten, h[1])'
    <3>1. \A h \in lost : h[1] \in FifoClients /\ Holds(fwritten, h[1])
      BY DEF FifoBooks, MessageHalves
    <3> QED
      BY <1>12, <3>1
  <2>2. lines' \in Seq(Seq(MessageHalves)) /\ Flat(lines)' \in Seq(MessageHalves) /\ lost' \subseteq MessageHalves
    BY DEF FifoBooks
  <2> QED
    BY <1>5, <1>10, <1>13, <1>15, <1>16, <2>1, <2>2 DEF FifoBooks
<1> QED
  BY <1>5, <1>6, <1>12, <1>17 DEF x, y

LEMMA FifoInitInv == ASSUME Chn!FifoAssumption, Chn!FifoInit PROVE FifoIInv
<1> USE DEF Chn!FifoInit
<1>1. Flat(lines) = <<>> /\ FifoOut = <<>> /\ data = <<>> /\ Len(<<>>) = 0
  BY FlatEmpty DEF FifoOut
<1>2. FifoBooks
  <2>1. <<>> \in Seq(MessageHalves) /\ <<>> \in Seq(Seq(MessageHalves)) /\ <<>> \in Seq(FifoClients)
    OBVIOUS
  <2>2. fwritten = <<>> /\ lost = {} /\ lines = <<>>
    OBVIOUS
  <2>3. Once(fwritten) /\ InOrder(FifoOut) /\ (\A h : ~Holds(FifoOut, h)) /\ \A d : ~Holds(fwritten, d)
    BY <1>1, <2>2 DEF Once, InOrder, Holds
  <2> QED
    BY <1>1, <2>1, <2>2, <2>3 DEF FifoBooks
<1>3. FifoLinks
  BY DEF FifoLinks, ClientStates, Holds
<1>4. FifoTypes
  BY DEF FifoTypes, FifoServers
<1>5. FifoLate
  BY DEF FifoLate, AllLate
<1>6. FifoStops
  <2>1. Len(lines) = 0
    BY <1>1
  <2> QED
    BY <2>1 DEF FifoStops, LastExit, Stopping
<1> QED
  BY <1>2, <1>3, <1>4, <1>5, <1>6 DEF FifoIInv

\* The server's steps that take nothing from the FIFO.
LEMMA FifoServes ==
  ASSUME FifoIInv,
         \/ Chn!Open \/ Chn!OpenFails \/ Chn!Loop \/ Chn!ReadZero \/ Chn!Unlink \/ Chn!Signal
  PROVE  FifoIInv'
<1>1. UNCHANGED <<data, lines, fwritten, lost, flate>>
  BY DEF Chn!Open, Chn!OpenFails, Chn!Loop, Chn!ReadZero, Chn!Unlink, Chn!Signal, Chn!ghosts
<1>2. FifoBooks' /\ (AllLate(data) => AllLate(data)')
  BY <1>1, BooksQuiet DEF FifoIInv
<1>3. FifoTypes'
  <2>1. UNCHANGED fsignals \/ fsignals' = fsignals + 1
    BY DEF Chn!Open, Chn!OpenFails, Chn!Loop, Chn!ReadZero, Chn!Unlink, Chn!Signal
  <2>2. server' \in FifoServers
    BY DEF Chn!Open, Chn!OpenFails, Chn!Loop, Chn!ReadZero, Chn!Unlink, Chn!Signal, FifoServers, FifoIInv, FifoTypes
  <2>3. reading' \in BOOLEAN /\ factive' \in BOOLEAN /\ linked' \in BOOLEAN /\ failed' \in BOOLEAN
    BY DEF Chn!Open, Chn!OpenFails, Chn!Loop, Chn!ReadZero, Chn!Unlink, Chn!Signal, Chn!ghosts, FifoIInv, FifoTypes
  <2> QED
    BY <2>1, <2>2, <2>3 DEF FifoIInv, FifoTypes
<1>4. FifoLinks'
  <2>1. CASE Chn!Open
    BY <1>1, <2>1 DEF Chn!Open, FifoIInv, FifoLinks, ClientStates, Holds
  <2>2. CASE UNCHANGED fclient
    BY <1>1, <2>2 DEF FifoIInv, FifoLinks, Holds
  <2> QED
    BY <2>1, <2>2 DEF Chn!OpenFails, Chn!Loop, Chn!ReadZero, Chn!Unlink, Chn!Signal
<1>5. FifoLate'
  <2>1. factive' => factive
    BY DEF Chn!Open, Chn!OpenFails, Chn!Loop, Chn!ReadZero, Chn!Unlink, Chn!Signal
  <2>2. server' = "zero" => server = "zero" \/ data' = <<>>
    BY DEF Chn!Open, Chn!OpenFails, Chn!Loop, Chn!ReadZero, Chn!Unlink, Chn!Signal
  <2>3. ~reading' => ~reading
    BY DEF Chn!Open, Chn!OpenFails, Chn!Loop, Chn!ReadZero, Chn!Unlink, Chn!Signal
  <2>4. data' = <<>> => AllLate(data)'
    BY DEF AllLate
  <2> QED
    BY <1>1, <1>2, <2>1, <2>2, <2>3, <2>4 DEF FifoIInv, FifoLate
<1>6. FifoStops'
  <2>1. LastExit' = LastExit /\ \A i : lines'[i] = lines[i]
    BY <1>1 DEF LastExit, Chn!IsExitLine
  <2>2. \A i \in 1..(Len(lines') - 1) : ~Chn!IsExitLine(lines'[i])
    BY <1>1 DEF FifoIInv, FifoStops
  <2>3. CASE Chn!Open
    BY <2>1, <2>2, <2>3 DEF Chn!Open, FifoIInv, FifoStops, Stopping, Chn!IsExitLine, Chn!ghosts
  <2>4. CASE Chn!OpenFails
    BY <2>1, <2>2, <2>4 DEF Chn!OpenFails, FifoIInv, FifoStops, Stopping, Chn!IsExitLine
  <2>5. CASE Chn!Loop
    BY <2>1, <2>2, <2>5 DEF Chn!Loop, FifoIInv, FifoStops, Stopping, Chn!IsExitLine, Chn!ghosts
  <2>6. CASE Chn!ReadZero
    BY <2>1, <2>2, <2>6 DEF Chn!ReadZero, FifoIInv, FifoStops, Stopping, Chn!IsExitLine, Chn!ghosts
  <2>7. CASE Chn!Unlink
    BY <2>1, <2>2, <2>7 DEF Chn!Unlink, FifoIInv, FifoStops, Stopping, Chn!IsExitLine, Chn!ghosts
  <2>8. CASE Chn!Signal
    <3>1. fsignals' > 0
      BY <2>8 DEF Chn!Signal, FifoIInv, FifoTypes
    <3> QED
      BY <2>1, <2>2, <2>8, <3>1 DEF Chn!Signal, FifoIInv, FifoStops, Stopping, Chn!IsExitLine
  <2> QED
    BY <2>3, <2>4, <2>5, <2>6, <2>7, <2>8
<1> QED
  BY <1>2, <1>3, <1>4, <1>5, <1>6 DEF FifoIInv

LEMMA FifoReads == ASSUME Chn!FifoAssumption, FifoIInv, Chn!ReadData PROVE FifoIInv'
<1> DEFINE n == IF Len(data) < Most THEN Len(data) ELSE Most
           line == SubSeq(data, 1, n)
<1>1. /\ server = "read" /\ data # <<>> /\ lines' = Append(lines, line)
      /\ data' = SubSeq(data, n + 1, Len(data))
      /\ IF Chn!IsExit(line) THEN factive' = FALSE /\ server' = "close" ELSE UNCHANGED <<factive, server>>
      /\ UNCHANGED <<reading, fclient, linked, fsignals, fwritten, flate, lost, failed>>
  BY DEF Chn!ReadData, Chn!ghosts
<1>2. Len(data) \in Nat /\ data \in Seq(MessageHalves) /\ lines \in Seq(Seq(MessageHalves))
  BY DEF FifoIInv, FifoBooks
<1>3. n \in 0..Len(data)
  BY <1>2 DEF Chn!FifoAssumption
<1> HIDE DEF n
<1>4. FifoBooks'
  BY <1>1, <1>3, BooksRead DEF FifoIInv
<1>5. line \in Seq(MessageHalves)
  BY <1>2, <1>3, FirstRule
<1> HIDE DEF line
<1>6. /\ Len(lines') = Len(lines) + 1 /\ lines'[Len(lines) + 1] = line /\ Len(lines) \in Nat
      /\ \A i \in 1..Len(lines) : lines'[i] = lines[i]
  BY <1>1, <1>2, <1>5, AppendRule
<1>7. Chn!IsExitLine(line) <=> Chn!IsExit(line)
  BY DEF Chn!IsExitLine, Chn!IsExit
<1>8. FifoLinks' /\ FifoTypes'
  BY <1>1 DEF FifoIInv, FifoLinks, FifoTypes, FifoServers, Holds
<1>9. FifoLate'
  <2>1. factive' => factive
    BY <1>1
  <2>2. AllLate(data) => AllLate(data)'
    <3>1. /\ Len(data') = Len(data) - n /\ \A i \in 1..(Len(data) - n) : data'[i] = data[n + i]
      BY <1>1, <1>2, <1>3, AfterRule
    <3>2. \A i \in 1..(Len(data) - n) : n + i \in 1..Len(data)
      BY <1>2, <1>3
    <3> QED
      BY <1>1, <3>1, <3>2 DEF AllLate
  <2> QED
    BY <1>1, <2>1, <2>2 DEF FifoIInv, FifoLate
<1>10. FifoStops'
  <2>1. ~LastExit /\ server \notin Stopping
    BY <1>1 DEF FifoIInv, FifoStops, Stopping
  <2>2. LastExit' <=> Chn!IsExit(line)
    <3>1. lines'[Len(lines')] = line /\ Len(lines') # 0
      BY <1>6
    <3> QED
      BY <1>7, <3>1 DEF LastExit, Chn!IsExitLine
  <2>3. ASSUME NEW i \in 1..(Len(lines') - 1) PROVE ~Chn!IsExitLine(lines'[i])
    <3>1. i \in 1..Len(lines) /\ lines'[i] = lines[i]
      BY <1>6
    <3>2. CASE i = Len(lines)
      BY <1>6, <2>1, <3>1, <3>2 DEF LastExit
    <3>3. CASE i # Len(lines)
      <4>1. i \in 1..(Len(lines) - 1)
        BY <1>6, <3>1, <3>3
      <4> QED
        BY <3>1, <4>1 DEF FifoIInv, FifoStops
    <3> QED
      BY <3>2, <3>3
  <2>4. \A i \in 1..(Len(lines) - 1)' : ~Chn!IsExitLine(lines[i])'
    BY <2>3 DEF Chn!IsExitLine
  <2>5. CASE Chn!IsExit(line)
    <3>1. factive' = FALSE /\ server' = "close" /\ LastExit'
      BY <1>1, <2>2, <2>5
    <3> QED
      BY <2>4, <3>1 DEF FifoStops, Stopping
  <2>6. CASE ~Chn!IsExit(line)
    <3>1. UNCHANGED <<factive, server>> /\ ~LastExit'
      BY <1>1, <2>2, <2>6
    <3>2. ~factive => fsignals > 0 \/ failed
      BY <2>1 DEF FifoIInv, FifoStops
    <3> QED
      BY <1>1, <2>1, <2>4, <3>1, <3>2 DEF FifoStops, Stopping
  <2> QED
    BY <2>5, <2>6
<1> QED
  BY <1>4, <1>8, <1>9, <1>10 DEF FifoIInv

LEMMA FifoCloses == ASSUME FifoIInv, Chn!Close PROVE FifoIInv'
<1>1. /\ server \in {"zero", "close"} /\ reading' = FALSE
      /\ server' = IF server = "zero" THEN "open" ELSE "unlink"
      /\ Chn!Kept(Chn!Writers # {})
      /\ UNCHANGED <<factive, fclient, linked, lines, fsignals, fwritten, flate, failed>>
  BY DEF Chn!Close
<1>2. /\ FifoBooks'
      /\ \/ UNCHANGED <<data, lost>>
         \/ data' = <<>> /\ \A h \in lost' : h \in lost \/ \E i \in 1..Len(data) : h = data[i]
  BY <1>1, BooksKept DEF FifoIInv
<1>3. FifoLinks' /\ FifoTypes'
  BY <1>1 DEF FifoIInv, FifoLinks, FifoTypes, FifoServers, Holds
<1>4. FifoLate'
  <2> SUFFICES ASSUME factive PROVE AllLate(data)' /\ \A h \in lost' : h[1] \in flate
    BY <1>1 DEF FifoLate
  <2>1. server = "zero"
    BY <1>1 DEF FifoIInv, FifoStops
  <2>2. AllLate(data) /\ \A h \in lost : h[1] \in flate
    BY <2>1 DEF FifoIInv, FifoLate
  <2> QED
    BY <1>1, <1>2, <2>2 DEF AllLate
<1>5. FifoStops'
  <2>1. LastExit' = LastExit
    BY <1>1 DEF LastExit, Chn!IsExitLine
  <2>2. \A i \in 1..(Len(lines') - 1) : ~Chn!IsExitLine(lines'[i])
    BY <1>1 DEF FifoIInv, FifoStops
  <2> QED
    BY <1>1, <2>1, <2>2 DEF FifoIInv, FifoStops, Stopping, Chn!IsExitLine
<1> QED
  BY <1>2, <1>3, <1>4, <1>5 DEF FifoIInv

\* The server's places, seen from a step of a client.
LEMMA FifoClientStops ==
  ASSUME FifoIInv, UNCHANGED <<reading, factive, lines, fsignals, failed>>,
         server' = server \/ (server = "waiting" /\ server' = "loop")
  PROVE  FifoStops'
<1>1. LastExit' = LastExit
  BY DEF LastExit, Chn!IsExitLine
<1>2. \A i \in 1..(Len(lines') - 1) : ~Chn!IsExitLine(lines'[i])
  BY DEF FifoIInv, FifoStops
<1> QED
  BY <1>1, <1>2 DEF FifoIInv, FifoStops, Stopping, Chn!IsExitLine

LEMMA FifoOpens ==
  ASSUME FifoIInv, NEW c \in FifoClients, Chn!ClientOpen(c) \/ Chn!TooLong(c)
  PROVE  FifoIInv'
<1>1. /\ UNCHANGED <<reading, factive, data, linked, lines, fsignals, fwritten, flate, lost, failed>>
      /\ server' = server \/ (server = "waiting" /\ server' = "loop")
  BY DEF Chn!ClientOpen, Chn!TooLong, Chn!ghosts
<1>2. FifoBooks' /\ (AllLate(data) => AllLate(data)')
  BY <1>1, BooksQuiet DEF FifoIInv
<1>3. fclient[c] \in {"away", "write"} /\ ~Holds(fwritten, c)
  BY DEF Chn!ClientOpen, Chn!TooLong, FifoIInv, FifoLinks
<1>4. PICK s \in ClientStates : fclient' = [fclient EXCEPT ![c] = s]
  BY DEF Chn!ClientOpen, Chn!TooLong, Chn!Become, ClientStates
<1>5. FifoLinks'
  BY <1>1, <1>3, <1>4 DEF FifoIInv, FifoLinks, Holds
<1>6. FifoTypes'
  BY <1>1 DEF FifoIInv, FifoTypes, FifoServers
<1>7. FifoLate'
  BY <1>1, <1>2 DEF FifoIInv, FifoLate
<1>8. FifoStops'
  BY <1>1, FifoClientStops
<1> QED
  BY <1>2, <1>5, <1>6, <1>7, <1>8 DEF FifoIInv

LEMMA FifoWrites == ASSUME FifoIInv, NEW c \in FifoClients, Chn!ClientWrite(c) PROVE FifoIInv'
<1>1. fclient[c] = "write" /\ UNCHANGED <<server, reading, factive, linked, lines, fsignals, failed>>
  BY DEF Chn!ClientWrite
<1>2. ~Holds(fwritten, c)
  BY <1>1 DEF FifoIInv, FifoLinks
<1>3. FifoTypes'
  BY <1>1 DEF FifoIInv, FifoTypes
<1>4. FifoStops'
  BY <1>1, FifoClientStops
<1>5. CASE reading
  <2>1. /\ data' = data \o Chn!Halves(c) /\ fclient' = [fclient EXCEPT ![c] = "close"]
        /\ fwritten' = Append(fwritten, c) /\ UNCHANGED lost
        /\ flate' = IF server = "zero" THEN flate \cup {c} ELSE flate
    BY <1>5 DEF Chn!ClientWrite, Chn!Become
  <2>2. /\ FifoBooks' /\ (\A d \in FifoClients : Holds(fwritten, d)' <=> Holds(fwritten, d) \/ d = c)
        /\ Len(data') = Len(data) + 2
        /\ \A i \in 1..Len(data) : data'[i] = data[i]
        /\ data'[Len(data) + 1][1] = c /\ data'[Len(data) + 2][1] = c
    BY <1>1, <1>2, <2>1, BooksWrite DEF FifoIInv
  <2>3. FifoLinks'
    <3>1. /\ fclient' \in [FifoClients -> ClientStates] /\ fclient'[c] = "close"
          /\ \A d \in FifoClients : d # c => fclient'[d] = fclient[d]
      BY <2>1 DEF FifoIInv, FifoLinks, ClientStates
    <3> QED
      BY <2>2, <3>1 DEF FifoIInv, FifoLinks
  <2>4. FifoLate'
    <3>1. server = "zero" => AllLate(data)'
      <4> SUFFICES ASSUME server = "zero", NEW i \in 1..Len(data') PROVE data'[i][1] \in flate'
        BY DEF AllLate
      <4>1. Len(data) \in Nat
        BY DEF FifoIInv, FifoBooks
      <4>2. i \in 1..Len(data) \/ i = Len(data) + 1 \/ i = Len(data) + 2
        BY <2>2, <4>1
      <4>3. AllLate(data)
        BY DEF FifoIInv, FifoLate
      <4> QED
        BY <2>1, <2>2, <4>2, <4>3 DEF AllLate
    <3>2. factive => \A h \in lost' : h[1] \in flate'
      BY <2>1 DEF FifoIInv, FifoLate
    <3> QED
      BY <1>1, <1>5, <3>1, <3>2 DEF FifoLate
  <2> QED
    BY <1>3, <1>4, <2>2, <2>3, <2>4 DEF FifoIInv
<1>6. CASE ~reading
  <2>1. /\ Chn!Kept(Chn!Writers # {c}) /\ fclient' = [fclient EXCEPT ![c] = "killed"]
        /\ UNCHANGED <<fwritten, flate>>
    BY <1>6 DEF Chn!ClientWrite, Chn!Become
  <2>2. /\ FifoBooks'
        /\ \/ UNCHANGED <<data, lost>>
           \/ data' = <<>> /\ \A h \in lost' : h \in lost \/ \E i \in 1..Len(data) : h = data[i]
    BY <1>1, <2>1, BooksKept DEF FifoIInv
  <2>3. FifoLinks'
    BY <1>2, <2>1 DEF FifoIInv, FifoLinks, ClientStates, Holds
  <2>4. FifoLate'
    <3>1. AllLate(data) => AllLate(data)'
      BY <2>1, <2>2 DEF AllLate
    <3>2. factive => AllLate(data) /\ \A h \in lost : h[1] \in flate
      BY <1>6 DEF FifoIInv, FifoLate
    <3>3. factive => \A h \in lost' : h[1] \in flate
      BY <2>2, <3>2 DEF AllLate
    <3> QED
      BY <1>1, <2>1, <3>1, <3>2, <3>3 DEF FifoIInv, FifoLate
  <2> QED
    BY <1>3, <1>4, <2>2, <2>3, <2>4 DEF FifoIInv
<1> QED
  BY <1>5, <1>6 DEF FifoIInv, FifoTypes

LEMMA FifoLeaves == ASSUME FifoIInv, NEW c \in FifoClients, Chn!ClientClose(c) PROVE FifoIInv'
<1>1. /\ fclient[c] = "close" /\ fclient' = [fclient EXCEPT ![c] = "done"]
      /\ Chn!Kept(reading \/ Chn!Writers # {c})
      /\ UNCHANGED <<server, reading, factive, linked, lines, fsignals, fwritten, flate, failed>>
  BY DEF Chn!ClientClose, Chn!Become
<1>2. FifoTypes'
  BY <1>1 DEF FifoIInv, FifoTypes
<1>3. FifoStops'
  BY <1>1, FifoClientStops
<1>4. /\ FifoBooks'
      /\ (reading \/ Chn!Writers # {c}) => UNCHANGED <<data, lost>>
      /\ \/ UNCHANGED <<data, lost>>
         \/ data' = <<>> /\ \A h \in lost' : h \in lost \/ \E i \in 1..Len(data) : h = data[i]
  BY <1>1, BooksKept DEF FifoIInv
<1>5. FifoLinks'
  BY <1>1 DEF FifoIInv, FifoLinks, ClientStates, Holds
<1>6. FifoLate'
  <2>1. AllLate(data) => AllLate(data)'
    BY <1>1, <1>4 DEF AllLate
  <2>2. CASE reading
    BY <1>1, <1>4, <2>1, <2>2 DEF FifoIInv, FifoLate
  <2>3. CASE ~reading
    <3>1. factive => AllLate(data) /\ \A h \in lost : h[1] \in flate
      BY <2>3 DEF FifoIInv, FifoLate
    <3>2. factive => \A h \in lost' : h[1] \in flate
      BY <1>4, <3>1 DEF AllLate
    <3> QED
      BY <1>1, <2>1, <3>1, <3>2 DEF FifoIInv, FifoLate
  <2> QED
    BY <2>2, <2>3
<1> QED
  BY <1>2, <1>3, <1>4, <1>5, <1>6 DEF FifoIInv

LEMMA FifoStepInv == ASSUME Chn!FifoAssumption, FifoIInv, [Chn!FifoNext]_(Chn!fifovars) PROVE FifoIInv'
<1>1. CASE UNCHANGED Chn!fifovars
  <2>1. UNCHANGED <<server, reading, factive, fclient, data, linked, lines, fsignals, fwritten, flate, lost, failed>>
    BY <1>1 DEF Chn!fifovars
  <2>2. FifoBooks' /\ (AllLate(data) => AllLate(data)')
    BY <2>1, BooksQuiet DEF FifoIInv
  <2>3. FifoStops'
    BY <2>1, FifoClientStops
  <2>4. FifoLinks' /\ FifoTypes'
    BY <2>1 DEF FifoIInv, FifoLinks, FifoTypes, Holds
  <2>5. FifoLate'
    BY <2>1, <2>2 DEF FifoIInv, FifoLate
  <2> QED
    BY <2>2, <2>3, <2>4, <2>5 DEF FifoIInv
<1> QED
  BY <1>1, FifoServes, FifoReads, FifoCloses, FifoOpens, FifoWrites, FifoLeaves DEF Chn!FifoNext

LEMMA FifoGood == ASSUME FifoIInv PROVE Chn!FifoRight
<1>1. Chn!TypeOK
  BY DEF FifoIInv, FifoTypes, FifoBooks, FifoServers, MessageHalves, Chn!TypeOK
<1>2. Chn!StopsIfTold
  <2>1. lines # <<>> <=> Len(lines) # 0
    BY DEF FifoIInv, FifoBooks
  <2> QED
    BY <2>1 DEF FifoIInv, FifoStops, LastExit, Stopping, Chn!StopsIfTold
<1>3. Chn!Accounted
  <2>1. Chn!FlattenSeq(lines) \o data = FifoOut
    BY ChannelsFlat DEF FifoOut
  <2>2. FifoOut \in Seq(MessageHalves) /\ DOMAIN FifoOut = 1..Len(FifoOut) /\ DOMAIN fwritten = 1..Len(fwritten)
        /\ fwritten \in Seq(FifoClients)
    BY FifoOutRule DEF FifoIInv, FifoBooks
  <2>3. Chn!ToSet(FifoOut) = (Chn!ToSet(fwritten) \X {1, 2}) \ lost
    <3>1. ASSUME NEW h PROVE h \in Chn!ToSet(FifoOut) <=> h \in MessageHalves /\ Holds(FifoOut, h)
      BY <2>2 DEF Chn!ToSet, Holds
    <3>2. ASSUME NEW h PROVE h \in Chn!ToSet(fwritten) \X {1, 2} <=> h \in MessageHalves /\ Holds(fwritten, h[1])
      <4>1. \A c : c \in Chn!ToSet(fwritten) <=> c \in FifoClients /\ Holds(fwritten, c)
        BY <2>2 DEF Chn!ToSet, Holds
      <4> QED
        BY <4>1 DEF MessageHalves
    <3>3. \A h \in MessageHalves : Holds(FifoOut, h) <=> Holds(fwritten, h[1]) /\ h \notin lost
      BY DEF FifoIInv, FifoBooks
    <3> QED
      BY <3>1, <3>2, <3>3
  <2>4. \A i, j \in DOMAIN FifoOut : i < j => Chn!Precedes(FifoOut[i], FifoOut[j])
    BY <2>2 DEF FifoIInv, FifoBooks, InOrder
  <2>5. factive => \A h \in lost : h[1] \in flate
    BY DEF FifoIInv, FifoLate
  <2> QED
    BY <2>1, <2>3, <2>4, <2>5 DEF Chn!Accounted
<1> QED
  BY <1>1, <1>2, <1>3 DEF Chn!FifoRight

\* The FIFO, for any clients and any length of a read: the server prints what was written, in order and
\* once, but for what was given up; nothing is given up behind its back while it is active, and only a
\* signal, an open that fails or a line "exit" ends it.
THEOREM ClientsHeard == ASSUME Chn!FifoAssumption PROVE Chn!FifoSpec => []Chn!FifoRight
<1>1. Chn!FifoInit => FifoIInv
  BY FifoInitInv
<1>2. FifoIInv /\ [Chn!FifoNext]_(Chn!fifovars) => FifoIInv'
  BY FifoStepInv
<1>3. FifoIInv => Chn!FifoRight
  BY FifoGood
<1> QED
  BY <1>1, <1>2, <1>3, PTL DEF Chn!FifoSpec

(***************************************************************************)
(* The line readers.  Of a connection: the bytes of the lines given, of    *)
(* the line being read, in the stream and still to come are those sent.    *)
(***************************************************************************)
LineBytes == {"x", "nul", "nl"}
GivenLines == [text : Seq(LineBytes), ended : BOOLEAN]

LinePiece(g) == g.text \o (IF g.ended THEN <<"nl">> ELSE <<>>)
LinePieces(s) == [j \in 1..Len(s) |-> LinePiece(s[j])]

Reading == IF rpc = "reading" THEN temp ELSE <<>>
Passed == (Flat(LinePieces(given)) \o Reading) \o rstream

ReaderTypes ==
  /\ all \in Seq(LineBytes) /\ coming \in Seq(LineBytes) /\ rstream \in Seq(LineBytes)
  /\ temp \in Seq(LineBytes) /\ cap \in Nat /\ cap >= 1 /\ Len(temp) <= cap
  /\ blocking \in BOOLEAN /\ open \in BOOLEAN /\ rpc \in {"idle", "reading", "failed"}
  /\ given \in Seq(GivenLines) /\ Flat(LinePieces(given)) \in Seq(LineBytes)
  /\ reader # "socket" => ~open /\ rpc # "reading"

SocketBytes ==
  reader = "socket" /\ rpc # "failed" =>
    IF open THEN Passed \o coming = all
    ELSE coming = <<>> /\ Len(Passed) <= Len(all) /\ Passed = SubSeq(all, 1, Len(Passed))

\* A line without its newline is the last that a blocking socket gives.
NoNewline ==
  reader = "socket" /\ rpc # "failed" =>
    \A j \in 1..Len(given) :
      ~given[j].ended => ~blocking \/ (~open /\ j = Len(given) /\ rstream = <<>> /\ rpc = "idle")

SocketReads == ReaderTypes /\ SocketBytes /\ NoNewline

LEMMA LinePieceType == ASSUME NEW g \in GivenLines PROVE LinePiece(g) \in Seq(LineBytes)
<1>1. g.text \in Seq(LineBytes) /\ <<"nl">> \in Seq(LineBytes) /\ <<>> \in Seq(LineBytes)
  BY DEF GivenLines, LineBytes
<1>2. g.text \o <<"nl">> \in Seq(LineBytes)
  BY <1>1, JoinRule
<1>3. g.text \o <<>> \in Seq(LineBytes)
  BY <1>1, JoinRule
<1> QED
  BY <1>2, <1>3 DEF LinePiece

\* One more line given puts its bytes at the end.
LEMMA GivenMore ==
  ASSUME NEW s \in Seq(GivenLines), Flat(LinePieces(s)) \in Seq(LineBytes), NEW g \in GivenLines
  PROVE  /\ Flat(LinePieces(Append(s, g))) = Flat(LinePieces(s)) \o LinePiece(g)
         /\ Flat(LinePieces(Append(s, g))) \in Seq(LineBytes)
<1> DEFINE p == LinePieces(s)
           x == LinePiece(g)
           t == Append(s, g)
<1>1. Len(s) \in Nat /\ \A j \in 1..Len(s) : s[j] \in GivenLines
  OBVIOUS
<1>2. t \in Seq(GivenLines) /\ Len(t) = Len(s) + 1 /\ t[Len(s) + 1] = g /\ \A j \in 1..Len(s) : t[j] = s[j]
  BY AppendRule
<1>3. x \in Seq(LineBytes)
  BY LinePieceType
<1>4. p \in Seq(Seq(LineBytes)) /\ Len(p) = Len(s) /\ \A j \in 1..Len(s) : p[j] = LinePiece(s[j])
  BY <1>1, LinePieceType DEF LinePieces
<1> HIDE DEF p, x
<1>5. /\ Append(p, x) \in Seq(Seq(LineBytes)) /\ Len(Append(p, x)) = Len(s) + 1
      /\ (\A j \in 1..Len(s) : Append(p, x)[j] = p[j]) /\ Append(p, x)[Len(s) + 1] = x
  <2>1. /\ Append(p, x) \in Seq(Seq(LineBytes)) /\ Len(Append(p, x)) = Len(p) + 1
        /\ (\A j \in 1..Len(p) : Append(p, x)[j] = p[j]) /\ Append(p, x)[Len(p) + 1] = x
    BY <1>3, <1>4, AppendRule
  <2> QED
    BY <1>4, <2>1
<1> HIDE DEF t
<1>6. LinePieces(t) \in Seq(Seq(LineBytes)) /\ Len(LinePieces(t)) = Len(s) + 1
      /\ \A j \in 1..(Len(s) + 1) : LinePieces(t)[j] = LinePiece(t[j])
  <2>1. \A j \in 1..Len(t) : t[j] \in GivenLines
    BY <1>2
  <2> QED
    BY <1>1, <1>2, <2>1, LinePieceType DEF LinePieces
<1>7. ASSUME NEW j \in 1..(Len(s) + 1) PROVE LinePieces(t)[j] = Append(p, x)[j]
  <2>1. j \in 1..Len(s) \/ j = Len(s) + 1
    BY <1>1
  <2>2. CASE j \in 1..Len(s)
    BY <1>2, <1>4, <1>5, <1>6, <2>2
  <2>3. CASE j = Len(s) + 1
    BY <1>2, <1>5, <1>6, <2>3 DEF x
  <2> QED
    BY <2>1, <2>2, <2>3
<1>8. LinePieces(t) = Append(p, x)
  BY <1>5, <1>6, <1>7, SameSeq
<1>9. Flat(p) \in Seq(LineBytes)
  BY DEF p
<1>10. Flat(Append(p, x)) = Flat(p) \o x
  BY <1>3, <1>4, <1>9, FlatJoin
<1>11. Flat(p) \o x \in Seq(LineBytes)
  BY <1>3, <1>9, JoinRule
<1> QED
  BY <1>8, <1>10, <1>11 DEF p, x, t

LEMMA ReaderInitInv == ASSUME Sck!ReaderAssumption, Sck!ReaderInit PROVE SocketReads
<1>1. all \in Seq(LineBytes) /\ FirstSize \in Nat /\ FirstSize >= 2
  BY DEF Sck!ReaderAssumption, Sck!ReaderInit, LineBytes
<1>2. /\ IF reader = "socket" THEN coming = all /\ rstream = <<>> ELSE coming = <<>> /\ rstream = all
      /\ open = (reader = "socket") /\ blocking \in BOOLEAN
      /\ temp = <<>> /\ cap = FirstSize /\ rpc = "idle" /\ given = <<>>
  BY DEF Sck!ReaderInit
<1>3. LinePieces(given) = <<>> /\ Flat(LinePieces(given)) = <<>> /\ Len(given) = 0 /\ Len(temp) = 0
  <2>1. Len(given) = 0 /\ Len(temp) = 0
    BY <1>2
  <2>2. LinePieces(given) = <<>>
    BY <2>1 DEF LinePieces
  <2> QED
    BY <2>1, <2>2, FlatEmpty
<1>4. <<>> \in Seq(LineBytes) /\ <<>> \in Seq(GivenLines)
  OBVIOUS
<1>5. ReaderTypes
  <2>1. coming \in Seq(LineBytes) /\ rstream \in Seq(LineBytes)
    BY <1>1, <1>2, <1>4
  <2>2. open \in BOOLEAN /\ (reader # "socket" => ~open /\ rpc # "reading")
    BY <1>2
  <2> QED
    BY <1>1, <1>2, <1>3, <1>4, <2>1, <2>2 DEF ReaderTypes
<1>6. SocketBytes
  <2> SUFFICES ASSUME reader = "socket" PROVE Passed \o coming = all /\ open
    BY DEF SocketBytes
  <2>1. Passed = <<>>
    BY <1>2, <1>3 DEF Passed, Reading
  <2>2. <<>> \o all = all
    BY <1>1
  <2> QED
    BY <1>2, <2>1, <2>2
<1>7. NoNewline
  BY <1>3 DEF NoNewline
<1> QED
  BY <1>5, <1>6, <1>7 DEF SocketReads

LEMMA PassedType ==
  ASSUME ReaderTypes
  PROVE  /\ Reading \in Seq(LineBytes) /\ Flat(LinePieces(given)) \o Reading \in Seq(LineBytes)
         /\ Passed \in Seq(LineBytes) /\ Len(Passed) \in Nat
<1>1. Reading \in Seq(LineBytes) /\ Flat(LinePieces(given)) \in Seq(LineBytes) /\ rstream \in Seq(LineBytes)
  BY DEF ReaderTypes, Reading
<1>2. Flat(LinePieces(given)) \o Reading \in Seq(LineBytes)
  BY <1>1, JoinRule
<1>3. Passed \in Seq(LineBytes)
  BY <1>1, <1>2, JoinRule DEF Passed
<1> QED
  BY <1>1, <1>2, <1>3

\* The peer sends, or closes.
LEMMA PeerInv ==
  ASSUME SocketReads, (\E n \in 1..Len(coming) : Sck!Send(n)) \/ Sck!PeerCloses
  PROVE  SocketReads'
<1>1. /\ all \in Seq(LineBytes) /\ coming \in Seq(LineBytes) /\ rstream \in Seq(LineBytes) /\ ReaderTypes
      /\ Passed \in Seq(LineBytes) /\ Len(Passed) \in Nat /\ Flat(LinePieces(given)) \o Reading \in Seq(LineBytes)
  BY PassedType DEF SocketReads, ReaderTypes
<1>2. CASE Sck!PeerCloses
  <2>1. open /\ open' = FALSE /\ coming' = <<>> /\ UNCHANGED <<reader, all, blocking, rstream, temp, cap, rpc, given>>
    BY <1>2 DEF Sck!PeerCloses
  <2>2. ReaderTypes'
    <3>1. coming' \in Seq(LineBytes)
      BY <2>1
    <3> QED
      BY <1>1, <2>1, <3>1 DEF ReaderTypes
  <2>3. Passed' = Passed
    BY <2>1 DEF Passed, Reading
  <2>4. SocketBytes'
    <3> SUFFICES ASSUME reader = "socket", rpc # "failed"
                 PROVE  Len(Passed) <= Len(all) /\ Passed = SubSeq(all, 1, Len(Passed))
      BY <2>1, <2>3 DEF SocketBytes
    <3>1. all = Passed \o coming
      BY <2>1 DEF SocketReads, SocketBytes
    <3>2. /\ Len(all) = Len(Passed) + Len(coming) /\ Len(coming) \in Nat
          /\ \A i \in 1..Len(Passed) : all[i] = Passed[i]
      BY <1>1, <3>1, JoinRule
    <3>3. Len(Passed) \in 0..Len(all)
      BY <1>1, <3>2
    <3>4. /\ SubSeq(all, 1, Len(Passed)) \in Seq(LineBytes) /\ Len(SubSeq(all, 1, Len(Passed))) = Len(Passed)
          /\ \A i \in 1..Len(Passed) : SubSeq(all, 1, Len(Passed))[i] = all[i]
      BY <1>1, <3>3, FirstRule
    <3>5. \A i \in 1..Len(Passed) : SubSeq(all, 1, Len(Passed))[i] = Passed[i]
      BY <3>2, <3>4
    <3> QED
      BY <1>1, <3>3, <3>4, <3>5, SameSeq
  <2>5. NoNewline'
    BY <2>1 DEF SocketReads, NoNewline
  <2> QED
    BY <2>2, <2>4, <2>5 DEF SocketReads
<1>3. ASSUME NEW n \in 1..Len(coming), Sck!Send(n) PROVE SocketReads'
  <2> DEFINE a == SubSeq(coming, 1, n)
             b == SubSeq(coming, n + 1, Len(coming))
  <2>1. /\ open /\ rstream' = rstream \o a /\ coming' = b
        /\ UNCHANGED <<reader, all, blocking, open, temp, cap, rpc, given>>
    BY <1>3 DEF Sck!Send
  <2>2. n \in 0..Len(coming)
    BY <1>1
  <2>3. a \in Seq(LineBytes) /\ b \in Seq(LineBytes) /\ a \o b = coming
    BY <1>1, <2>2, FirstRule, AfterRule, SplitRule
  <2> HIDE DEF a, b
  <2>4. rstream' \in Seq(LineBytes)
    BY <1>1, <2>1, <2>3, JoinRule
  <2>5. ReaderTypes'
    BY <1>1, <2>1, <2>3, <2>4 DEF ReaderTypes
  <2> DEFINE g == Flat(LinePieces(given)) \o Reading
  <2>6. Passed' = g \o (rstream \o a) /\ Passed = g \o rstream
    BY <2>1 DEF Passed, Reading
  <2>7. g \in Seq(LineBytes)
    BY <1>1
  <2> HIDE DEF g
  <2>8. (g \o (rstream \o a)) \o b = (g \o rstream) \o (a \o b)
    <3>0. /\ g \in Seq(LineBytes) /\ rstream \in Seq(LineBytes)
          /\ a \in Seq(LineBytes) /\ b \in Seq(LineBytes)
      BY <1>1, <2>3, <2>7
    <3>1. Joined(Joined(g, Joined(rstream, a)), b) = Joined(Joined(g, rstream), Joined(a, b))
      BY ONLY <3>0, JoinFour
    <3> QED
      BY ONLY <3>1 DEF Joined
  <2>9. SocketBytes'
    BY <2>1, <2>3, <2>6, <2>8 DEF SocketReads, SocketBytes
  <2>10. NoNewline'
    BY <2>1 DEF SocketReads, NoNewline
  <2> QED
    BY <2>5, <2>9, <2>10 DEF SocketReads
<1> QED
  BY <1>2, <1>3

\* A call of readline moves no byte out of its place.
LEMMA SocketStays ==
  ASSUME SocketReads, reader = "socket", rpc # "failed", ReaderTypes', Passed' = Passed,
         UNCHANGED <<reader, all, blocking, coming, open>>, NoNewline'
  PROVE  SocketReads'
BY DEF SocketReads, SocketBytes

LEMMA SocketFails ==
  ASSUME SocketReads, rpc' = "failed", UNCHANGED <<reader, all, blocking, coming, open, temp, cap, given>>,
         rstream' \in Seq(LineBytes)
  PROVE  SocketReads'
<1>1. ReaderTypes'
  BY DEF SocketReads, ReaderTypes
<1> QED
  BY <1>1 DEF SocketReads, SocketBytes, NoNewline

LEMMA ReaderStarts == ASSUME Sck!ReaderAssumption, SocketReads, Sck!Start PROVE SocketReads'
<1>1. /\ reader = "socket" /\ rpc = "idle" /\ (rstream # <<>> \/ open)
      /\ rpc' = "reading" /\ temp' = <<>> /\ cap' = FirstSize
      /\ UNCHANGED <<reader, all, blocking, coming, rstream, open, given>>
  BY DEF Sck!Start
<1>2. <<>> \in Seq(LineBytes) /\ Len(<<>>) = 0 /\ FirstSize \in Nat /\ FirstSize >= 1
  BY DEF Sck!ReaderAssumption
<1>3. ReaderTypes'
  BY <1>1, <1>2 DEF SocketReads, ReaderTypes
<1>4. Passed' = Passed
  BY <1>1 DEF Passed, Reading
<1>5. NoNewline'
  BY <1>1 DEF SocketReads, NoNewline
<1> QED
  BY <1>1, <1>3, <1>4, <1>5, SocketStays

\* readline gives a line: its bytes, and its newline if one ended it.
LEMMA SocketGives ==
  ASSUME SocketReads, reader = "socket", rpc = "reading", NEW whole \in BOOLEAN, Sck!ReaderReturns(whole),
         UNCHANGED <<reader, all, blocking, coming, open>>, rstream' \in Seq(LineBytes),
         rstream = (IF whole THEN <<"nl">> ELSE <<>>) \o rstream',
         ~whole => ~blocking \/ (~open /\ rstream = <<>>)
  PROVE  SocketReads'
<1> DEFINE g == [text |-> temp, ended |-> whole]
           e == IF whole THEN <<"nl">> ELSE <<>>
           F == Flat(LinePieces(given))
<1>1. rpc' = "idle" /\ given' = Append(given, g) /\ UNCHANGED <<temp, cap>>
  BY DEF Sck!ReaderReturns
<1>2. temp \in Seq(LineBytes) /\ given \in Seq(GivenLines) /\ F \in Seq(LineBytes) /\ ReaderTypes /\ Len(given) \in Nat
  BY DEF SocketReads, ReaderTypes
<1>3. g \in GivenLines
  BY <1>2 DEF GivenLines
<1>4. e \in Seq(LineBytes)
  <2>1. <<"nl">> \in Seq(LineBytes) /\ <<>> \in Seq(LineBytes)
    BY DEF LineBytes
  <2> QED
    BY <2>1
<1>5. LinePiece(g) = temp \o e
  BY DEF LinePiece
<1> HIDE DEF g, e
<1>6. Flat(LinePieces(given')) = F \o LinePiece(g) /\ Flat(LinePieces(given')) \in Seq(LineBytes)
  BY <1>1, <1>2, <1>3, GivenMore
<1> HIDE DEF F
<1>7. /\ given' \in Seq(GivenLines) /\ Len(given') = Len(given) + 1
      /\ given'[Len(given) + 1] = g /\ \A i \in 1..Len(given) : given'[i] = given[i]
  BY <1>1, <1>2, <1>3, AppendRule
<1>8. ReaderTypes'
  BY <1>1, <1>2, <1>6, <1>7 DEF ReaderTypes
<1>9. Passed' = Passed
  <2>1. Passed = (F \o temp) \o (e \o rstream')
    BY DEF Passed, Reading, F, e
  <2>2. Passed' = ((F \o (temp \o e)) \o <<>>) \o rstream'
    BY <1>1, <1>5, <1>6 DEF Passed, Reading
  <2>3. (F \o (temp \o e)) \o <<>> = F \o (temp \o e)
    BY <1>2, <1>4
  <2>4. (F \o (temp \o e)) \o rstream' = (F \o temp) \o (e \o rstream')
    <3>0. F \in Seq(LineBytes) /\ temp \in Seq(LineBytes) /\ e \in Seq(LineBytes) /\ rstream' \in Seq(LineBytes)
      BY <1>2, <1>4
    <3>1. Joined(Joined(F, Joined(temp, e)), rstream') = Joined(Joined(F, temp), Joined(e, rstream'))
      BY ONLY <3>0, JoinFour
    <3> QED
      BY ONLY <3>1 DEF Joined
  <2> QED
    BY <2>1, <2>2, <2>3, <2>4
<1>10. NoNewline'
  <2> SUFFICES ASSUME NEW j \in 1..Len(given'), ~given'[j].ended, blocking
               PROVE  ~open /\ j = Len(given') /\ rstream' = <<>>
    BY <1>1 DEF NoNewline
  <2>1. CASE j = Len(given) + 1
    <3>1. ~whole
      BY <1>7, <2>1 DEF g
    <3>2. rstream = <<>> /\ ~open
      BY <3>1
    <3>3. <<>> \o rstream' = rstream'
      OBVIOUS
    <3> QED
      BY <1>7, <2>1, <3>1, <3>2, <3>3
  <2>2. CASE j # Len(given) + 1
    <3>1. j \in 1..Len(given) /\ given'[j] = given[j]
      BY <1>2, <1>7, <2>2
    <3> QED
      BY <3>1 DEF SocketReads, NoNewline
  <2> QED
    BY <2>1, <2>2
<1> QED
  BY <1>8, <1>9, <1>10, SocketStays

LEMMA ReaderByte == ASSUME SocketReads, Sck!GetByte PROVE SocketReads'
<1>1. /\ rpc = "reading" /\ rstream # <<>> /\ rstream' = Tail(rstream)
      /\ UNCHANGED <<reader, all, blocking, coming, open>>
  BY DEF Sck!GetByte
<1>2. reader = "socket" /\ rstream \in Seq(LineBytes) /\ temp \in Seq(LineBytes) /\ ReaderTypes
  BY <1>1 DEF SocketReads, ReaderTypes
<1>3. Head(rstream) \in LineBytes /\ rstream' \in Seq(LineBytes) /\ rstream = <<Head(rstream)>> \o rstream'
  BY <1>1, <1>2
<1>4. CASE Head(rstream) = "nl" /\ Sck!ReaderReturns(TRUE)
  BY <1>1, <1>2, <1>3, <1>4, SocketGives
<1>5. CASE Sck!Abort
  BY <1>1, <1>3, <1>5, SocketFails DEF Sck!Abort
<1>6. CASE /\ temp' = Append(temp, Head(rstream)) /\ UNCHANGED <<rpc, given>>
           /\ cap' \in Nat /\ cap' >= 1 /\ Len(temp) < cap'
  <2> DEFINE x == Head(rstream)
             F == Flat(LinePieces(given))
  <2>1. /\ temp' = Append(temp, x) /\ temp' \in Seq(LineBytes) /\ Len(temp') = Len(temp) + 1
        /\ Len(temp) \in Nat /\ F \in Seq(LineBytes)
    BY <1>2, <1>3, <1>6 DEF ReaderTypes
  <2>2. x \in LineBytes /\ rstream = <<x>> \o rstream'
    BY <1>3
  <2>3. Passed' = (F \o Append(temp, x)) \o rstream' /\ Passed = (F \o temp) \o (<<x>> \o rstream')
    BY <1>1, <1>6, <2>2 DEF Passed, Reading
  <2> HIDE DEF x, F
  <2>4. Append(temp, x) = temp \o <<x>>
    BY <1>2, <2>2
  <2>5. (F \o (temp \o <<x>>)) \o rstream' = (F \o temp) \o (<<x>> \o rstream')
    <3> DEFINE w == <<x>>
    <3>0. w \in Seq(LineBytes)
      BY <2>2
    <3> HIDE DEF w
    <3>1. temp \in Seq(LineBytes) /\ F \in Seq(LineBytes) /\ rstream' \in Seq(LineBytes)
      BY <1>2, <1>3, <2>1, <2>2
    <3>2. Joined(Joined(F, Joined(temp, w)), rstream') = Joined(Joined(F, temp), Joined(w, rstream'))
      BY ONLY <3>0, <3>1, JoinFour
    <3> QED
      BY ONLY <3>2 DEF Joined, w
  <2>6. Passed' = Passed
    BY <2>3, <2>4, <2>5
  <2>7. ReaderTypes'
    BY <1>1, <1>2, <1>3, <1>6, <2>1 DEF ReaderTypes
  <2>8. NoNewline'
    BY <1>1, <1>6 DEF SocketReads, NoNewline
  <2> QED
    BY <1>1, <1>2, <2>6, <2>7, <2>8, SocketStays
<1>7. cap \in Nat /\ cap >= 1 /\ Len(temp) <= cap /\ Len(temp) \in Nat
  BY <1>2 DEF ReaderTypes
<1>8. \/ Head(rstream) = "nl" /\ Sck!ReaderReturns(TRUE)
      \/ Len(temp) < cap /\ temp' = Append(temp, Head(rstream)) /\ UNCHANGED <<rpc, given, cap>>
      \/ ~(Len(temp) < cap) /\ cap' = 2 * cap /\ temp' = Append(temp, Head(rstream)) /\ UNCHANGED <<rpc, given>>
      \/ Sck!Abort
  BY DEF Sck!GetByte
<1>9. CASE Len(temp) < cap /\ temp' = Append(temp, Head(rstream)) /\ UNCHANGED <<rpc, given, cap>>
  BY <1>6, <1>7, <1>9
<1>10. CASE ~(Len(temp) < cap) /\ cap' = 2 * cap /\ temp' = Append(temp, Head(rstream)) /\ UNCHANGED <<rpc, given>>
  <2>1. 2 * cap \in Nat /\ 2 * cap >= 1 /\ Len(temp) < 2 * cap
    BY <1>7
  <2> QED
    BY <1>6, <1>10, <2>1
<1> QED
  BY <1>4, <1>5, <1>8, <1>9, <1>10

LEMMA ReaderStopsReading ==
  ASSUME SocketReads, Sck!EndOfStream \/ Sck!WouldBlock \/ Sck!ReadFails
  PROVE  SocketReads'
<1>1. /\ rpc = "reading" /\ UNCHANGED <<reader, all, blocking, coming, rstream, open>>
      /\ Sck!Abort \/ (Sck!ReaderReturns(FALSE) /\ rstream = <<>> /\ (~blocking \/ ~open))
  BY DEF Sck!EndOfStream, Sck!WouldBlock, Sck!ReadFails
<1>2. reader = "socket" /\ rstream \in Seq(LineBytes)
  BY <1>1 DEF SocketReads, ReaderTypes
<1>3. CASE Sck!Abort
  BY <1>1, <1>2, <1>3, SocketFails DEF Sck!Abort
<1>4. CASE Sck!ReaderReturns(FALSE) /\ rstream = <<>> /\ (~blocking \/ ~open)
  <2>1. rstream = <<>> \o rstream' /\ rstream' \in Seq(LineBytes)
    BY <1>1, <1>2
  <2> QED
    BY <1>1, <1>2, <1>4, <2>1, SocketGives
<1> QED
  BY <1>1, <1>3, <1>4

LEMMA ReaderGood == ASSUME SocketReads PROVE Sck!SocketLines
<1> SUFFICES ASSUME reader = "socket", rpc # "failed"
             PROVE  /\ Sck!Joined \o (IF rpc = "reading" THEN temp ELSE <<>>) \o rstream \o coming =
                         IF open THEN all
                         ELSE SubSeq(all, 1, Len(Sck!Joined) + Len(IF rpc = "reading" THEN temp ELSE <<>>) + Len(rstream))
                    /\ \A j \in DOMAIN given : ~given[j].ended => ~blocking \/ (~open /\ j = Len(given))
                    /\ Len(temp) <= cap
  BY DEF Sck!SocketLines
<1>1. ReaderTypes /\ given \in Seq(GivenLines) /\ DOMAIN given = 1..Len(given)
  BY DEF SocketReads, ReaderTypes
<1>2. Sck!Joined = Flat(LinePieces(given))
  BY <1>1, SocketsFlat DEF Sck!Joined, LinePieces, LinePiece
<1>3. (IF rpc = "reading" THEN temp ELSE <<>>) = Reading
  BY DEF Reading
<1>4. Len(Passed) = Len(Flat(LinePieces(given))) + Len(Reading) + Len(rstream)
  <2> DEFINE F == Flat(LinePieces(given))
  <2>1. F \in Seq(LineBytes) /\ Reading \in Seq(LineBytes) /\ rstream \in Seq(LineBytes) /\ F \o Reading \in Seq(LineBytes)
    BY <1>1, PassedType DEF ReaderTypes
  <2> HIDE DEF F
  <2>2. Len(F \o Reading) = Len(F) + Len(Reading)
    BY <2>1, JoinRule
  <2>3. Len((F \o Reading) \o rstream) = Len(F \o Reading) + Len(rstream)
    BY <2>1, JoinRule
  <2> QED
    BY <2>2, <2>3 DEF Passed, F
<1>5. Passed \o coming = IF open THEN all ELSE SubSeq(all, 1, Len(Passed))
  <2>1. Passed \o <<>> = Passed
    BY <1>1, PassedType
  <2> QED
    BY <2>1 DEF SocketReads, SocketBytes
<1>6. \A j \in DOMAIN given : ~given[j].ended => ~blocking \/ (~open /\ j = Len(given))
  BY <1>1 DEF SocketReads, NoNewline
<1>7. Len(temp) <= cap
  BY <1>1 DEF ReaderTypes
<1> QED
  BY <1>2, <1>3, <1>4, <1>5, <1>6, <1>7 DEF Passed

(***************************************************************************)
(* The lines of a text, from any place in it.                              *)
(***************************************************************************)
LEMMA PartRule ==
  ASSUME NEW S, NEW s \in Seq(S), NEW a \in Nat, NEW b \in Nat, a >= 1, a <= b + 1, b <= Len(s)
  PROVE  /\ SubSeq(s, a, b) \in Seq(S) /\ Len(SubSeq(s, a, b)) = b - a + 1
         /\ \A i \in 1..(b - a + 1) : SubSeq(s, a, b)[i] = s[a + i - 1]
OBVIOUS

LEMMA PartOfPart ==
  ASSUME NEW S, NEW s \in Seq(S), NEW k \in Nat, k >= 1, k <= Len(s) + 1,
         NEW a \in Nat, NEW b \in Nat, a >= 1, a <= b + 1, b <= Len(s) + 1 - k
  PROVE  SubSeq(SubSeq(s, k, Len(s)), a, b) = SubSeq(s, k + a - 1, k + b - 1)
<1> DEFINE r == SubSeq(s, k, Len(s))
           x == SubSeq(r, a, b)
           y == SubSeq(s, k + a - 1, k + b - 1)
<1>1. Len(s) \in Nat
  OBVIOUS
<1>2. r \in Seq(S) /\ Len(r) = Len(s) - k + 1 /\ \A i \in 1..(Len(s) - k + 1) : r[i] = s[k + i - 1]
  BY <1>1, PartRule
<1> HIDE DEF r
<1>3. b <= Len(r) /\ k + a - 1 \in Nat /\ k + b - 1 \in Nat /\ k + a - 1 >= 1 /\ k + a - 1 <= k + b - 1 + 1 /\ k + b - 1 <= Len(s)
  BY <1>1, <1>2
<1>4. x \in Seq(S) /\ Len(x) = b - a + 1 /\ \A i \in 1..(b - a + 1) : x[i] = r[a + i - 1]
  BY <1>2, <1>3, PartRule
<1> DEFINE c == k + a - 1
           d == k + b - 1
<1>5. y \in Seq(S) /\ Len(y) = b - a + 1 /\ \A i \in 1..(b - a + 1) : y[i] = s[c + i - 1]
  <2>1. SubSeq(s, c, d) \in Seq(S) /\ Len(SubSeq(s, c, d)) = d - c + 1
        /\ \A i \in 1..(d - c + 1) : SubSeq(s, c, d)[i] = s[c + i - 1]
    <3> HIDE DEF c, d
    <3>1. c \in Nat /\ d \in Nat /\ c >= 1 /\ c <= d + 1 /\ d <= Len(s)
      BY <1>3 DEF c, d
    <3> QED
      BY <3>1, PartRule
  <2>2. d - c + 1 = b - a + 1
    OBVIOUS
  <2> QED
    BY <2>1, <2>2
<1> HIDE DEF x, y, c, d
<1>6. ASSUME NEW i \in 1..(b - a + 1) PROVE x[i] = y[i]
  <2>1. a + i - 1 \in 1..(Len(s) - k + 1)
    BY <1>1
  <2>2. r[a + i - 1] = s[k + (a + i - 1) - 1]
    BY <1>2, <2>1
  <2>3. k + (a + i - 1) - 1 = c + i - 1
    BY DEF c
  <2> QED
    BY <1>4, <1>5, <2>2, <2>3
<1>7. x = y
  BY <1>4, <1>5, <1>6, SameSeq
<1> QED
  BY <1>7 DEF x, y, r

\* Where the first newline is, 0 if there is none.
LEMMA LineEndRule ==
  ASSUME NEW t \in Seq(LineBytes)
  PROVE  /\ Sck!LineEnd(t) \in Nat /\ Sck!LineEnd(t) <= Len(t)
         /\ Sck!LineEnd(t) = 0 => \A i \in 1..Len(t) : t[i] # "nl"
         /\ Sck!LineEnd(t) # 0 => t[Sck!LineEnd(t)] = "nl" /\ \A i \in 1..(Sck!LineEnd(t) - 1) : t[i] # "nl"
<1> DEFINE I == {i \in 1..Len(t) : t[i] = "nl"}
<1>1. Sck!LineEnd(t) = IF I # {} THEN CHOOSE p \in I : \A q \in I : p <= q ELSE 0
  BY DEF Sck!LineEnd, Sck!SelectInSeq, Sck!Min
<1>2. Len(t) \in Nat /\ I \subseteq Nat
  OBVIOUS
<1>3. CASE I = {}
  <2>1. \A i \in 1..Len(t) : t[i] # "nl"
    BY <1>3
  <2>2. Sck!LineEnd(t) = 0
    BY <1>1, <1>3
  <2> QED
    BY <1>2, <2>1, <2>2
<1>4. CASE I # {}
  <2> DEFINE n == CHOOSE p \in I : \A q \in I : p <= q
  <2>1. \E p \in I : \A q \in I : p <= q
    BY <1>2, <1>4, Least
  <2>2. n \in I /\ \A q \in I : n <= q
    BY <2>1
  <2>3. Sck!LineEnd(t) = n
    BY <1>1, <1>4
  <2> HIDE DEF n
  <2>4. n \in 1..Len(t) /\ t[n] = "nl"
    BY <2>2
  <2>5. ASSUME NEW i \in 1..(n - 1) PROVE t[i] # "nl"
    <3>1. i \in 1..Len(t) /\ ~(n <= i)
      BY <1>2, <2>4
    <3> QED
      BY <2>2, <3>1
  <2>6. n \in Nat /\ n <= Len(t) /\ n # 0
    BY <1>2, <2>4
  <2> QED
    BY <2>3, <2>4, <2>5, <2>6
<1> QED
  BY <1>3, <1>4

\* The first newline is known by what it is.
LEMMA LineEndIs ==
  ASSUME NEW t \in Seq(LineBytes), NEW n \in 1..Len(t), t[n] = "nl", \A i \in 1..(n - 1) : t[i] # "nl"
  PROVE  Sck!LineEnd(t) = n
<1> DEFINE m == Sck!LineEnd(t)
<1>1. /\ m \in Nat /\ m <= Len(t) /\ Len(t) \in Nat
      /\ m = 0 => \A i \in 1..Len(t) : t[i] # "nl"
      /\ m # 0 => t[m] = "nl" /\ \A i \in 1..(m - 1) : t[i] # "nl"
  BY LineEndRule
<1> HIDE DEF m
<1>2. m # 0
  BY <1>1
<1>3. ~(m < n)
  BY <1>1, <1>2
<1>4. ~(n < m)
  BY <1>1, <1>2
<1> QED
  BY <1>1, <1>3, <1>4 DEF m

LEMMA TextRule ==
  ASSUME NEW t \in Seq(LineBytes), \A i \in 1..Len(t) : t[i] # "nul"
  PROVE  Sck!Text(t) = t
<1>1. {i \in 1..Len(t) : t[i] = "nul"} = {}
  OBVIOUS
<1>2. Sck!SelectInSeq(t, LAMBDA b : b = "nul") = 0
  BY <1>1 DEF Sck!SelectInSeq
<1> QED
  BY <1>2 DEF Sck!Text

FromStep(s, f, k) ==
  IF k > Len(s) THEN <<>>
  ELSE IF Sck!LineEnd(SubSeq(s, k, Len(s))) = 0 THEN <<SubSeq(s, k, Len(s))>>
  ELSE <<SubSeq(s, k, k + Sck!LineEnd(SubSeq(s, k, Len(s))) - 2)>> \o f[k + Sck!LineEnd(SubSeq(s, k, Len(s)))]
Gathers(s, f) == f = [k \in 1..(Len(s) + 1) |-> FromStep(s, f, k)]
From(s) == CHOOSE f : Gathers(s, f)

LEMMA LinesFrom == ASSUME NEW s PROVE Sck!LinesOf(s) = From(s)[1]
BY DEF Sck!LinesOf, From, Gathers, FromStep

\* Where a line's newline leaves the one that follows.
LEMMA EndInside ==
  ASSUME NEW s \in Seq(LineBytes), NEW k \in 1..Len(s)
  PROVE  /\ Sck!LineEnd(SubSeq(s, k, Len(s))) \in Nat
         /\ k + Sck!LineEnd(SubSeq(s, k, Len(s))) <= Len(s) + 1
<1> DEFINE r == SubSeq(s, k, Len(s))
<1>1. Len(s) \in Nat /\ k \in Nat /\ k >= 1 /\ k <= Len(s) + 1
  OBVIOUS
<1>2. r \in Seq(LineBytes) /\ Len(r) = Len(s) - k + 1
  BY <1>1, PartRule
<1> HIDE DEF r
<1>3. Sck!LineEnd(r) \in Nat /\ Sck!LineEnd(r) <= Len(r)
  BY <1>2, LineEndRule
<1> QED
  BY <1>1, <1>2, <1>3 DEF r

LEMMA FromStepSame ==
  ASSUME NEW s \in Seq(LineBytes), NEW k \in 1..(Len(s) + 1), NEW f, NEW g,
         \A j \in (k + 1)..(Len(s) + 1) : f[j] = g[j]
  PROVE  FromStep(s, f, k) = FromStep(s, g, k)
<1>1. CASE k > Len(s)
  BY <1>1 DEF FromStep
<1>2. CASE ~(k > Len(s))
  <2> DEFINE n == Sck!LineEnd(SubSeq(s, k, Len(s)))
  <2>1. Len(s) \in Nat /\ k \in 1..Len(s)
    BY <1>2
  <2>2. n \in Nat /\ k + n <= Len(s) + 1
    BY <2>1, EndInside
  <2> HIDE DEF n
  <2>3. n # 0 => k + n \in (k + 1)..(Len(s) + 1)
    BY <2>1, <2>2
  <2>4. n # 0 => f[k + n] = g[k + n]
    BY <2>3
  <2> QED
    BY <2>4 DEF FromStep, n
<1> QED
  BY <1>1, <1>2

LEMMA FromExists == ASSUME NEW s \in Seq(LineBytes) PROVE Gathers(s, From(s))
<1> DEFINE L == Len(s)
           Some(d) == \E f : f = [k \in (L + 1 - d)..(L + 1) |-> FromStep(s, f, k)]
           S == {d \in Nat : d <= L => Some(d)}
<1>1. L \in Nat
  OBVIOUS
<1> HIDE DEF L
<1>2. 0 \in S
  <2> DEFINE g == [k \in (L + 1)..(L + 1) |-> <<>>]
  <2>1. \A k \in (L + 1)..(L + 1) : FromStep(s, g, k) = <<>>
    BY <1>1 DEF FromStep, L
  <2>2. g = [k \in (L + 1 - 0)..(L + 1) |-> FromStep(s, g, k)]
    BY <1>1, <2>1
  <2> QED
    BY <2>2
<1>3. ASSUME NEW d \in Nat, d \in S PROVE d + 1 \in S
  <2> SUFFICES ASSUME d + 1 <= L PROVE Some(d + 1)
    OBVIOUS
  <2>1. PICK f : f = [k \in (L + 1 - d)..(L + 1) |-> FromStep(s, f, k)]
    BY <1>1, <1>3
  <2> DEFINE c == L + 1 - (d + 1)
             g == [k \in c..(L + 1) |-> IF k = c THEN FromStep(s, f, c) ELSE f[k]]
  <2>2. c \in Nat /\ c >= 1 /\ c <= L /\ L + 1 - d = c + 1
    BY <1>1
  <2>3. \A k \in c..(L + 1) : k # c => g[k] = f[k]
    OBVIOUS
  <2>4. g[c] = FromStep(s, f, c)
    BY <1>1, <2>2
  <2>5. \A k \in (c + 1)..(L + 1) : f[k] = FromStep(s, f, k)
    <3> TAKE j \in (c + 1)..(L + 1)
    <3>1. f[j] = [k \in (L + 1 - d)..(L + 1) |-> FromStep(s, f, k)][j]
      BY <2>1
    <3> QED
      BY <2>2, <3>1
  <2> HIDE DEF g
  <2>6. ASSUME NEW k \in c..(L + 1) PROVE g[k] = FromStep(s, g, k)
    <3>1. k \in 1..(L + 1) /\ \A j \in (k + 1)..(L + 1) : j \in c..(L + 1) /\ j # c
      BY <1>1, <2>2
    <3>2. \A j \in (k + 1)..(L + 1) : f[j] = g[j]
      BY <2>3, <3>1
    <3>3. FromStep(s, f, k) = FromStep(s, g, k)
      BY <3>1, <3>2, FromStepSame DEF L
    <3>4. CASE k = c
      BY <2>4, <3>3, <3>4
    <3>5. CASE k # c
      <4>1. k \in (c + 1)..(L + 1)
        BY <1>1, <2>2, <3>5
      <4> QED
        BY <2>3, <2>5, <3>3, <3>5, <4>1
    <3> QED
      BY <3>4, <3>5
  <2>7. g = [k \in c..(L + 1) |-> FromStep(s, g, k)]
    <3>1. g = [k \in c..(L + 1) |-> g[k]]
      BY DEF g
    <3> QED
      BY <2>6, <3>1
  <2> QED
    BY <2>7
<1>4. L \in S
  <2> HIDE DEF S
  <2>1. Nat \subseteq S
    BY <1>2, <1>3, StepByStep
  <2> QED
    BY <1>1, <2>1
<1>5. Some(L)
  BY <1>1, <1>4
<1>6. L + 1 - L = 1
  BY <1>1
<1>7. \E f : Gathers(s, f)
  BY <1>5, <1>6 DEF Gathers, L
<1> QED
  BY <1>7 DEF From

LEMMA FromAt ==
  ASSUME NEW s \in Seq(LineBytes), NEW k \in 1..(Len(s) + 1)
  PROVE  From(s)[k] = FromStep(s, From(s), k)
<1> DEFINE f == From(s)
<1>1. f = [j \in 1..(Len(s) + 1) |-> FromStep(s, f, j)]
  BY FromExists DEF Gathers
<1> HIDE DEF f
<1>2. f[k] = [j \in 1..(Len(s) + 1) |-> FromStep(s, f, j)][k]
  BY <1>1
<1> QED
  BY <1>2 DEF f

\* The lines from every place on are sequences of bytes.
LEMMA FromType ==
  ASSUME NEW s \in Seq(LineBytes)
  PROVE  \A k \in 1..(Len(s) + 1) : From(s)[k] \in Seq(Seq(LineBytes))
<1> DEFINE L == Len(s)
           T == Seq(Seq(LineBytes))
           Fine(d) == \A k \in 1..(L + 1) : k >= L + 1 - d => From(s)[k] \in T
           S == {d \in Nat : Fine(d)}
<1>1. L \in Nat
  OBVIOUS
<1> HIDE DEF L
<1>2. 0 \in S
  <2>1. ASSUME NEW k \in 1..(L + 1), k >= L + 1 - 0 PROVE From(s)[k] \in T
    <3>1. k > Len(s) /\ k \in 1..(Len(s) + 1)
      BY <1>1, <2>1 DEF L
    <3>2. From(s)[k] = <<>>
      BY <3>1, FromAt DEF FromStep
    <3> QED
      BY <3>2
  <2> QED
    BY <2>1
<1>3. ASSUME NEW d \in Nat, d \in S PROVE d + 1 \in S
  <2>1. ASSUME NEW k \in 1..(L + 1), k >= L + 1 - (d + 1) PROVE From(s)[k] \in T
    <3> DEFINE n == Sck!LineEnd(SubSeq(s, k, Len(s)))
               x == SubSeq(s, k, Len(s))
               y == SubSeq(s, k, k + n - 2)
    <3>1. From(s)[k] = FromStep(s, From(s), k)
      BY FromAt DEF L
    <3>2. CASE k > Len(s)
      <4>1. From(s)[k] = <<>>
        BY <3>1, <3>2 DEF FromStep
      <4> QED
        BY <4>1
    <3>3. CASE ~(k > Len(s))
      <4>1. k \in 1..Len(s) /\ k \in Nat
        BY <1>1, <3>3 DEF L
      <4>2. n \in Nat /\ k + n <= Len(s) + 1
        BY <4>1, EndInside
      <4>3. x \in Seq(LineBytes)
        BY <4>1, PartRule
      <4>4. FromStep(s, From(s), k) = IF n = 0 THEN <<x>> ELSE <<y>> \o From(s)[k + n]
        BY <3>3 DEF FromStep
      <4>5. CASE n = 0
        <5> HIDE DEF x, n, y
        <5>1. <<x>> \in T
          BY <4>3
        <5> QED
          BY <3>1, <4>4, <4>5, <5>1
      <4>6. CASE n # 0
        <5> HIDE DEF n
        <5>1. k + n - 2 \in Nat /\ k <= k + n - 2 + 1 /\ k + n - 2 <= Len(s) /\ k >= 1
          BY <1>1, <4>1, <4>2, <4>6 DEF L
        <5>2. y \in Seq(LineBytes)
          <6> DEFINE b == k + n - 2
          <6> HIDE DEF b
          <6>1. b \in Nat /\ k <= b + 1 /\ b <= Len(s) /\ k >= 1
            BY <5>1 DEF b
          <6>2. SubSeq(s, k, b) \in Seq(LineBytes)
            BY <4>1, <6>1, PartRule
          <6> QED
            BY <6>2 DEF b
        <5>3. k + n \in 1..(L + 1) /\ k + n >= L + 1 - d
          BY <1>1, <2>1, <4>1, <4>2, <4>6 DEF L
        <5>4. From(s)[k + n] \in T
          BY <1>3, <5>3
        <5> HIDE DEF x, y
        <5>5. <<y>> \in T
          BY <5>2
        <5>6. <<y>> \o From(s)[k + n] \in T
          BY <5>4, <5>5, JoinRule
        <5> QED
          BY <3>1, <4>4, <4>6, <5>6
      <4> QED
        BY <4>5, <4>6
    <3> QED
      BY <3>2, <3>3
  <2>2. Fine(d + 1)
    BY <2>1
  <2> QED
    BY <2>2
<1>4. L \in S
  <2> HIDE DEF S
  <2>1. Nat \subseteq S
    BY <1>2, <1>3, StepByStep
  <2> QED
    BY <1>1, <2>1
<1>5. \A k \in 1..(L + 1) : k >= L + 1 - L
  BY <1>1
<1> QED
  BY <1>4, <1>5 DEF L

\* After c lines of s have been read, r is what is left of it.
Ahead(s, c, r) ==
  \E k \in 1..(Len(s) + 1) :
    /\ r = SubSeq(s, k, Len(s))
    /\ Len(From(s)[1]) = c + Len(From(s)[k])
    /\ \A i \in 1..Len(From(s)[k]) : From(s)[1][c + i] = From(s)[k][i]

LEMMA AheadAll == ASSUME NEW s \in Seq(LineBytes) PROVE Ahead(s, 0, s)
<1>1. Len(s) \in Nat /\ 1 \in 1..(Len(s) + 1) /\ SubSeq(s, 1, Len(s)) = s
  OBVIOUS
<1>2. From(s)[1] \in Seq(Seq(LineBytes))
  BY <1>1, FromType
<1> DEFINE t == From(s)[1]
<1> HIDE DEF t
<1>3. Len(t) = 0 + Len(t) /\ \A i \in 1..Len(t) : t[0 + i] = t[i]
  <2>1. t \in Seq(Seq(LineBytes))
    BY <1>2 DEF t
  <2>2. Len(t) \in Nat
    BY <2>1
  <2> QED
    BY <2>2
<1> QED
  BY <1>1, <1>3 DEF Ahead, t

LEMMA AheadType ==
  ASSUME NEW s \in Seq(LineBytes), NEW c, NEW r, Ahead(s, c, r)
  PROVE  /\ r \in Seq(LineBytes) /\ Len(r) \in Nat
         /\ (\A i \in 1..Len(s) : s[i] # "nul") => \A i \in 1..Len(r) : r[i] # "nul"
<1>1. PICK k \in 1..(Len(s) + 1) : r = SubSeq(s, k, Len(s))
  BY DEF Ahead
<1>2. Len(s) \in Nat /\ k \in Nat /\ k >= 1 /\ k <= Len(s) + 1
  OBVIOUS
<1>3. r \in Seq(LineBytes) /\ Len(r) = Len(s) - k + 1 /\ \A i \in 1..(Len(s) - k + 1) : r[i] = s[k + i - 1]
  BY <1>1, <1>2, PartRule
<1>4. \A i \in 1..Len(r) : k + i - 1 \in 1..Len(s)
  BY <1>2, <1>3
<1> QED
  BY <1>3, <1>4

\* Nothing left: every line has been read.
LEMMA AheadNone ==
  ASSUME NEW s \in Seq(LineBytes), NEW c \in Nat, Ahead(s, c, <<>>)
  PROVE  Len(From(s)[1]) = c
<1>1. PICK k \in 1..(Len(s) + 1) : <<>> = SubSeq(s, k, Len(s)) /\ Len(From(s)[1]) = c + Len(From(s)[k])
  BY DEF Ahead
<1>2. Len(s) \in Nat /\ k \in Nat /\ k >= 1 /\ k <= Len(s) + 1
  OBVIOUS
<1>3. Len(SubSeq(s, k, Len(s))) = Len(s) - k + 1
  BY <1>2, PartRule
<1>6. Len(SubSeq(s, k, Len(s))) = 0
  <2> DEFINE r == SubSeq(s, k, Len(s))
  <2>1. r = <<>>
    BY <1>1
  <2> HIDE DEF r
  <2>2. Len(r) = 0
    BY <2>1
  <2> QED
    BY <2>2 DEF r
<1>4. k > Len(s)
  BY <1>2, <1>3, <1>6
<1>5. From(s)[k] = <<>>
  BY <1>4, FromAt DEF FromStep
<1> QED
  BY <1>1, <1>5

\* No newline left: the last line.
LEMMA AheadLast ==
  ASSUME NEW s \in Seq(LineBytes), NEW c \in Nat, NEW r, Ahead(s, c, r), r # <<>>, Sck!LineEnd(r) = 0
  PROVE  c + 1 <= Len(From(s)[1]) /\ From(s)[1][c + 1] = r /\ Ahead(s, c + 1, <<>>)
<1>1. PICK k \in 1..(Len(s) + 1) :
        /\ r = SubSeq(s, k, Len(s)) /\ Len(From(s)[1]) = c + Len(From(s)[k])
        /\ \A i \in 1..Len(From(s)[k]) : From(s)[1][c + i] = From(s)[k][i]
  BY DEF Ahead
<1>2. Len(s) \in Nat /\ k \in Nat /\ k >= 1 /\ k <= Len(s) + 1
  OBVIOUS
<1>3. r \in Seq(LineBytes) /\ Len(r) = Len(s) - k + 1
  BY <1>1, <1>2, PartRule
<1>4. ~(k > Len(s))
  BY <1>2, <1>3
<1>5. From(s)[k] = <<r>>
  BY <1>1, <1>4, FromAt DEF FromStep
<1>6. Len(<<r>>) = 1 /\ <<r>>[1] = r
  OBVIOUS
<1>7. Len(From(s)[1]) = c + 1 /\ From(s)[1][c + 1] = r
  <2> DEFINE z == From(s)[k]
             w == From(s)[1]
  <2>1. Len(z) = 1 /\ z[1] = r
    BY <1>5, <1>6
  <2>2. Len(w) = c + Len(z) /\ \A i \in 1..Len(z) : w[c + i] = z[i]
    BY <1>1
  <2> HIDE DEF z, w
  <2>3. Len(w) = c + 1 /\ w[c + 1] = r
    BY <2>1, <2>2
  <2> QED
    BY <2>3 DEF w
<1>8. From(s)[Len(s) + 1] = <<>>
  <2>1. Len(s) + 1 \in 1..(Len(s) + 1) /\ Len(s) + 1 > Len(s)
    BY <1>2
  <2> QED
    BY <2>1, FromAt DEF FromStep
<1>9. SubSeq(s, Len(s) + 1, Len(s)) = <<>>
  BY <1>2
<1>10. Ahead(s, c + 1, <<>>)
  <2>1. Len(s) + 1 \in 1..(Len(s) + 1) /\ Len(<<>>) = 0 /\ c + 1 = c + 1 + 0 /\ 1..0 = {}
    BY <1>2
  <2> QED
    BY <1>7, <1>8, <1>9, <2>1 DEF Ahead
<1> QED
  BY <1>7, <1>10

\* A newline: the line in front of it, and what is behind it is left.
LEMMA AheadLine ==
  ASSUME NEW s \in Seq(LineBytes), NEW c \in Nat, NEW r, Ahead(s, c, r), NEW n, n = Sck!LineEnd(r), n # 0
  PROVE  /\ c + 1 <= Len(From(s)[1]) /\ From(s)[1][c + 1] = SubSeq(r, 1, n - 1)
         /\ Ahead(s, c + 1, SubSeq(r, n + 1, Len(r)))
<1>1. PICK k \in 1..(Len(s) + 1) :
        /\ r = SubSeq(s, k, Len(s)) /\ Len(From(s)[1]) = c + Len(From(s)[k])
        /\ \A i \in 1..Len(From(s)[k]) : From(s)[1][c + i] = From(s)[k][i]
  BY DEF Ahead
<1>2. Len(s) \in Nat /\ k \in Nat /\ k >= 1 /\ k <= Len(s) + 1
  OBVIOUS
<1>3. r \in Seq(LineBytes) /\ Len(r) = Len(s) - k + 1
  BY <1>1, <1>2, PartRule
<1>4. n \in Nat /\ n >= 1 /\ n <= Len(r)
  BY <1>3, LineEndRule
<1>5. ~(k > Len(s)) /\ k + n \in 1..(Len(s) + 1) /\ k + n - 2 \in Nat
  BY <1>2, <1>3, <1>4
<1> DEFINE x == SubSeq(s, k, k + n - 2)
           t == From(s)[k + n]
           w == From(s)[1]
<1>6. From(s)[k] = <<x>> \o t
  BY <1>1, <1>5, FromAt DEF FromStep
<1>7. x = SubSeq(r, 1, n - 1)
  <2> DEFINE b == n - 1
  <2>1. b \in Nat /\ 1 <= b + 1 /\ b <= Len(s) + 1 - k /\ k + 1 - 1 = k /\ k + b - 1 = k + n - 2
    BY <1>2, <1>3, <1>4
  <2> HIDE DEF b
  <2>2. SubSeq(SubSeq(s, k, Len(s)), 1, b) = SubSeq(s, k + 1 - 1, k + b - 1)
    BY <1>2, <2>1, PartOfPart
  <2> QED
    BY <1>1, <2>1, <2>2 DEF b
<1>8. SubSeq(r, n + 1, Len(r)) = SubSeq(s, k + n, Len(s))
  <2> DEFINE a == n + 1
             b == Len(s) + 1 - k
  <2>1. /\ a \in Nat /\ b \in Nat /\ a >= 1 /\ a <= b + 1 /\ b <= Len(s) + 1 - k
        /\ k + a - 1 = k + n /\ k + b - 1 = Len(s) /\ b = Len(r)
    BY <1>2, <1>3, <1>4
  <2> HIDE DEF a, b
  <2>2. SubSeq(SubSeq(s, k, Len(s)), a, b) = SubSeq(s, k + a - 1, k + b - 1)
    BY <1>2, <2>1, PartOfPart
  <2> QED
    BY <1>1, <2>1, <2>2 DEF a
<1>9. x \in Seq(LineBytes) /\ t \in Seq(Seq(LineBytes))
  <2>1. n - 1 \in Nat /\ 1 <= n - 1 + 1 /\ n - 1 <= Len(r)
    BY <1>3, <1>4
  <2>2. SubSeq(r, 1, n - 1) \in Seq(LineBytes)
    BY <1>3, <2>1, PartRule
  <2> QED
    BY <1>5, <1>7, <2>2, FromType
<1> HIDE DEF x, t
<1>10. <<x>> \in Seq(Seq(LineBytes)) /\ Len(<<x>>) = 1 /\ <<x>>[1] = x
  BY <1>9
<1>11. /\ Len(<<x>> \o t) = 1 + Len(t) /\ Len(t) \in Nat /\ (<<x>> \o t)[1] = x
       /\ \A i \in 1..Len(t) : (<<x>> \o t)[1 + i] = t[i]
  <2> DEFINE o == <<x>>
  <2> HIDE DEF o
  <2>1. o \in Seq(Seq(LineBytes)) /\ Len(o) = 1 /\ o[1] = x
    BY <1>10 DEF o
  <2>2. Len(o \o t) = Len(o) + Len(t)
    BY <1>9, <2>1, JoinRule
  <2>3. \A i \in 1..Len(o) : (o \o t)[i] = o[i]
    BY <1>9, <2>1, JoinRule
  <2>4. ASSUME NEW i \in 1..Len(t) PROVE (o \o t)[Len(o) + i] = t[i]
    <3>1. o \in Seq(Seq(LineBytes)) /\ t \in Seq(Seq(LineBytes))
      BY <1>9, <2>1
    <3> QED
      BY ONLY <3>1, JoinRule
  <2>5. Len(t) \in Nat
    BY <1>9
  <2> QED
    BY <2>1, <2>2, <2>3, <2>4, <2>5 DEF o
<1> HIDE DEF w
<1>12. Len(w) = c + 1 + Len(t) /\ w[c + 1] = x /\ \A i \in 1..Len(t) : w[c + 1 + i] = t[i]
  <2> DEFINE z == <<x>> \o t
  <2>1. Len(w) = c + Len(z) /\ \A i \in 1..Len(z) : w[c + i] = z[i]
    BY <1>1, <1>6 DEF w
  <2>2. Len(z) = 1 + Len(t) /\ z[1] = x /\ \A i \in 1..Len(t) : z[1 + i] = t[i]
    BY <1>11
  <2> HIDE DEF z
  <2>3. Len(t) \in Nat /\ 1 \in 1..Len(z) /\ \A i \in 1..Len(t) : 1 + i \in 1..Len(z)
    BY <1>11, <2>2
  <2>4. w[c + 1] = x
    BY <2>1, <2>2, <2>3
  <2>5. ASSUME NEW i \in 1..Len(t) PROVE w[c + 1 + i] = t[i]
    <3>1. w[c + (1 + i)] = z[1 + i] /\ c + (1 + i) = c + 1 + i
      BY <2>1, <2>3
    <3> QED
      BY <2>2, <3>1
  <2> QED
    BY <2>1, <2>2, <2>3, <2>4, <2>5
<1>13. c + 1 <= Len(w)
  BY <1>11, <1>12
<1>14. Ahead(s, c + 1, SubSeq(r, n + 1, Len(r)))
  BY <1>5, <1>8, <1>12 DEF Ahead, t, w
<1> QED
  BY <1>7, <1>12, <1>13, <1>14 DEF w

(***************************************************************************)
(* The readers of files.  While one has not failed, what its stream holds  *)
(* is the text from the start of the line after those it gave.             *)
(***************************************************************************)
CutLine(l) == IF Len(l) < FirstSize THEN l ELSE SubSeq(l, 1, FirstSize - 1)

GoodLine(who, s, text, j) ==
  /\ who = "dropping" => text = CutLine(From(s)[1][j])
  /\ who = "strict" => text = From(s)[1][j] /\ Len(text) < FirstSize - 1

NoNul == \A i \in 1..Len(all) : all[i] # "nul"

FileReads ==
  reader # "socket" /\ NoNul =>
    /\ rpc = "idle" => Ahead(all, Len(given), rstream)
    /\ Len(given) <= Len(From(all)[1])
    /\ \A j \in 1..Len(given) : GoodLine(reader, all, given[j].text, j)
    /\ reader = "dropping" /\ rpc = "failed" => Len(given) = Len(From(all)[1])

LEMMA FirstOfFirst ==
  ASSUME NEW S, NEW s \in Seq(S), NEW w \in Nat, NEW q \in Nat, q <= w, w <= Len(s)
  PROVE  SubSeq(SubSeq(s, 1, w), 1, q) = SubSeq(s, 1, q)
<1> DEFINE r == SubSeq(s, 1, w)
           x == SubSeq(r, 1, q)
           y == SubSeq(s, 1, q)
<1>0. Len(s) \in Nat /\ w \in 0..Len(s) /\ q \in 0..Len(s)
  OBVIOUS
<1>1. r \in Seq(S) /\ Len(r) = w /\ \A i \in 1..w : r[i] = s[i]
  BY <1>0, FirstRule
<1>2. y \in Seq(S) /\ Len(y) = q /\ \A i \in 1..q : y[i] = s[i]
  BY <1>0, FirstRule
<1> HIDE DEF r
<1>3. q \in 0..Len(r)
  BY <1>1
<1>4. x \in Seq(S) /\ Len(x) = q /\ \A i \in 1..q : x[i] = r[i]
  BY <1>1, <1>3, FirstRule
<1> HIDE DEF x, y
<1>5. \A i \in 1..q : i \in 1..w
  OBVIOUS
<1>6. \A i \in 1..q : x[i] = y[i]
  BY <1>1, <1>2, <1>4, <1>5
<1>7. x = y
  BY <1>2, <1>4, <1>6, SameSeq
<1> QED
  BY <1>7 DEF x, y, r

\* What fgets takes: to the newline or the end, but no more than there is room for.
Whole(r) == IF Sck!LineEnd(r) = 0 THEN Len(r) ELSE Sck!LineEnd(r)
Bite(r) == IF Whole(r) <= FirstSize - 1 THEN Whole(r) ELSE FirstSize - 1

LEMMA BiteRule ==
  ASSUME Sck!ReaderAssumption, rstream \in Seq(LineBytes)
  PROVE  /\ Sck!Taken = SubSeq(rstream, 1, Bite(rstream))
         /\ Whole(rstream) \in Nat /\ Whole(rstream) <= Len(rstream)
         /\ Bite(rstream) \in Nat /\ Bite(rstream) <= Whole(rstream)
         /\ Bite(rstream) <= FirstSize - 1 /\ FirstSize \in Nat /\ FirstSize >= 2
<1> DEFINE n == Sck!LineEnd(rstream)
           w == Whole(rstream)
           q == Bite(rstream)
           t == SubSeq(rstream, 1, w)
<1>1. FirstSize \in Nat /\ FirstSize >= 2 /\ Len(rstream) \in Nat
  BY DEF Sck!ReaderAssumption
<1>2. n \in Nat /\ n <= Len(rstream)
  BY LineEndRule
<1>3. w \in Nat /\ w <= Len(rstream)
  BY <1>1, <1>2 DEF Whole
<1>4. Sck!Upto(rstream, n) = t
  BY <1>1, <1>2 DEF Sck!Upto, Whole
<1>5. Len(t) = w
  <2>1. w \in 0..Len(rstream)
    BY <1>1, <1>3
  <2> HIDE DEF w
  <2> QED
    BY <2>1, FirstRule
<1>6. q \in Nat /\ q <= w /\ q <= FirstSize - 1
  BY <1>1, <1>3 DEF Bite
<1>7. (IF FirstSize - 1 = 0 \/ FirstSize - 1 > w THEN w ELSE FirstSize - 1) = q
  BY <1>1, <1>3 DEF Bite
<1>8. Sck!Upto(t, FirstSize - 1) = SubSeq(t, 1, q)
  <2> HIDE DEF t, q, w
  <2> QED
    BY <1>5, <1>7 DEF Sck!Upto
<1>9. SubSeq(t, 1, q) = SubSeq(rstream, 1, q)
  <2> HIDE DEF w, q
  <2> QED
    BY <1>3, <1>6, FirstOfFirst
<1>10. Sck!Taken = Sck!Upto(Sck!Upto(rstream, n), FirstSize - 1)
  BY DEF Sck!Taken
<1> QED
  BY <1>1, <1>3, <1>4, <1>6, <1>8, <1>9, <1>10

\* What the readers make of it, whatever the bytes.
LEMMA NulPlace ==
  ASSUME NEW t \in Seq(LineBytes)
  PROVE  Sck!SelectInSeq(t, LAMBDA b : b = "nul") \in Nat /\ Sck!SelectInSeq(t, LAMBDA b : b = "nul") <= Len(t)
<1> DEFINE I == {i \in 1..Len(t) : t[i] = "nul"}
           n == CHOOSE p \in I : \A q \in I : p <= q
           m == Sck!SelectInSeq(t, LAMBDA b : b = "nul")
<1>1. m = IF I # {} THEN n ELSE 0
  BY DEF Sck!SelectInSeq, Sck!Min
<1>2. Len(t) \in Nat /\ I \subseteq Nat
  OBVIOUS
<1>3. I # {} => \E p \in I : \A q \in I : p <= q
  BY <1>2, Least
<1>4. I # {} => n \in I
  BY <1>3
<1> HIDE DEF n, m
<1>5. m \in Nat /\ m <= Len(t)
  BY <1>1, <1>2, <1>4
<1> QED
  BY <1>5 DEF m

LEMMA TextType ==
  ASSUME NEW t \in Seq(LineBytes)
  PROVE  Sck!Text(t) \in Seq(LineBytes) /\ (Sck!LineEnd(Sck!Text(t)) # 0 => Sck!Front(Sck!Text(t)) \in Seq(LineBytes))
<1> DEFINE m == Sck!SelectInSeq(t, LAMBDA b : b = "nul")
           x == Sck!Text(t)
<1>1. m \in Nat /\ m <= Len(t) /\ Len(t) \in Nat
  BY NulPlace
<1>2. x = IF m = 0 THEN t ELSE SubSeq(t, 1, m - 1)
  BY DEF Sck!Text
<1> HIDE DEF m, x
<1>3. x \in Seq(LineBytes)
  <2>1. CASE m = 0
    BY <1>2, <2>1
  <2>2. CASE m # 0
    <3>1. m - 1 \in 0..Len(t)
      BY <1>1, <2>2
    <3>2. SubSeq(t, 1, m - 1) \in Seq(LineBytes)
      BY <3>1, FirstRule
    <3> QED
      BY <1>2, <2>2, <3>2
  <2> QED
    BY <2>1, <2>2
<1>4. ASSUME Sck!LineEnd(x) # 0 PROVE Sck!Front(x) \in Seq(LineBytes)
  <2>1. Sck!LineEnd(x) \in Nat /\ Sck!LineEnd(x) <= Len(x) /\ Len(x) \in Nat
    BY <1>3, LineEndRule
  <2>2. Len(x) - 1 \in 0..Len(x)
    BY <1>4, <2>1
  <2>3. SubSeq(x, 1, Len(x) - 1) \in Seq(LineBytes)
    BY <1>3, <2>2, FirstRule
  <2> QED
    BY <2>3 DEF Sck!Front
<1> QED
  BY <1>3, <1>4 DEF x

\* What a reader of a file does keeps the types, and says nothing of a connection.
LEMMA FileTypes ==
  ASSUME SocketReads, reader # "socket", rstream' \in Seq(LineBytes), rpc' \in {"idle", "failed"},
         given' = given \/ \E x \in Seq(LineBytes), e \in BOOLEAN : Sck!Give(x, e),
         UNCHANGED <<reader, all, blocking, coming, open, temp, cap>>
  PROVE  SocketReads'
<1>1. ReaderTypes /\ given \in Seq(GivenLines) /\ Flat(LinePieces(given)) \in Seq(LineBytes)
  BY DEF SocketReads, ReaderTypes
<1>2. given' \in Seq(GivenLines) /\ Flat(LinePieces(given')) \in Seq(LineBytes)
  <2>1. CASE given' = given
    BY <1>1, <2>1
  <2>2. ASSUME NEW x \in Seq(LineBytes), NEW e \in BOOLEAN, Sck!Give(x, e)
        PROVE  given' \in Seq(GivenLines) /\ Flat(LinePieces(given')) \in Seq(LineBytes)
    <3> DEFINE g == [text |-> x, ended |-> e]
    <3>1. g \in GivenLines /\ given' = Append(given, g)
      BY <2>2 DEF GivenLines, Sck!Give
    <3> HIDE DEF g
    <3>2. given' \in Seq(GivenLines)
      BY <1>1, <3>1, AppendRule
    <3>3. Flat(LinePieces(Append(given, g))) \in Seq(LineBytes)
      BY <1>1, <3>1, GivenMore
    <3> QED
      BY <3>1, <3>2, <3>3
  <2> QED
    BY <2>1, <2>2
<1>3. ReaderTypes'
  BY <1>1, <1>2 DEF ReaderTypes
<1> QED
  BY <1>3 DEF SocketReads, SocketBytes, NoNewline

LEMMA FileGives ==
  ASSUME SocketReads, FileReads, reader # "socket", NoNul, rpc = "idle", rpc' = "idle", UNCHANGED <<reader, all>>,
         NEW x \in Seq(LineBytes), NEW e \in BOOLEAN, Sck!Give(x, e),
         Len(given) + 1 <= Len(From(all)[1]), Ahead(all, Len(given) + 1, rstream'), GoodLine(reader, all, x, Len(given) + 1)
  PROVE  FileReads'
<1> DEFINE g == [text |-> x, ended |-> e]
<1>1. g \in GivenLines /\ given' = Append(given, g) /\ g.text = x
  BY DEF GivenLines, Sck!Give
<1> HIDE DEF g
<1>2. given \in Seq(GivenLines) /\ Len(given) \in Nat
  BY DEF SocketReads, ReaderTypes
<1>3. /\ Len(given') = Len(given) + 1 /\ given'[Len(given) + 1] = g
      /\ \A i \in 1..Len(given) : given'[i] = given[i]
  BY <1>1, <1>2, AppendRule
<1>4. ASSUME NEW j \in 1..Len(given') PROVE GoodLine(reader, all, given'[j].text, j)
  <2>1. j \in 1..Len(given) \/ j = Len(given) + 1
    BY <1>2, <1>3
  <2>2. CASE j = Len(given) + 1
    BY <1>1, <1>3, <2>2
  <2>3. CASE j \in 1..Len(given)
    BY <1>3, <2>3 DEF FileReads
  <2> QED
    BY <2>1, <2>2, <2>3
<1>5. Ahead(all, Len(given'), rstream') /\ Len(given') <= Len(From(all)[1])
  BY <1>3
<1> QED
  BY <1>4, <1>5 DEF FileReads

\* Where no nul is, a newline is found when the whole line was taken.
LEMMA TakenText ==
  ASSUME Sck!ReaderAssumption, rstream \in Seq(LineBytes), \A i \in 1..Len(rstream) : rstream[i] # "nul"
  PROVE  /\ Sck!Text(Sck!Taken) = Sck!Taken /\ Sck!Taken \in Seq(LineBytes) /\ Len(Sck!Taken) = Bite(rstream)
         /\ Sck!Newline => Sck!LineEnd(rstream) # 0 /\ Bite(rstream) = Sck!LineEnd(rstream)
         /\ Sck!LineEnd(rstream) # 0 /\ Bite(rstream) = Sck!LineEnd(rstream) => Sck!Newline
<1> DEFINE t == Sck!Taken
           q == Bite(rstream)
           n == Sck!LineEnd(rstream)
<1>1. t = SubSeq(rstream, 1, q) /\ q \in 0..Len(rstream) /\ q <= Whole(rstream) /\ Len(rstream) \in Nat /\ q \in Nat
  BY BiteRule
<1> HIDE DEF t, q
<1>2. t \in Seq(LineBytes) /\ Len(t) = q /\ \A i \in 1..q : t[i] = rstream[i]
  BY <1>1, FirstRule
<1>3. \A i \in 1..Len(t) : t[i] # "nul"
  BY <1>1, <1>2
<1>4. Sck!Text(t) = t
  BY <1>2, <1>3, TextRule
<1>5. Sck!Newline <=> Sck!LineEnd(t) # 0
  BY <1>4 DEF Sck!Newline, t
<1>6. /\ n \in Nat /\ n <= Len(rstream)
      /\ n = 0 => \A i \in 1..Len(rstream) : rstream[i] # "nl"
      /\ n # 0 => rstream[n] = "nl" /\ \A i \in 1..(n - 1) : rstream[i] # "nl"
  BY LineEndRule
<1> HIDE DEF n
<1>7. ASSUME Sck!LineEnd(t) # 0 PROVE n # 0 /\ q = n
  <2> DEFINE m == Sck!LineEnd(t)
  <2>1. m \in Nat /\ m <= q /\ t[m] = "nl" /\ m # 0
    BY <1>2, <1>7, LineEndRule
  <2> HIDE DEF m
  <2>2. m \in 1..q /\ m \in 1..Len(rstream) /\ rstream[m] = "nl"
    BY <1>1, <1>2, <2>1
  <2>3. n # 0
    BY <1>6, <2>2
  <2>4. ~(m \in 1..(n - 1))
    BY <1>6, <2>2, <2>3
  <2>5. n <= m
    BY <1>6, <2>1, <2>4
  <2>6. Whole(rstream) = n
    BY <2>3 DEF Whole, n
  <2> QED
    BY <1>1, <1>6, <2>1, <2>3, <2>5, <2>6
<1>8. ASSUME n # 0, q = n PROVE Sck!LineEnd(t) # 0
  <2>1. n \in 1..Len(t) /\ t[n] = "nl" /\ \A i \in 1..(n - 1) : t[i] # "nl"
    <3>1. n \in 1..q /\ \A i \in 1..(n - 1) : i \in 1..q
      BY <1>1, <1>6, <1>8
    <3> QED
      BY <1>2, <1>6, <1>8, <3>1
  <2>2. Sck!LineEnd(t) = n
    BY <1>2, <2>1, LineEndIs
  <2> QED
    BY <1>8, <2>2
<1> QED
  BY <1>2, <1>4, <1>5, <1>7, <1>8 DEF t, q, n

\* The newline seen: the line is given, without it, and the next one is ahead.
LEMMA WholeLine ==
  ASSUME Sck!ReaderAssumption, SocketReads, FileReads, reader # "socket", NoNul, rpc = "idle", Sck!Newline
  PROVE  LET x == Sck!Front(Sck!Text(Sck!Taken)) IN
         /\ x \in Seq(LineBytes) /\ Len(given) + 1 <= Len(From(all)[1])
         /\ Ahead(all, Len(given) + 1, Sck!Rest(Len(Sck!Taken))) /\ GoodLine(reader, all, x, Len(given) + 1)
<1> DEFINE n == Sck!LineEnd(rstream)
           x == SubSeq(rstream, 1, n - 1)
           c == Len(given)
<1>1. all \in Seq(LineBytes) /\ c \in Nat /\ Ahead(all, c, rstream)
  BY DEF SocketReads, ReaderTypes, FileReads
<1>2. rstream \in Seq(LineBytes) /\ Len(rstream) \in Nat /\ \A i \in 1..Len(rstream) : rstream[i] # "nul"
  BY <1>1, AheadType DEF NoNul
<1>3. /\ Sck!Text(Sck!Taken) = Sck!Taken /\ Sck!Taken \in Seq(LineBytes) /\ Len(Sck!Taken) = n
      /\ n # 0 /\ Bite(rstream) = n
  BY <1>2, TakenText
<1>4. Sck!Taken = SubSeq(rstream, 1, n) /\ n \in Nat /\ n <= Len(rstream) /\ n <= FirstSize - 1
      /\ FirstSize \in Nat
  BY <1>2, <1>3, BiteRule, LineEndRule
<1> HIDE DEF n
<1>5. Sck!Front(Sck!Text(Sck!Taken)) = x
  <2> DEFINE o == n - 1
  <2>1. o \in Nat /\ o <= n
    BY <1>3, <1>4
  <2> HIDE DEF o
  <2>2. SubSeq(SubSeq(rstream, 1, n), 1, o) = SubSeq(rstream, 1, o)
    BY <1>2, <1>4, <2>1, FirstOfFirst
  <2>3. Sck!Front(Sck!Taken) = SubSeq(Sck!Taken, 1, n - 1)
    BY <1>3 DEF Sck!Front
  <2> QED
    BY <1>3, <1>4, <2>2, <2>3 DEF o
<1>6. x \in Seq(LineBytes) /\ Len(x) = n - 1
  <2> DEFINE o == n - 1
  <2>1. o \in 0..Len(rstream)
    BY <1>2, <1>3, <1>4
  <2> HIDE DEF o
  <2>2. SubSeq(rstream, 1, o) \in Seq(LineBytes) /\ Len(SubSeq(rstream, 1, o)) = o
    BY <1>2, <2>1, FirstRule
  <2> QED
    BY <2>2 DEF o
<1>7. /\ c + 1 <= Len(From(all)[1]) /\ From(all)[1][c + 1] = x
      /\ Ahead(all, c + 1, SubSeq(rstream, n + 1, Len(rstream)))
  BY <1>1, <1>3, AheadLine DEF n
<1>8. Sck!Rest(Len(Sck!Taken)) = SubSeq(rstream, n + 1, Len(rstream))
  BY <1>3 DEF Sck!Rest
<1>9. Len(x) < FirstSize - 1 /\ Len(x) < FirstSize
  BY <1>3, <1>4, <1>6
<1> HIDE DEF x
<1>10. GoodLine(reader, all, x, c + 1)
  BY <1>7, <1>9 DEF GoodLine, CutLine
<1> QED
  BY <1>5, <1>6, <1>7, <1>8, <1>10

LEMMA FirstLen ==
  ASSUME Sck!ReaderAssumption, rstream \in Seq(LineBytes)
  PROVE  /\ Sck!Taken \in Seq(LineBytes) /\ Len(Sck!Taken) = Bite(rstream)
         /\ Sck!Rest(Len(Sck!Taken)) \in Seq(LineBytes)
<1>1. Sck!Taken = SubSeq(rstream, 1, Bite(rstream)) /\ Bite(rstream) \in 0..Len(rstream)
  BY BiteRule
<1>2. Sck!Taken \in Seq(LineBytes) /\ Len(Sck!Taken) = Bite(rstream)
  BY <1>1, FirstRule
<1>3. SubSeq(rstream, Bite(rstream) + 1, Len(rstream)) \in Seq(LineBytes)
  BY <1>1, AfterRule
<1> QED
  BY <1>2, <1>3 DEF Sck!Rest

LEMMA NulApart == ASSUME ~NoNul, all' = all PROVE FileReads'
<1>1. PICK i \in 1..Len(all) : all[i] = "nul"
  BY DEF NoNul
<1>2. i \in 1..Len(all') /\ all'[i] = "nul"
  BY <1>1
<1>3. ~NoNul'
  BY <1>2 DEF NoNul
<1> QED
  BY <1>3 DEF FileReads

LEMMA StrictGets ==
  ASSUME Sck!ReaderAssumption, SocketReads, FileReads, Sck!GetStrict
  PROVE  SocketReads' /\ FileReads'
<1>1. /\ reader = "strict" /\ reader # "socket" /\ rpc = "idle" /\ rstream' = Sck!Rest(Len(Sck!Taken))
      /\ UNCHANGED <<reader, all, blocking, coming, open, temp, cap>>
      /\ \/ Sck!Newline /\ Sck!Give(Sck!Front(Sck!Text(Sck!Taken)), TRUE) /\ rpc' = "idle"
         \/ rpc' = "failed" /\ given' = given
  BY DEF Sck!GetStrict, Sck!Fixed
<1>2. rstream \in Seq(LineBytes) /\ rstream' \in Seq(LineBytes) /\ Sck!Taken \in Seq(LineBytes)
  BY <1>1, FirstLen DEF SocketReads, ReaderTypes
<1>3. Sck!Newline => Sck!Front(Sck!Text(Sck!Taken)) \in Seq(LineBytes)
  BY <1>2, TextType DEF Sck!Newline
<1>4. SocketReads'
  BY <1>1, <1>2, <1>3, FileTypes
<1>7. (NoNul' <=> NoNul) /\ reader' = reader /\ all' = all
  BY <1>1 DEF NoNul
<1>5. CASE Sck!Newline /\ Sck!Give(Sck!Front(Sck!Text(Sck!Taken)), TRUE) /\ rpc' = "idle"
  <2> SUFFICES ASSUME NoNul PROVE FileReads'
    BY <1>4, <1>7, NulApart
  <2> DEFINE x == Sck!Front(Sck!Text(Sck!Taken))
  <2>1. /\ x \in Seq(LineBytes) /\ Len(given) + 1 <= Len(From(all)[1])
        /\ Ahead(all, Len(given) + 1, rstream') /\ GoodLine(reader, all, x, Len(given) + 1)
    BY <1>1, <1>5, WholeLine
  <2> HIDE DEF x
  <2>2. Sck!Give(x, TRUE)
    BY <1>5 DEF x
  <2> QED
    BY <1>1, <1>5, <2>1, <2>2, FileGives
<1>6. CASE rpc' = "failed" /\ given' = given
  <2> SUFFICES ASSUME NoNul PROVE FileReads'
    BY <1>4, <1>7, NulApart
  <2>1. Len(given) <= Len(From(all)[1]) /\ \A j \in 1..Len(given) : GoodLine(reader, all, given[j].text, j)
    BY <1>1 DEF FileReads
  <2> QED
    BY <1>1, <1>6, <1>7, <2>1 DEF FileReads
<1> QED
  BY <1>1, <1>4, <1>5, <1>6

\* No newline seen: the beginning of the line is given, and its rest dropped.
DropRest(b) == IF Sck!LineEnd(b) = 0 THEN <<>> ELSE SubSeq(b, Sck!LineEnd(b) + 1, Len(b))

LEMMA CutText ==
  ASSUME Sck!ReaderAssumption, SocketReads, FileReads, reader = "dropping", NoNul, rpc = "idle",
         rstream # <<>>, ~Sck!Newline
  PROVE  /\ Len(given) + 1 <= Len(From(all)[1])
         /\ Ahead(all, Len(given) + 1, DropRest(Sck!Rest(Len(Sck!Taken))))
         /\ Sck!Text(Sck!Taken) = CutLine(From(all)[1][Len(given) + 1])
<1> DEFINE n == Sck!LineEnd(rstream)
           q == Bite(rstream)
           b == Sck!Rest(Len(Sck!Taken))
           c == Len(given)
           L == Len(rstream)
<1>1. all \in Seq(LineBytes) /\ c \in Nat /\ Ahead(all, c, rstream)
  BY DEF SocketReads, ReaderTypes, FileReads
<1>2. rstream \in Seq(LineBytes) /\ L \in Nat /\ \A i \in 1..L : rstream[i] # "nul"
  BY <1>1, AheadType DEF NoNul
<1>3. /\ Sck!Text(Sck!Taken) = Sck!Taken /\ Sck!Taken = SubSeq(rstream, 1, q) /\ Len(Sck!Taken) = q
      /\ ~(n # 0 /\ q = n)
  BY <1>2, TakenText, BiteRule
<1>4. /\ q \in Nat /\ q <= L /\ q <= FirstSize - 1 /\ FirstSize \in Nat /\ FirstSize >= 2 /\ q <= Whole(rstream)
      /\ Whole(rstream) \in Nat /\ Whole(rstream) <= L
  BY <1>2, BiteRule
<1>5. /\ n \in Nat /\ n <= L
      /\ n = 0 => \A i \in 1..L : rstream[i] # "nl"
      /\ n # 0 => rstream[n] = "nl" /\ \A i \in 1..(n - 1) : rstream[i] # "nl"
  BY <1>2, LineEndRule
<1>6. q = IF Whole(rstream) <= FirstSize - 1 THEN Whole(rstream) ELSE FirstSize - 1
  BY DEF Bite
<1>7. Whole(rstream) = IF n = 0 THEN L ELSE n
  BY DEF Whole
<1> HIDE DEF q, L
<1>8. b = SubSeq(rstream, q + 1, L)
  BY <1>3 DEF Sck!Rest, L
<1>9. b \in Seq(LineBytes) /\ Len(b) = L - q /\ \A i \in 1..(L - q) : b[i] = rstream[q + i]
  <2>1. q \in 0..Len(rstream)
    BY <1>4 DEF L
  <2> HIDE DEF b
  <2> QED
    BY <1>2, <1>8, <2>1, AfterRule DEF L
<1> HIDE DEF b, n, c
<1>10. CASE n = 0
  <2>1. /\ c + 1 <= Len(From(all)[1]) /\ From(all)[1][c + 1] = rstream
        /\ Ahead(all, c + 1, <<>>)
    BY <1>1, <1>10, AheadLast DEF n
  <2>2. Sck!LineEnd(b) = 0
    <3>1. Sck!LineEnd(b) \in Nat /\ Sck!LineEnd(b) <= Len(b) /\ (Sck!LineEnd(b) # 0 => b[Sck!LineEnd(b)] = "nl")
      BY <1>9, LineEndRule
    <3>2. \A i \in 1..(L - q) : b[i] # "nl"
      <4>1. \A i \in 1..(L - q) : q + i \in 1..L
        BY <1>2, <1>4
      <4> QED
        BY <1>5, <1>9, <1>10, <4>1
    <3>3. Sck!LineEnd(b) # 0 => Sck!LineEnd(b) \in 1..(L - q)
      BY <1>9, <3>1
    <3> QED
      BY <3>1, <3>2, <3>3
  <2>3. DropRest(b) = <<>>
    BY <2>2 DEF DropRest
  <2>4. Sck!Taken = CutLine(rstream)
    <3>1. CASE L < FirstSize
      <4>1. q = L
        BY <1>2, <1>4, <1>6, <1>7, <1>10, <3>1
      <4>2. SubSeq(rstream, 1, L) = rstream
        BY <1>2 DEF L
      <4> QED
        BY <1>3, <3>1, <4>1, <4>2 DEF CutLine, L
    <3>2. CASE ~(L < FirstSize)
      <4>1. q = FirstSize - 1
        BY <1>2, <1>4, <1>6, <1>7, <1>10, <3>2
      <4> QED
        BY <1>3, <3>2, <4>1 DEF CutLine, L
    <3> QED
      BY <3>1, <3>2
  <2> QED
    BY <1>3, <2>1, <2>3, <2>4 DEF b, c
<1>11. CASE n # 0
  <2> DEFINE x == SubSeq(rstream, 1, n - 1)
  <2>1. /\ c + 1 <= Len(From(all)[1]) /\ From(all)[1][c + 1] = x
        /\ Ahead(all, c + 1, SubSeq(rstream, n + 1, Len(rstream)))
    BY <1>1, <1>11, AheadLine DEF n
  <2>2. q = FirstSize - 1 /\ n > q
    BY <1>3, <1>4, <1>5, <1>6, <1>7, <1>11
  <2>3. Sck!LineEnd(b) = n - q
    <3> DEFINE m == n - q
    <3>1. m \in 1..Len(b) /\ q + m = n /\ m \in 1..(L - q)
      BY <1>2, <1>4, <1>5, <1>9, <2>2
    <3> HIDE DEF m
    <3>2. b[m] = "nl"
      BY <1>5, <1>9, <1>11, <3>1
    <3>3. \A i \in 1..(m - 1) : i \in 1..(L - q) /\ q + i \in 1..(n - 1)
      BY <1>2, <1>4, <1>5, <3>1
    <3>4. \A i \in 1..(m - 1) : b[i] # "nl"
      BY <1>5, <1>9, <1>11, <3>3
    <3>5. Sck!LineEnd(b) = m
      BY <1>9, <3>1, <3>2, <3>4, LineEndIs
    <3> QED
      BY <3>5 DEF m
  <2>4. DropRest(b) = SubSeq(rstream, n + 1, Len(rstream))
    <3> DEFINE k == q + 1
               a == n - q + 1
               d == L - q
    <3>1. /\ k \in Nat /\ k >= 1 /\ k <= Len(rstream) + 1 /\ a \in Nat /\ d \in Nat /\ a >= 1 /\ a <= d + 1
          /\ d <= Len(rstream) + 1 - k /\ k + a - 1 = n + 1 /\ k + d - 1 = Len(rstream)
      BY <1>2, <1>4, <1>5, <1>11, <2>2 DEF L
    <3> HIDE DEF k, a, d
    <3>2. SubSeq(SubSeq(rstream, k, Len(rstream)), a, d) = SubSeq(rstream, k + a - 1, k + d - 1)
      BY <1>2, <3>1, PartOfPart
    <3>3. SubSeq(b, a, d) = SubSeq(rstream, n + 1, Len(rstream))
      BY <1>8, <3>1, <3>2 DEF k, L
    <3>4. Sck!LineEnd(b) # 0 /\ Sck!LineEnd(b) + 1 = a /\ Len(b) = d
      BY <1>4, <1>5, <1>9, <2>2, <2>3 DEF a, d
    <3> QED
      BY <3>3, <3>4 DEF DropRest
  <2>5. x \in Seq(LineBytes) /\ Len(x) = n - 1
    <3> DEFINE o == n - 1
    <3>1. o \in 0..Len(rstream)
      BY <1>2, <1>5, <1>11 DEF L
    <3> HIDE DEF o
    <3>2. SubSeq(rstream, 1, o) \in Seq(LineBytes) /\ Len(SubSeq(rstream, 1, o)) = o
      BY <1>2, <3>1, FirstRule
    <3> QED
      BY <3>2 DEF o
  <2>6. Sck!Taken = CutLine(x)
    <3>1. CASE n - 1 < FirstSize
      <4>1. q = n - 1
        BY <1>4, <1>5, <2>2, <3>1
      <4>2. CutLine(x) = x
        BY <2>5, <3>1 DEF CutLine
      <4> QED
        BY <1>3, <4>1, <4>2
    <3>2. CASE ~(n - 1 < FirstSize)
      <4> DEFINE w == n - 1
      <4>1. w \in Nat /\ q <= w /\ w <= Len(rstream)
        BY <1>2, <1>4, <1>5, <1>11, <2>2 DEF L
      <4> HIDE DEF w
      <4>2. SubSeq(SubSeq(rstream, 1, w), 1, q) = SubSeq(rstream, 1, q)
        BY <1>2, <1>4, <4>1, FirstOfFirst
      <4>3. CutLine(x) = SubSeq(x, 1, q)
        BY <2>2, <2>5, <3>2 DEF CutLine
      <4> QED
        BY <1>3, <4>2, <4>3 DEF w
    <3> QED
      BY <3>1, <3>2
  <2> HIDE DEF x
  <2> QED
    BY <1>3, <2>1, <2>4, <2>6 DEF b, c
<1> QED
  BY <1>10, <1>11

LEMMA DroppingGets ==
  ASSUME Sck!ReaderAssumption, SocketReads, FileReads, Sck!GetDropping
  PROVE  SocketReads' /\ FileReads'
<1>1. /\ reader = "dropping" /\ reader # "socket" /\ rpc = "idle"
      /\ UNCHANGED <<reader, all, blocking, coming, open, temp, cap>>
      /\ \/ rstream = <<>> /\ rpc' = "failed" /\ given' = given /\ rstream' = rstream
         \/ Sck!Newline /\ Sck!Give(Sck!Front(Sck!Text(Sck!Taken)), TRUE) /\ rpc' = "idle"
            /\ rstream' = Sck!Rest(Len(Sck!Taken))
         \/ rstream # <<>> /\ ~Sck!Newline /\ Sck!Give(Sck!Text(Sck!Taken), FALSE) /\ rpc' = "idle"
            /\ rstream' = DropRest(Sck!Rest(Len(Sck!Taken)))
  BY DEF Sck!GetDropping, Sck!Fixed, DropRest
<1>2. rstream \in Seq(LineBytes) /\ Sck!Taken \in Seq(LineBytes) /\ Sck!Rest(Len(Sck!Taken)) \in Seq(LineBytes)
  BY FirstLen DEF SocketReads, ReaderTypes
<1>3. Sck!Text(Sck!Taken) \in Seq(LineBytes) /\ (Sck!Newline => Sck!Front(Sck!Text(Sck!Taken)) \in Seq(LineBytes))
  BY <1>2, TextType DEF Sck!Newline
<1>4. DropRest(Sck!Rest(Len(Sck!Taken))) \in Seq(LineBytes)
  <2> DEFINE b == Sck!Rest(Len(Sck!Taken))
             n == Sck!LineEnd(b)
  <2>1. b \in Seq(LineBytes)
    BY <1>2
  <2> HIDE DEF b
  <2>2. n \in Nat /\ n <= Len(b) /\ Len(b) \in Nat
    BY <2>1, LineEndRule
  <2>3. n \in 0..Len(b)
    BY <2>2
  <2> HIDE DEF n
  <2>4. SubSeq(b, n + 1, Len(b)) \in Seq(LineBytes) /\ <<>> \in Seq(LineBytes)
    BY <2>1, <2>3, AfterRule
  <2> QED
    BY <2>4 DEF DropRest, b, n
<1>5. SocketReads'
  <2>1. rstream' \in Seq(LineBytes) /\ rpc' \in {"idle", "failed"}
    BY <1>1, <1>2, <1>4
  <2>2. given' = given \/ \E x \in Seq(LineBytes), e \in BOOLEAN : Sck!Give(x, e)
    BY <1>1, <1>3
  <2> QED
    BY <1>1, <2>1, <2>2, FileTypes
<1>6. (NoNul' <=> NoNul) /\ reader' = reader /\ all' = all
  BY <1>1 DEF NoNul
<1>7. CASE rstream = <<>> /\ rpc' = "failed" /\ given' = given /\ rstream' = rstream
  <2> SUFFICES ASSUME NoNul PROVE FileReads'
    BY <1>5, <1>6, NulApart
  <2>1. /\ Len(given) <= Len(From(all)[1]) /\ \A j \in 1..Len(given) : GoodLine(reader, all, given[j].text, j)
        /\ Ahead(all, Len(given), <<>>)
    BY <1>1, <1>7 DEF FileReads
  <2>2. all \in Seq(LineBytes) /\ Len(given) \in Nat
    BY DEF SocketReads, ReaderTypes
  <2>3. Len(From(all)[1]) = Len(given)
    BY <2>1, <2>2, AheadNone
  <2> QED
    BY <1>1, <1>6, <1>7, <2>1, <2>3 DEF FileReads
<1>8. CASE Sck!Newline /\ Sck!Give(Sck!Front(Sck!Text(Sck!Taken)), TRUE) /\ rpc' = "idle"
           /\ rstream' = Sck!Rest(Len(Sck!Taken))
  <2> SUFFICES ASSUME NoNul PROVE FileReads'
    BY <1>5, <1>6, NulApart
  <2> DEFINE x == Sck!Front(Sck!Text(Sck!Taken))
  <2>1. /\ x \in Seq(LineBytes) /\ Len(given) + 1 <= Len(From(all)[1])
        /\ Ahead(all, Len(given) + 1, rstream') /\ GoodLine(reader, all, x, Len(given) + 1)
    BY <1>1, <1>8, WholeLine
  <2> HIDE DEF x
  <2>2. Sck!Give(x, TRUE)
    BY <1>8 DEF x
  <2> QED
    BY <1>1, <1>8, <2>1, <2>2, FileGives
<1>9. CASE rstream # <<>> /\ ~Sck!Newline /\ Sck!Give(Sck!Text(Sck!Taken), FALSE) /\ rpc' = "idle"
           /\ rstream' = DropRest(Sck!Rest(Len(Sck!Taken)))
  <2> SUFFICES ASSUME NoNul PROVE FileReads'
    BY <1>5, <1>6, NulApart
  <2> DEFINE x == Sck!Text(Sck!Taken)
  <2>1. /\ Len(given) + 1 <= Len(From(all)[1]) /\ Ahead(all, Len(given) + 1, rstream')
        /\ x = CutLine(From(all)[1][Len(given) + 1])
    BY <1>1, <1>9, CutText
  <2>2. x \in Seq(LineBytes) /\ Sck!Give(x, FALSE)
    BY <1>3, <1>9
  <2> HIDE DEF x
  <2>3. GoodLine(reader, all, x, Len(given) + 1)
    BY <1>1, <2>1 DEF GoodLine
  <2> QED
    BY <1>1, <1>9, <2>1, <2>2, <2>3, FileGives
<1> QED
  BY <1>1, <1>5, <1>7, <1>8, <1>9

LEMMA FileGood == ASSUME Sck!ReaderAssumption, SocketReads, FileReads PROVE Sck!FileLines
<1>1. given \in Seq(GivenLines) /\ DOMAIN given = 1..Len(given) /\ all \in Seq(LineBytes) /\ DOMAIN all = 1..Len(all)
  BY DEF SocketReads, ReaderTypes
<1> DEFINE A == Sck!LinesOf(all)
<1>2. A = From(all)[1]
  BY LinesFrom
<1> HIDE DEF A
<1> SUFFICES ASSUME "nul" \notin Sck!ToSet(all)
             PROVE  /\ reader = "dropping" =>
                         \A j \in DOMAIN given :
                           given[j].text = (IF Len(A[j]) < FirstSize THEN A[j] ELSE SubSeq(A[j], 1, FirstSize - 1))
                    /\ reader = "dropping" /\ rpc = "failed" => Len(given) = Len(A)
                    /\ reader = "strict" =>
                         \A j \in DOMAIN given : given[j].text = A[j] /\ Len(given[j].text) < FirstSize - 1
  BY DEF Sck!FileLines, A
<1>3. NoNul
  BY <1>1 DEF Sck!ToSet, NoNul
<1>4. reader # "socket" =>
        /\ \A j \in DOMAIN given : GoodLine(reader, all, given[j].text, j)
        /\ reader = "dropping" /\ rpc = "failed" => Len(given) = Len(A)
  BY <1>1, <1>2, <1>3 DEF FileReads
<1>5. ASSUME reader = "dropping", NEW j \in DOMAIN given PROVE given[j].text = CutLine(A[j])
  BY <1>2, <1>4, <1>5 DEF GoodLine
<1>6. ASSUME reader = "strict", NEW j \in DOMAIN given PROVE given[j].text = A[j] /\ Len(given[j].text) < FirstSize - 1
  BY <1>2, <1>4, <1>6 DEF GoodLine
<1> QED
  BY <1>4, <1>5, <1>6 DEF CutLine

\* What the line readers return is the lines of what came: a connection's bytes are lost,
\* invented and moved by no call of readline that does not fail (mx_socket_readline), and
\* the readers of files give the lines in their order, whole or their beginnings.
THEOREM LinesRead == ASSUME Sck!ReaderAssumption PROVE Sck!ReaderSpec => []Sck!ReaderInv
<1>1. ASSUME Sck!ReaderInit PROVE SocketReads /\ FileReads
  <2>1. SocketReads
    BY <1>1, ReaderInitInv
  <2>2. all \in Seq(LineBytes) /\ given = <<>> /\ Len(given) = 0 /\ rpc = "idle" /\ (reader # "socket" => rstream = all)
    BY <1>1, <2>1 DEF Sck!ReaderInit, SocketReads, ReaderTypes
  <2>3. Ahead(all, 0, all) /\ From(all)[1] \in Seq(Seq(LineBytes))
    BY <2>2, AheadAll, FromType
  <2>4. 0 <= Len(From(all)[1])
    <3> DEFINE t == From(all)[1]
    <3>1. t \in Seq(Seq(LineBytes))
      BY <2>3
    <3> HIDE DEF t
    <3>2. 0 <= Len(t)
      BY <3>1
    <3> QED
      BY <3>2 DEF t
  <2>5. FileReads
    BY <2>2, <2>3, <2>4 DEF FileReads
  <2> QED
    BY <2>1, <2>5
<1>2. ASSUME SocketReads, FileReads, [Sck!ReaderNext]_linereader PROVE SocketReads' /\ FileReads'
  <2>1. CASE UNCHANGED linereader
    <3>1. UNCHANGED <<reader, all, blocking, coming, rstream, open, temp, cap, rpc, given>>
      BY <2>1 DEF linereader
    <3>2. SocketReads'
      BY <1>2, <3>1 DEF SocketReads, ReaderTypes, SocketBytes, NoNewline, Passed, Reading
    <3>3. FileReads'
      BY <1>2, <3>1 DEF FileReads, NoNul
    <3> QED
      BY <3>2, <3>3
  <2>2. ASSUME SocketReads', reader = "socket", reader' = reader PROVE SocketReads' /\ FileReads'
    BY <2>2 DEF FileReads
  <2>3. CASE (\E n \in 1..Len(coming) : Sck!Send(n)) \/ Sck!PeerCloses
    <3>1. open /\ reader' = reader
      BY <2>3 DEF Sck!Send, Sck!PeerCloses
    <3>2. reader = "socket"
      BY <1>2, <3>1 DEF SocketReads, ReaderTypes
    <3> QED
      BY <1>2, <2>2, <2>3, <3>1, <3>2, PeerInv
  <2>4. CASE Sck!Start
    <3>1. reader = "socket" /\ reader' = reader
      BY <2>4 DEF Sck!Start
    <3> QED
      BY <1>2, <2>2, <2>4, <3>1, ReaderStarts
  <2>5. CASE Sck!GetByte
    <3>1. rpc = "reading" /\ reader' = reader
      BY <2>5 DEF Sck!GetByte
    <3>2. reader = "socket"
      BY <1>2, <3>1 DEF SocketReads, ReaderTypes
    <3> QED
      BY <1>2, <2>2, <2>5, <3>1, <3>2, ReaderByte
  <2>6. CASE Sck!EndOfStream \/ Sck!WouldBlock \/ Sck!ReadFails
    <3>1. rpc = "reading" /\ reader' = reader
      BY <2>6 DEF Sck!EndOfStream, Sck!WouldBlock, Sck!ReadFails
    <3>2. reader = "socket"
      BY <1>2, <3>1 DEF SocketReads, ReaderTypes
    <3> QED
      BY <1>2, <2>2, <2>6, <3>1, <3>2, ReaderStopsReading
  <2>7. CASE Sck!GetStrict
    BY <1>2, <2>7, StrictGets
  <2>8. CASE Sck!GetDropping
    BY <1>2, <2>8, DroppingGets
  <2> QED
    BY <1>2, <2>1, <2>3, <2>4, <2>5, <2>6, <2>7, <2>8 DEF Sck!ReaderNext
<1>3. ASSUME SocketReads, FileReads PROVE Sck!ReaderInv
  BY <1>3, ReaderGood, FileGood DEF Sck!ReaderInv
<1> QED
  BY <1>1, <1>2, <1>3, PTL DEF Sck!ReaderSpec, Sck!readervars, linereader

(***************************************************************************)
(* The parts side by side.  A behaviour of System is one of each part: a   *)
(* step is a step of the part or leaves its variables alone.               *)
(***************************************************************************)
LEMMA AllIs == AllSpec => AllInit /\ [][AllNext]_allvars
BY PTL DEF AllSpec

LEMMA PartsBegin ==
  AllInit => /\ Init /\ Sck!SocketInit /\ Srv!UdsInit /\ Srv!ThrInit
             /\ Sig!SysInit /\ Sig!IntInit /\ Shm!ShmInit /\ Shm!LockInit
             /\ Sck!ReaderInit /\ Chn!PipeInit /\ Chn!FifoInit /\ Chn!MqInit
BY DEF AllInit

LEMMA ServerSteps == [AllNext]_allvars => [Next]_vars
BY DEF AllNext, Only, allvars

LEMMA SocketSteps == [AllNext]_allvars => [Sck!SocketNext]_(Sck!socketvars)
BY DEF AllNext, Only, allvars, sockets, socket, Sck!socketvars

LEMMA UnixSteps == [AllNext]_allvars => [Srv!UdsNext]_(Srv!udsvars)
BY DEF AllNext, Only, allvars, sockets, unixserver, Srv!udsvars

LEMMA ThreadSteps == [AllNext]_allvars => [Srv!ThrNext]_(Srv!thrvars)
BY DEF AllNext, Only, allvars, sockets, threads, Srv!thrvars

LEMMA CallSteps == [AllNext]_allvars => [Sig!SysNext]_(Sig!sysvars)
BY DEF AllNext, Only, allvars, processes, system, Sig!sysvars

LEMMA LoopSteps == [AllNext]_allvars => [Sig!IntNext]_(Sig!intvars)
BY DEF AllNext, Only, allvars, processes, interrupts, Sig!intvars

LEMMA ShmSteps == [AllNext]_allvars => [Shm!ShmNext]_(Shm!shmvars)
BY DEF AllNext, Only, allvars, processes, shm, Shm!shmvars

LEMMA LockSteps == [AllNext]_allvars => [Shm!LockNext]_(Shm!lockvars)
BY DEF AllNext, Only, allvars, processes, counters, Shm!lockvars

LEMMA ReaderSteps == [AllNext]_allvars => [Sck!ReaderNext]_(Sck!readervars)
BY DEF AllNext, Only, allvars, sockets, linereader, Sck!readervars

LEMMA PipeSteps == [AllNext]_allvars => [Chn!PipeNext]_(Chn!pipevars)
BY DEF AllNext, Only, allvars, channels, pipe, Chn!pipevars

LEMMA FifoSteps == [AllNext]_allvars => [Chn!FifoNext]_(Chn!fifovars)
BY DEF AllNext, Only, allvars, channels, fifo, Chn!fifovars

LEMMA MqSteps == [AllNext]_allvars => [Chn!MqNext]_(Chn!mqvars)
BY DEF AllNext, Only, allvars, channels, mq, Chn!mqvars

\* In every behaviour of System the file server's threads share its state soundly, and once a
\* connection has told it to stop it stays told.
THEOREM ServerAlways == AllSpec => []ServeInv /\ StopSticks
<1>1. AllSpec => Spec
  BY AllIs, PartsBegin, ServerSteps, PTL DEF Spec
<1> QED
  BY <1>1, Stopped, NotForgotten, PTL

\* In every behaviour of System the sockets are sound: the descriptors of mx_socket.c, the Unix
\* server with its clients and the server with threads.
THEOREM SocketsAlways == AllSpec => []SocketsSound
<1>1. AllSpec => Sck!SocketSpec
  BY AllIs, PartsBegin, SocketSteps, PTL DEF Sck!SocketSpec
<1>2. AllSpec => Srv!UdsSpec
  BY AllIs, PartsBegin, UnixSteps, PTL DEF Srv!UdsSpec
<1>3. AllSpec => Srv!ThrSpec
  BY AllIs, PartsBegin, ThreadSteps, PTL DEF Srv!ThrSpec
<1>4. Sck!SocketSpec => []Sck!SocketInv
  BY SystemAssumption, DescriptorsSound
<1>5. Srv!UdsSpec => []Srv!UnixServerInv
  BY SystemAssumption, UnixServerSound
<1>6. Srv!ThrSpec => []Srv!ThreadServerInv
  BY SystemAssumption, ThreadServerSound
<1>7. Sck!SocketInv /\ Srv!UnixServerInv /\ Srv!ThreadServerInv => SocketsSound
  BY DEF SocketsSound
<1> QED
  BY <1>1, <1>2, <1>3, <1>4, <1>5, <1>6, <1>7, PTL

\* In every behaviour of System the calls, loops, shared memory and counters of the process
\* programs are sound.
THEOREM ProcessesAlways == AllSpec => []ProcessesSound
<1>1. AllSpec => Sig!SysSpec
  BY AllIs, PartsBegin, CallSteps, PTL DEF Sig!SysSpec
<1>2. AllSpec => Sig!IntSpec
  BY AllIs, PartsBegin, LoopSteps, PTL DEF Sig!IntSpec
<1>3. AllSpec => Shm!ShmSpec
  BY AllIs, PartsBegin, ShmSteps, PTL DEF Shm!ShmSpec
<1>4. AllSpec => Shm!LockSpec
  BY AllIs, PartsBegin, LockSteps, PTL DEF Shm!LockSpec
<1>5. Shm!ShmSpec => []Shm!ShmInv
  BY SystemAssumption, ShmSound
<1>6. Shm!LockSpec => []Shm!CountersInv
  BY SystemAssumption, CountersExact
<1>7. Sig!SystemInv /\ Sig!InterruptInv /\ Shm!ShmInv /\ Shm!CountersInv => ProcessesSound
  BY DEF ProcessesSound
<1> QED
  BY <1>1, <1>2, <1>3, <1>4, <1>5, <1>6, <1>7, CallsSound, LoopsSound, PTL

\* In every behaviour of System what comes out of a connection, a file, a pipe, a FIFO or a
\* message queue is what went in, but for what its reader says it drops and what a signal, a
\* kill or a close took.
THEOREM ChannelsAlways == AllSpec => []ChannelsSound
<1>1. AllSpec => Sck!ReaderSpec
  BY AllIs, PartsBegin, ReaderSteps, PTL DEF Sck!ReaderSpec
<1>2. AllSpec => Chn!PipeSpec
  BY AllIs, PartsBegin, PipeSteps, PTL DEF Chn!PipeSpec
<1>3. AllSpec => Chn!FifoSpec
  BY AllIs, PartsBegin, FifoSteps, PTL DEF Chn!FifoSpec
<1>4. AllSpec => Chn!MqSpec
  BY AllIs, PartsBegin, MqSteps, PTL DEF Chn!MqSpec
<1>5. Sck!ReaderSpec => []Sck!ReaderInv
  BY SystemAssumption, LinesRead
<1>6. Chn!PipeSpec => []Chn!Framed
  BY SystemAssumption, MessagesFramed
<1>7. Chn!FifoSpec => []Chn!FifoRight
  BY SystemAssumption, ClientsHeard
<1>8. Chn!MqSpec => []Chn!MqInv
  BY SystemAssumption, MessagesKept
<1>9. Sck!ReaderInv /\ Chn!Framed /\ Chn!FifoRight /\ Chn!MqInv => ChannelsSound
  BY DEF ChannelsSound
<1> QED
  BY <1>1, <1>2, <1>3, <1>4, <1>5, <1>6, <1>7, <1>8, <1>9, PTL
==============================================================================
