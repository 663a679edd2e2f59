----------------------------- MODULE QueueServer -----------------------------
(***************************************************************************)
(* The message server of src/network/socket_server_queue: the main thread  *)
(* accepts connections and starts one detached worker per connection, each *)
(* worker turns what it receives into messages and pushes them on a shared *)
(* deque, and one consumer thread pops and prints them.  A mutex and a     *)
(* condition variable guard the deque; an atomic flag, which no thread     *)
(* reads under the mutex's protection, says whether the server still runs. *)
(*                                                                         *)
(* Program counters are named for what the thread does next.  A step ends  *)
(* before the next access to state another thread may change.              *)
(***************************************************************************)
EXTENDS Integers, Sequences, TLC

CONSTANTS
  Conns,     \* connections; a connection also names its worker thread
  Data,      \* texts a client may send that are not "exit"
  Exit,      \* the text "exit"
  Part,      \* any text left when recv returns a piece of a message
  Consumer,  \* the consumer thread
  Free,      \* value of the mutex when nobody holds it
  MaxSends,  \* bound: messages one client sends
  Faults     \* which of the environment's failures may happen

ASSUME ServerAssumption ==
  /\ Exit \notin Data /\ Part \notin Data /\ Part # Exit
  /\ Consumer \notin Conns /\ Free \notin Conns /\ Free # Consumer
  /\ MaxSends \in Nat
  /\ Faults \subseteq {"memory", "syscall", "wakeup"}

VARIABLES
  running,    \* server_running
  listening,  \* the listening descriptor is open
  mutex,      \* holder of mut, or Free
  destroyed,  \* mut has been destroyed
  queue,      \* contents of the deque, front first
  main,       \* program counter of the main thread
  cons,       \* program counter of the consumer
  hand,       \* << >>, or <<the message the consumer has popped>>
  work,       \* program counter of each worker
  text,       \* the text each worker received last
  client,     \* what each client has done
  sends,      \* messages each client has sent
  stream,     \* pieces in flight from each client, in order
  accepted,   \* history: messages linked into the deque, in order
  delivered   \* history: messages the consumer printed, in order

flags == <<running, listening>>
lock == <<mutex, destroyed>>
consumer == <<cons, hand>>
workers == <<work, text>>
net == <<client, sends, stream>>
history == <<accepted, delivered>>
vars == <<flags, lock, queue, main, consumer, workers, net, history>>

Texts == Data \cup {Exit}
Piece == [of : Texts, last : BOOLEAN]
Message == [from : Conns, body : Texts \cup {Part}]

MainPc == {"start", "check", "poll", "accept", "stop", "close", "broadcast",
           "join", "free", "destroy", "return", "exited", "failed", "crashed"}
ConsPc == {"off", "lock", "outer", "inner", "wait", "waiting", "relock", "after",
           "pop", "deliver", "again", "unlock", "done"}
WorkPc == {"none", "backlog", "read", "lock", "push", "signal", "unlock", "store",
           "closeListen", "broadcast", "close", "done"}

Alive == main \notin {"exited", "failed", "crashed"}
Freed == main \in {"destroy", "return", "exited"}
Backlog == {c \in Conns : work[c] = "backlog"}

\* pthread_mutex_lock and pthread_mutex_unlock on mut.
Grab(t) == mutex' = t
Acquire(t) == mutex = Free /\ mutex' = t
Release == mutex' = Free

\* pthread_cond_signal and pthread_cond_broadcast on cond: only the consumer waits.
WakeNobody == cons' = cons
Wake == cons' = IF cons = "waiting" THEN "relock" ELSE cons

KeepRunning == running' = running
StopRunning == running' = FALSE

(***************************************************************************)
(* Initially no thread but main runs and nothing has been created.         *)
(***************************************************************************)
Init ==
  /\ running = TRUE
  /\ listening = FALSE
  /\ mutex = Free
  /\ destroyed = FALSE
  /\ queue = << >>
  /\ main = "start"
  /\ cons = "off"
  /\ hand = << >>
  /\ work = [c \in Conns |-> "none"]
  /\ text = [c \in Conns |-> Part]
  /\ client = [c \in Conns |-> "idle"]
  /\ sends = [c \in Conns |-> 0]
  /\ stream = [c \in Conns |-> << >>]
  /\ accepted = << >>
  /\ delivered = << >>

(***************************************************************************)
(* Clients (socket_connect).  A message is its text and a terminating NUL; *)
(* TCP may deliver it in two pieces.  The client quits after "exit".       *)
(***************************************************************************)
Connect(c) ==
  /\ listening /\ work[c] = "none"
  /\ work' = [work EXCEPT ![c] = "backlog"]
  /\ client' = [client EXCEPT ![c] = "open"]
  /\ UNCHANGED <<sends, stream>>

Send(c, t) ==
  /\ client[c] = "open" /\ work[c] # "done" /\ sends[c] < MaxSends
  /\ sends' = [sends EXCEPT ![c] = @ + 1]
  /\ stream' = [stream EXCEPT ![c] = @ \o <<[of |-> t, last |-> FALSE],
                                            [of |-> t, last |-> TRUE]>>]
  /\ client' = IF t = Exit THEN [client EXCEPT ![c] = "quit"] ELSE client
  /\ UNCHANGED work

HangUp(c) ==
  /\ client[c] = "open"
  /\ client' = [client EXCEPT ![c] = "gone"]
  /\ UNCHANGED <<work, sends, stream>>

ClientStep(c) ==
  /\ Alive
  /\ Connect(c) \/ HangUp(c) \/ \E t \in Texts : Send(c, t)
  /\ UNCHANGED <<flags, lock, queue, main, consumer, text, history>>

(***************************************************************************)
(* Main thread (socket_listen).                                            *)
(***************************************************************************)
Goto(from, to) == main = from /\ main' = to

Start ==
  /\ \/ Goto("start", "check") /\ cons' = "lock" /\ listening' = TRUE
     \/ Faults # {} /\ Goto("start", "failed") /\ UNCHANGED <<cons, listening>>
  /\ UNCHANGED <<running, destroyed, queue, work>>

MainCheck ==
  /\ Goto("check", IF running THEN "poll" ELSE "stop")
  /\ UNCHANGED <<flags, destroyed, queue, cons, work>>

MainPoll ==
  /\ \/ ~running /\ Goto("poll", "stop")
     \/ running /\ Goto("poll", IF Backlog = {} THEN "check" ELSE "accept")
     \/ running /\ "syscall" \in Faults /\ \E pc \in {"check", "stop"} : Goto("poll", pc)
  /\ UNCHANGED <<flags, destroyed, queue, cons, work>>

AcceptNone ==
  /\ Backlog = {} \/ ~listening
  /\ Goto("accept", "check")
  /\ UNCHANGED <<running, work>>

AcceptFails ==
  /\ Faults \cap {"memory", "syscall"} # {}
  /\ Goto("accept", "check")
  /\ StopRunning
  /\ UNCHANGED work

\* accept, then mx_socket_set_blocking and pthread_create, each of which may fail.
AcceptOne(c) ==
  /\ listening /\ work[c] = "backlog"
  /\ \/ /\ Goto("accept", "accept")
        /\ work' = [work EXCEPT ![c] = "read"]
        /\ UNCHANGED running
     \/ /\ "syscall" \in Faults /\ Goto("accept", "accept")
        /\ work' = [work EXCEPT ![c] = "done"]
        /\ UNCHANGED running
     \/ /\ "memory" \in Faults /\ Goto("accept", "check")
        /\ work' = [work EXCEPT ![c] = "done"]
        /\ StopRunning

MainAccept ==
  /\ AcceptNone \/ AcceptFails \/ \E c \in Conns : AcceptOne(c)
  /\ UNCHANGED <<listening, destroyed, queue, cons>>

MainStop ==
  /\ Goto("stop", "close")
  /\ StopRunning
  /\ UNCHANGED <<listening, destroyed, queue, cons, work>>

MainClose ==
  /\ Goto("close", "broadcast")
  /\ listening' = FALSE
  /\ UNCHANGED <<running, destroyed, queue, cons, work>>

MainBroadcast ==
  /\ Goto("broadcast", "join")
  /\ Wake
  /\ UNCHANGED <<flags, destroyed, queue, work>>

MainJoin ==
  /\ cons = "done"
  /\ Goto("join", "free")
  /\ UNCHANGED <<flags, destroyed, queue, cons, work>>

MainFree ==
  /\ Goto("free", "destroy")
  /\ queue' = << >>
  /\ UNCHANGED <<flags, destroyed, cons, work>>

\* pthread_mutex_destroy refuses (EBUSY) a mutex in use; after the consumer's
\* extra unlock the use count says nothing, so either may happen.
MainDestroy ==
  /\ Goto("destroy", "return")
  /\ destroyed' \in IF mutex = Free THEN {TRUE} ELSE BOOLEAN
  /\ UNCHANGED <<flags, queue, cons, work>>

MainReturn ==
  /\ Goto("return", "exited")
  /\ UNCHANGED <<flags, destroyed, queue, cons, work>>

MainStep ==
  /\ \/ Start
     \/ MainCheck \/ MainPoll \/ MainAccept
     \/ MainStop \/ MainClose \/ MainBroadcast
     \/ MainJoin
     \/ MainFree \/ MainDestroy \/ MainReturn
  /\ UNCHANGED <<mutex, hand, text, net, history>>

(***************************************************************************)
(* Consumer (proc_queue).                                                  *)
(***************************************************************************)
\* Lines 93, 127 and the relock inside pthread_cond_wait at 98.
ConsLock ==
  /\ cons \in {"lock", "relock", "again"}
  /\ Acquire(Consumer)
  /\ cons' = IF cons = "relock" THEN "inner" ELSE "outer"
  /\ UNCHANGED <<queue, hand, delivered>>

\* A wakeup without a signal, which POSIX allows.
SpuriousWakeup ==
  /\ "wakeup" \in Faults /\ cons = "waiting"
  /\ cons' = "relock"
  /\ UNCHANGED <<mutex, queue, hand, delivered>>

ConsOuterUnchecked ==
  /\ cons = "outer"
  /\ cons' = "inner"
  /\ UNCHANGED <<mutex, queue, hand, delivered>>

ConsOuter ==
  /\ cons = "outer"
  /\ cons' = IF running THEN "inner" ELSE "unlock"
  /\ UNCHANGED <<mutex, queue, hand, delivered>>

ConsInner ==
  /\ cons = "inner"
  /\ cons' = IF running /\ queue = << >> THEN "wait" ELSE "after"
  /\ UNCHANGED <<mutex, queue, hand, delivered>>

ConsWait ==
  /\ cons = "wait"
  /\ Release
  /\ cons' = "waiting"
  /\ UNCHANGED <<queue, hand, delivered>>

ConsAfterUnchecked ==
  /\ cons = "after"
  /\ cons' = "pop"
  /\ UNCHANGED <<mutex, queue, hand, delivered>>

ConsAfterStray ==
  /\ cons = "after"
  /\ cons' = "free"
  /\ UNCHANGED <<mutex, queue, hand, delivered>>

ConsAfter ==
  /\ cons = "after"
  /\ cons' = IF ~running /\ queue = << >> THEN "unlock" ELSE "pop"
  /\ UNCHANGED <<mutex, queue, hand, delivered>>

TakeBack == hand' = <<queue[Len(queue)]>> /\ queue' = SubSeq(queue, 1, Len(queue) - 1)
TakeFront == hand' = <<Head(queue)>> /\ queue' = Tail(queue)

\* deque_pop_front and the unlock at 119.  The failure branch (113-117) is the
\* state ConsumerAccessSafe shows unreachable.
ConsPop ==
  /\ cons = "pop" /\ queue # << >>
  /\ TakeFront
  /\ Release
  /\ cons' = "deliver"
  /\ UNCHANGED delivered

ConsDeliver ==
  /\ cons = "deliver"
  /\ delivered' = delivered \o hand
  /\ hand' = << >>
  /\ cons' = IF hand[1].body = Exit THEN "unlock" ELSE "again"
  /\ UNCHANGED <<mutex, queue>>

\* Line 132.  Reached from line 124 the consumer does not hold the mutex; a mutex
\* of the default kind is released all the same, whoever holds it.
ConsUnlock ==
  /\ cons = "unlock"
  /\ Release
  /\ cons' = "done"
  /\ UNCHANGED <<queue, hand, delivered>>

ConsRun ==
  \/ ConsLock \/ ConsOuter \/ ConsInner \/ ConsWait \/ ConsAfter
  \/ ConsPop \/ ConsDeliver \/ ConsUnlock

ConsStep(A) ==
  /\ Alive /\ A
  /\ UNCHANGED <<flags, destroyed, main, workers, net, accepted>>

(***************************************************************************)
(* Workers (process_input).                                                *)
(***************************************************************************)
At(c, from, to) == work[c] = from /\ work' = [work EXCEPT ![c] = to]

\* The text in the buffer after recv returned the first k pieces: the message if
\* both its halves are there, a part of one otherwise.  _strdup copies up to the
\* first NUL, so the pieces behind it are dropped.  No message here has a half that is itself
\* "exit", which the tests after recv would take for one.
Received(s, k) == IF ~s[1].last /\ k >= 2 THEN s[1].of ELSE Part

Recv(c) ==
  /\ \/ \E k \in 1..Len(stream[c]) :
          /\ At(c, "read", "lock")
          /\ text' = [text EXCEPT ![c] = Received(stream[c], k)]
          /\ stream' = [stream EXCEPT ![c] = SubSeq(@, k + 1, Len(@))]
     \/ /\ \/ stream[c] = << >> /\ client[c] # "open"
           \/ "syscall" \in Faults
        /\ At(c, "read", "close")
        /\ UNCHANGED <<text, stream>>
  /\ UNCHANGED <<flags, mutex, queue, main, cons, accepted>>

Lock(c) ==
  /\ \/ destroyed /\ At(c, "lock", "read") /\ UNCHANGED mutex
     \/ ~destroyed /\ At(c, "lock", "push") /\ Acquire(c)
  /\ UNCHANGED <<flags, queue, main, cons, text, stream, accepted>>

InCritical(c) == work[c] \in {"push", "signal", "unlock"}
Crowded(c) == \E d \in Conns \ {c} : InCritical(d)

\* deque_push_back.  With another worker inside the critical section (possible
\* once the consumer has unlocked a mutex it did not hold) the link is a data race
\* that may lose the node; after deque_free the deque is a dangling pointer.
Push(c) ==
  /\ \/ /\ ~Freed /\ At(c, "push", "signal")
        /\ queue' = Append(queue, [from |-> c, body |-> text[c]])
        /\ accepted' = Append(accepted, [from |-> c, body |-> text[c]])
        /\ UNCHANGED <<mutex, main>>
     \/ /\ Crowded(c) \/ Freed
        /\ At(c, "push", "signal")
        /\ main' \in IF Freed THEN {main, "crashed"} ELSE {main}
        /\ UNCHANGED <<mutex, queue, accepted>>
     \/ /\ "memory" \in Faults
        /\ At(c, "push", "close")
        /\ Release
        /\ UNCHANGED <<main, queue, accepted>>
  /\ UNCHANGED <<flags, cons, text, stream>>

Signal(c) ==
  /\ At(c, "signal", "unlock")
  /\ Wake
  /\ UNCHANGED <<flags, mutex, queue, main, text, stream, accepted>>

Unlock(c) ==
  /\ At(c, "unlock", IF text[c] = Exit THEN "store" ELSE "read")
  /\ Release
  /\ UNCHANGED <<flags, queue, main, cons, text, stream, accepted>>

StoreFlag(c) ==
  /\ At(c, "store", "closeListen")
  /\ StopRunning
  /\ UNCHANGED <<listening, mutex, queue, main, cons, text, stream, accepted>>

CloseListen(c) ==
  /\ At(c, "closeListen", "broadcast")
  /\ listening' = FALSE
  /\ UNCHANGED <<running, mutex, queue, main, cons, text, stream, accepted>>

Broadcast(c) ==
  /\ At(c, "broadcast", "close")
  /\ Wake
  /\ UNCHANGED <<flags, mutex, queue, main, text, stream, accepted>>

CloseConn(c) ==
  /\ At(c, "close", "done")
  /\ UNCHANGED <<flags, mutex, queue, main, cons, text, stream, accepted>>

WorkStep(c) ==
  /\ Alive
  /\ \/ Recv(c) \/ Lock(c) \/ Push(c) \/ Signal(c) \/ Unlock(c)
     \/ StoreFlag(c) \/ CloseListen(c) \/ Broadcast(c) \/ CloseConn(c)
  /\ UNCHANGED <<destroyed, hand, client, sends, delivered>>

Ended == ~Alive /\ UNCHANGED vars

Next ==
  \/ MainStep
  \/ ConsStep(ConsRun) \/ ConsStep(SpuriousWakeup)
  \/ \E c \in Conns : WorkStep(c) \/ ClientStep(c)
  \/ Ended

Spec == Init /\ [][Next]_vars

\* The scheduler runs every thread that can take a step, and poll returns after
\* 250 ms at the latest.  Clients, failures and spurious wakeups are not fair.
Fairness ==
  /\ WF_vars(MainStep) /\ WF_vars(ConsStep(ConsRun))
  /\ \A c \in Conns : WF_vars(WorkStep(c))

FairSpec == Spec /\ Fairness

-----------------------------------------------------------------------------
(***************************************************************************)
(* Properties.                                                             *)
(***************************************************************************)
\* Every variable stays in its range; TLC and TLAPS both rely on it.
TypeOK ==
  /\ running \in BOOLEAN /\ listening \in BOOLEAN /\ destroyed \in BOOLEAN
  /\ mutex \in Conns \cup {Consumer, Free}
  /\ main \in MainPc /\ cons \in ConsPc
  /\ queue \in Seq(Message) /\ accepted \in Seq(Message) /\ delivered \in Seq(Message)
  /\ hand = << >> \/ \E m \in Message : hand = <<m>>
  /\ work \in [Conns -> WorkPc]
  /\ text \in [Conns -> Texts \cup {Part}]
  /\ client \in [Conns -> {"idle", "open", "quit", "gone"}]
  /\ sends \in [Conns -> 0..MaxSends]
  /\ stream \in [Conns -> Seq(Piece)]

\* Until the consumer has run its last statement, whoever is between lock and
\* unlock is the holder of mut: no two threads touch the deque at once.  (The last
\* statement, main.c:132, may release a mutex another thread holds.)
MutualExclusion ==
  cons # "done" =>
    /\ \A c \in Conns : InCritical(c) => mutex = c
    /\ cons \in {"outer", "inner", "wait", "after", "pop"} => mutex = Consumer

\* What the consumer has taken (printed, or still in its hand) and what the deque
\* holds are together exactly what was pushed, in that order: no message is lost,
\* repeated or overtaken before main frees the deque.
Taken == delivered \o hand
Fifo == ~Freed /\ Alive => accepted = Taken \o queue

\* The consumer never looks at a freed deque, and where it pops (main.c:112) the
\* deque is not empty: the early returns at 96-106 leave the failure branch dead.
ConsumerAccessSafe ==
  /\ cons \in {"inner", "after", "pop"} /\ Alive => ~Freed
  /\ cons = "pop" => queue # << >>

\* The worker prints the pushed buffer after signalling and before unlocking
\* (main.c:73): the message is then still the last of the deque, so the consumer
\* has not freed the buffer.
PrintedBufferLive ==
  cons # "done" =>
    \A c \in Conns : work[c] \in {"signal", "unlock"} =>
      queue # << >> /\ queue[Len(queue)] = [from |-> c, body |-> text[c]]

HasExit(s) == \E i \in 1..Len(s) : s[i].body = Exit
ExitAccepted == HasExit(accepted)

\* On the way out through "exit" the consumer cannot miss its wakeup: if it sleeps
\* although an exit was pushed, the pusher has its signal still to send.
ExitWakesConsumer ==
  cons = "waiting" /\ ExitAccepted => \E c \in Conns : work[c] = "signal"

\* The inductive invariant behind the five properties above.
StartedByMain == main = "start" => cons = "off"
HandFull == hand # << >> <=> cons = "deliver"
JoinedBeforeFree == main = "free" \/ Freed => cons = "done"
TestedBeforePop == cons = "after" => ~running \/ queue # << >>
ExitDelivered == HasExit(delivered) => cons \in {"unlock", "done"}
NoExitBeforeWait == cons = "wait" => ~ExitAccepted

ServerInv ==
  /\ TypeOK /\ MutualExclusion /\ Fifo /\ ConsumerAccessSafe /\ PrintedBufferLive
  /\ ExitWakesConsumer
  /\ StartedByMain /\ HandFull /\ JoinedBeforeFree /\ TestedBeforePop
  /\ ExitDelivered /\ NoExitBeforeWait

\* Once an exit message is in the deque the server ends, whatever fails after.
ExitTerminates == ExitAccepted ~> ~Alive

\* An accepted message is printed, or the server is being shut down.
AcceptedDelivered ==
  \A n \in 1..(2 * MaxSends) :
    (Len(accepted) >= n) ~> (Len(delivered) >= n \/ ~running \/ ~Alive)

(***************************************************************************)
(* The abstract mailbox the server implements.  The consumer may print     *)
(* anything while it runs; once the flag is down it prints at most the one *)
(* message it is already past the test of main.c:96 for.                   *)
(***************************************************************************)
Phase ==
  IF cons \in {"unlock", "done"} THEN "shut"
  ELSE IF running THEN "open"
  ELSE IF cons \in {"off", "lock", "outer", "again"} THEN "shut" ELSE "last"

M == INSTANCE Mailbox WITH phase <- Phase

\* Messages are printed once each, in the order pushed; nothing after an exit; at
\* most one after the flag is down.
MailboxSpec == M!Spec

\* "Type exit to shutdown" (socket_connect/main.c:34): a connection all of whose
\* data the server has read, and whose client sent exit, has shut the server down.
ExitObeyed ==
  \A c \in Conns : client[c] = "quit" /\ work[c] = "done" => ~running

-----------------------------------------------------------------------------
\* For TLC: connections are alike.
Symmetry == Permutations(Conns)
=============================================================================
