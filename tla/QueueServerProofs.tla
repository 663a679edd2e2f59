-------------------------- MODULE QueueServerProofs --------------------------
(***************************************************************************)
(* Proofs about QueueServer for any sets of connections and texts, any     *)
(* bound on sends and any selection of failures.                           *)
(***************************************************************************)
EXTENDS QueueServer, SequenceTheorems, TLAPS

-----------------------------------------------------------------------------
(***************************************************************************)
(* Sequence facts behind Fifo.                                             *)
(***************************************************************************)
\* Appending to the second of two segments appends to the whole.
LEMMA AppendLast ==
  ASSUME NEW S, NEW t \in Seq(S), NEW q \in Seq(S), NEW m \in S
  PROVE  t \o Append(q, m) = Append(t \o q, m)
<1>1. t \o q \in Seq(S) /\ <<m>> \in Seq(S)
  BY ConcatProperties
<1>2. Append(t \o q, m) = (t \o q) \o <<m>>
  BY <1>1, AppendIsConcat
<1>3. Append(q, m) = q \o <<m>>
  BY AppendIsConcat
<1> QED
  BY <1>1, <1>2, <1>3, ConcatAssociative

\* Moving the head of the second segment to the end of the first keeps the whole.
LEMMA MoveHead ==
  ASSUME NEW S, NEW t \in Seq(S), NEW q \in Seq(S), q # << >>
  PROVE  t \o q = (t \o <<Head(q)>>) \o Tail(q)
<1>1. Head(q) \in S /\ Tail(q) \in Seq(S) /\ <<Head(q)>> \in Seq(S)
  BY HeadTailProperties
<1>2. q = <<Head(q)>> \o Tail(q)
  <2>1. Len(q) \in Nat /\ Len(q) # 0 /\ Len(Tail(q)) = Len(q) - 1
    BY EmptySeq, LenProperties, HeadTailProperties
  <2>2. /\ Len(<<Head(q)>> \o Tail(q)) = Len(q)
        /\ <<Head(q)>> \o Tail(q) \in Seq(S)
    BY <1>1, <2>1, ConcatProperties
  <2>3. \A i \in 1..Len(q) : q[i] = (<<Head(q)>> \o Tail(q))[i]
    BY <1>1, <2>1, ConcatProperties, HeadTailProperties
  <2> QED
    BY <2>2, <2>3, SeqEqual
<1> QED
  BY <1>1, <1>2, ConcatAssociative

-----------------------------------------------------------------------------
(***************************************************************************)
(* Types.                                                                  *)
(***************************************************************************)
LEMMA HandIsSeq == ASSUME TypeOK PROVE hand \in Seq(Message)
<1>1. \A m \in Message : <<m>> \in Seq(Message)
  OBVIOUS
<1> QED
  BY <1>1, EmptySeq DEF TypeOK

LEMMA InitType == Init => TypeOK
<1>1. << >> \in Seq(Message) /\ << >> \in Seq(Piece)
  BY EmptySeq
<1>2. 0 \in 0..MaxSends
  BY ServerAssumption
<1> QED
  BY <1>1, <1>2 DEF Init, TypeOK, MainPc, ConsPc, WorkPc

LEMMA MainType == ASSUME TypeOK, MainStep PROVE TypeOK'
<1> USE DEF Goto, flags, net, history, StopRunning, MainPc, ConsPc, WorkPc
<1>1. /\ UNCHANGED <<mutex, hand, text, client, sends, stream, accepted, delivered>>
      /\ main' \in MainPc
  BY DEF MainStep, Start, MainCheck, MainPoll, MainAccept, AcceptNone, AcceptFails,
         AcceptOne, MainStop, MainClose, MainBroadcast, MainJoin, MainFree,
         MainDestroy, MainReturn
<1>2. /\ running' \in BOOLEAN /\ listening' \in BOOLEAN /\ destroyed' \in BOOLEAN
      /\ cons' \in ConsPc
  BY DEF TypeOK, MainStep, Start, MainCheck, MainPoll, MainAccept, AcceptNone,
         AcceptFails, AcceptOne, MainStop, MainClose, MainBroadcast, MainJoin,
         MainFree, MainDestroy, MainReturn, Wake
<1>3. queue' \in Seq(Message) /\ work' \in [Conns -> WorkPc]
  <2>1. << >> \in Seq(Message)
    BY EmptySeq
  <2> QED
    BY <2>1 DEF TypeOK, MainStep, Start, MainCheck, MainPoll, MainAccept, AcceptNone,
       AcceptFails, AcceptOne, MainStop, MainClose, MainBroadcast, MainJoin,
       MainFree, MainDestroy, MainReturn
<1> QED
  BY <1>1, <1>2, <1>3 DEF TypeOK

LEMMA ConsType == ASSUME TypeOK, ConsRun \/ SpuriousWakeup, 
                         UNCHANGED <<flags, destroyed, main, workers, net, accepted>>
                  PROVE  TypeOK'
<1> USE DEF flags, net, workers, Acquire, Release, TakeFront, ConsPc
<1>1. mutex' \in Conns \cup {Consumer, Free} /\ cons' \in ConsPc
  BY DEF TypeOK, ConsRun, SpuriousWakeup, ConsLock, ConsOuter, ConsInner, ConsWait,
         ConsAfter, ConsPop, ConsDeliver, ConsUnlock
<1>2. /\ queue' \in Seq(Message) /\ delivered' \in Seq(Message)
      /\ hand' = << >> \/ \E m \in Message : hand' = <<m>>
  <2>1. CASE ConsPop
    BY <2>1, HeadTailProperties DEF TypeOK, ConsPop
  <2>2. CASE ConsDeliver
    <3>1. hand \in Seq(Message)
      BY HandIsSeq
    <3> QED
      BY <2>2, <3>1, ConcatProperties DEF TypeOK, ConsDeliver
  <2> QED
    BY <2>1, <2>2 DEF TypeOK, ConsRun, SpuriousWakeup, ConsLock, ConsOuter, ConsInner,
       ConsWait, ConsAfter, ConsUnlock
<1> QED
  BY <1>1, <1>2 DEF TypeOK

LEMMA WorkType == ASSUME TypeOK, NEW c \in Conns, WorkStep(c) PROVE TypeOK'
<1> USE DEF flags, At, Acquire, Release, StopRunning
<1>1. UNCHANGED <<destroyed, hand, client, sends, delivered>>
  BY DEF WorkStep
<1>2. running' \in BOOLEAN /\ listening' \in BOOLEAN
  BY DEF TypeOK, WorkStep, Recv, Lock, Push, Signal, Unlock, StoreFlag, CloseListen,
         Broadcast, CloseConn
<1>3. main' \in MainPc /\ cons' \in ConsPc /\ mutex' \in Conns \cup {Consumer, Free}
  BY DEF TypeOK, WorkStep, Recv, Lock, Push, Signal, Unlock, StoreFlag, CloseListen,
         Broadcast, CloseConn, Wake, MainPc, ConsPc
<1>4. work' \in [Conns -> WorkPc]
  BY DEF TypeOK, WorkStep, Recv, Lock, Push, Signal, Unlock, StoreFlag, CloseListen,
         Broadcast, CloseConn, WorkPc
<1>5. queue' \in Seq(Message) /\ accepted' \in Seq(Message)
  <2>1. [from |-> c, body |-> text[c]] \in Message
    BY DEF TypeOK, Message
  <2>2. CASE Push(c)
    <3>1. /\ queue \in Seq(Message) /\ accepted \in Seq(Message)
          /\ Append(queue, [from |-> c, body |-> text[c]]) \in Seq(Message)
          /\ Append(accepted, [from |-> c, body |-> text[c]]) \in Seq(Message)
      BY <2>1, AppendProperties DEF TypeOK
    <3> QED
      BY <2>2, <3>1 DEF Push
  <2> QED
    BY <2>2 DEF TypeOK, WorkStep, Recv, Lock, Signal, Unlock, StoreFlag, CloseListen,
       Broadcast, CloseConn
<1>6. text' \in [Conns -> Texts \cup {Part}] /\ stream' \in [Conns -> Seq(Piece)]
  <2>1. CASE Recv(c)
    <3>1. stream[c] \in Seq(Piece)
      BY DEF TypeOK
    <3>2. ASSUME NEW k \in 1..Len(stream[c])
          PROVE  /\ Received(stream[c], k) \in Texts \cup {Part}
                 /\ SubSeq(stream[c], k + 1, Len(stream[c])) \in Seq(Piece)
      <4>1. Len(stream[c]) \in Nat /\ \A i \in 1..Len(stream[c]) : stream[c][i] \in Piece
        BY <3>1, LenProperties, ElementOfSeq
      <4>2. stream[c][1] \in Piece
        BY <4>1
      <4>3. Received(stream[c], k) \in Texts \cup {Part}
        BY <4>2 DEF Received, Piece
      <4>4. \A i \in (k + 1)..Len(stream[c]) : stream[c][i] \in Piece
        BY <4>1
      <4> QED
        BY <4>1, <4>3, <4>4, SubSeqProperties
    <3>3. CASE UNCHANGED <<text, stream>>
      BY <3>3 DEF TypeOK
    <3>4. ASSUME NEW k \in 1..Len(stream[c]),
                 text' = [text EXCEPT ![c] = Received(stream[c], k)],
                 stream' = [stream EXCEPT ![c] = SubSeq(@, k + 1, Len(@))]
          PROVE  text' \in [Conns -> Texts \cup {Part}] /\ stream' \in [Conns -> Seq(Piece)]
      <4>1. text \in [Conns -> Texts \cup {Part}] /\ stream \in [Conns -> Seq(Piece)]
        BY DEF TypeOK
      <4> QED
        BY <3>2, <3>4, <4>1
    <3> QED
      BY <2>1, <3>3, <3>4 DEF Recv
  <2> QED
    BY <2>1 DEF TypeOK, WorkStep, Lock, Push, Signal, Unlock, StoreFlag, CloseListen,
       Broadcast, CloseConn
<1> QED
  BY <1>1, <1>2, <1>3, <1>4, <1>5, <1>6 DEF TypeOK

LEMMA ClientType == ASSUME TypeOK, NEW c \in Conns, ClientStep(c) PROVE TypeOK'
<1> USE DEF flags, lock, consumer, history
<1>1. UNCHANGED <<flags, lock, queue, main, consumer, text, history>>
  BY DEF ClientStep
<1>2. /\ work' \in [Conns -> WorkPc]
      /\ client' \in [Conns -> {"idle", "open", "quit", "gone"}]
  BY DEF TypeOK, ClientStep, Connect, Send, HangUp, WorkPc
<1>3. sends' \in [Conns -> 0..MaxSends]
  <2>1. sends[c] \in 0..MaxSends
    BY DEF TypeOK
  <2>2. sends[c] < MaxSends => sends[c] + 1 \in 0..MaxSends
    BY <2>1, ServerAssumption
  <2> QED
    BY <2>2 DEF TypeOK, ClientStep, Connect, Send, HangUp
<1>4. stream' \in [Conns -> Seq(Piece)]
  <2>1. ASSUME NEW t \in Texts, Send(c, t)
        PROVE  stream' \in [Conns -> Seq(Piece)]
    <3>1. <<[of |-> t, last |-> FALSE], [of |-> t, last |-> TRUE]>> \in Seq(Piece)
      BY DEF Piece
    <3>2. stream[c] \in Seq(Piece)
      BY DEF TypeOK
    <3> QED
      BY <2>1, <3>1, <3>2, ConcatProperties DEF TypeOK, Send
  <2> QED
    BY <2>1 DEF TypeOK, ClientStep, Connect, HangUp
<1> QED
  BY <1>1, <1>2, <1>3, <1>4 DEF TypeOK

LEMMA NextType == ASSUME TypeOK, [Next]_vars PROVE TypeOK'
<1>1. CASE UNCHANGED vars
  BY <1>1 DEF TypeOK, vars, flags, lock, consumer, workers, net, history
<1> QED
  BY <1>1, MainType, ConsType, WorkType, ClientType DEF Next, ConsStep, Ended

\* Every variable stays in its range.
THEOREM TypeCorrect == Spec => []TypeOK
  BY InitType, NextType, PTL DEF Spec

-----------------------------------------------------------------------------
(***************************************************************************)
(* The inductive invariant.  Each step is one of: the main thread, the     *)
(* consumer, a worker, a client, or nothing.                               *)
(***************************************************************************)
LEMMA InitInv == Init => ServerInv
<1> SUFFICES ASSUME Init PROVE ServerInv
  OBVIOUS
<1>1. TypeOK
  BY InitType
<1>2. Len(accepted) = 0 /\ Len(delivered) = 0
  BY DEF Init
<1>3. ~HasExit(accepted) /\ ~HasExit(delivered)
  BY <1>2 DEF HasExit
<1>4. Fifo
  <2>1. (<< >> \o << >>) \o << >> = << >>
    BY ConcatEmptySeq, EmptySeq
  <2> QED
    BY <2>1 DEF Init, Fifo, Taken
<1> QED
  BY <1>1, <1>3, <1>4
     DEF Init, ServerInv, MutualExclusion, InCritical, ConsumerAccessSafe,
         PrintedBufferLive, ExitWakesConsumer, HandFull, JoinedBeforeFree,
         TestedBeforePop, ExitDelivered, NoExitBeforeWait, Freed, StartedByMain,
         ExitAccepted

\* The main thread frees the deque only after the consumer's end, and touches
\* neither mutex nor messages.
LEMMA MainInv == ASSUME ServerInv, MainStep PROVE ServerInv'
<1>1. TypeOK'
  BY MainType DEF ServerInv
<1>2. UNCHANGED <<mutex, hand, text, accepted, delivered>>
  BY DEF MainStep, history
<1>3. /\ cons' = cons \/ (cons = "waiting" /\ cons' = "relock")
         \/ (main = "start" /\ cons' = "lock")
      /\ running' = running \/ running' = FALSE
  BY DEF MainStep, Start, MainCheck, MainPoll, MainAccept, AcceptNone, AcceptFails,
         AcceptOne, MainStop, MainClose, MainBroadcast, MainJoin, MainFree,
         MainDestroy, MainReturn, Wake, StopRunning, Goto, flags
<1>4. \A c \in Conns : /\ InCritical(c)' <=> InCritical(c)
                       /\ work'[c] = "signal" <=> work[c] = "signal"
                       /\ work'[c] = "unlock" <=> work[c] = "unlock"
  BY DEF MainStep, Start, MainCheck, MainPoll, MainAccept, AcceptNone, AcceptFails,
         AcceptOne, MainStop, MainClose, MainBroadcast, MainJoin, MainFree,
         MainDestroy, MainReturn, Goto, ServerInv, TypeOK, InCritical
<1>5. /\ queue' = queue \/ (main = "free" /\ main' = "destroy")
      /\ main' = "start" => main = "start" /\ cons' = cons
      /\ Freed => Freed' \/ ~Alive'
      /\ main' = "free" \/ Freed' => cons' = cons /\ (main = "free" \/ Freed \/ cons = "done")
  BY DEF MainStep, Start, MainCheck, MainPoll, MainAccept, AcceptNone, AcceptFails,
         AcceptOne, MainStop, MainClose, MainBroadcast, MainJoin, MainFree,
         MainDestroy, MainReturn, Goto, Freed, Alive
<1>6. Alive
  BY DEF MainStep, Start, MainCheck, MainPoll, MainAccept, AcceptNone, AcceptFails,
         AcceptOne, MainStop, MainClose, MainBroadcast, MainJoin, MainFree,
         MainDestroy, MainReturn, Goto, Alive
<1>7. cons # "done" => queue' = queue
  BY <1>5 DEF ServerInv, JoinedBeforeFree
<1>8. cons' # "done" => cons # "done"
  BY <1>3 DEF ServerInv, StartedByMain
<1>9. MutualExclusion'
  BY <1>2, <1>3, <1>4 DEF ServerInv, MutualExclusion, StartedByMain
<1>10. Fifo'
  BY <1>2, <1>5, <1>6 DEF ServerInv, Fifo, Freed, Taken
<1>11. JoinedBeforeFree' /\ StartedByMain'
  BY <1>5 DEF ServerInv, JoinedBeforeFree, StartedByMain
<1>12. ConsumerAccessSafe' /\ TestedBeforePop'
  BY <1>3, <1>7, <1>11 DEF ServerInv, ConsumerAccessSafe, TestedBeforePop, JoinedBeforeFree
<1>13. PrintedBufferLive'
  BY <1>2, <1>4, <1>7, <1>8 DEF ServerInv, PrintedBufferLive
<1>14. /\ ExitWakesConsumer' /\ HandFull' /\ ExitDelivered' /\ NoExitBeforeWait'
  BY <1>2, <1>3, <1>4
     DEF ServerInv, ExitWakesConsumer, HandFull, ExitDelivered, NoExitBeforeWait,
         ExitAccepted, HasExit, StartedByMain
<1> QED
  BY <1>1, <1>9, <1>10, <1>11, <1>12, <1>13, <1>14 DEF ServerInv

-----------------------------------------------------------------------------
(***************************************************************************)
(* The consumer.                                                           *)
(***************************************************************************)
ConsFrame == UNCHANGED <<flags, destroyed, main, workers, net, accepted>>

\* While the consumer runs, what was pushed is where Fifo says it is.
LEMMA ConsFifo ==
  ASSUME ServerInv, Alive, cons # "done"
  PROVE  ~Freed /\ accepted = Taken \o queue
BY DEF ServerInv, Fifo, JoinedBeforeFree

\* One step of the consumer keeps the order of the messages.
LEMMA ConsKeepsFifo ==
  ASSUME ServerInv, Alive, ConsRun \/ SpuriousWakeup, ConsFrame
  PROVE  Fifo'
<1> USE DEF ConsFrame, flags, workers, net
<1>1. cons # "done"
  BY DEF ConsRun, SpuriousWakeup, ConsLock, ConsOuter, ConsInner, ConsWait, ConsAfter,
         ConsPop, ConsDeliver, ConsUnlock
<1>2. accepted = Taken \o queue
  BY <1>1, ConsFifo
<1>3. /\ delivered \in Seq(Message) /\ queue \in Seq(Message)
      /\ hand \in Seq(Message)
  BY HandIsSeq DEF ServerInv, TypeOK
<1>4. CASE ConsPop
  <2>1. hand = << >> /\ Taken = delivered
    BY <1>3, <1>4, ConcatEmptySeq DEF ServerInv, HandFull, ConsPop, Taken
  <2>2. Taken' = delivered \o <<Head(queue)>> /\ queue' = Tail(queue) /\ queue # << >>
    BY <1>4 DEF ConsPop, TakeFront, Taken
  <2>3. delivered \o queue = (delivered \o <<Head(queue)>>) \o Tail(queue)
    BY <1>3, <2>2, MoveHead
  <2> QED
    BY <1>2, <2>1, <2>2, <2>3 DEF Fifo
<1>5. CASE ConsDeliver
  <2>1. (delivered \o hand) \o << >> = delivered \o hand
    BY <1>3, ConcatProperties, ConcatEmptySeq
  <2>2. Taken' = Taken
    BY <1>5, <2>1 DEF ConsDeliver, Taken
  <2> QED
    BY <1>2, <1>5, <2>2 DEF ConsDeliver, Fifo
<1>6. UNCHANGED <<queue, hand, delivered>> => Fifo'
  BY <1>2 DEF Fifo, Taken
<1> QED
  BY <1>4, <1>5, <1>6 DEF ConsRun, SpuriousWakeup, ConsLock, ConsOuter, ConsInner,
     ConsWait, ConsAfter, ConsUnlock

LEMMA ConsInv ==
  ASSUME ServerInv, Alive, ConsRun \/ SpuriousWakeup, ConsFrame
  PROVE  ServerInv'
<1> USE DEF flags, workers, net
<1>1. TypeOK'
  BY ConsType DEF ServerInv, ConsFrame
<1>2. Fifo'
  BY ConsKeepsFifo
<1>3. UNCHANGED <<running, main, work, text, accepted>> /\ (Freed' <=> Freed) /\ Alive'
  BY DEF ConsFrame, Freed, Alive
<1>4. ~Freed /\ main # "free" /\ main # "start" /\ cons # "done"
  BY DEF ConsRun, SpuriousWakeup, ConsLock, ConsOuter, ConsInner, ConsWait, ConsAfter,
         ConsPop, ConsDeliver, ConsUnlock, ServerInv, JoinedBeforeFree, StartedByMain
<1>5. JoinedBeforeFree' /\ StartedByMain'
  BY <1>3, <1>4 DEF JoinedBeforeFree, StartedByMain
<1>6. MutualExclusion'
  BY <1>3, <1>4, ServerAssumption
     DEF ConsRun, SpuriousWakeup, ConsLock, ConsOuter, ConsInner, ConsWait, ConsAfter,
         ConsPop, ConsDeliver, ConsUnlock, ServerInv, MutualExclusion, InCritical,
         Acquire, Release
<1>7. ConsumerAccessSafe' /\ TestedBeforePop'
  BY <1>3, <1>4
     DEF ConsRun, SpuriousWakeup, ConsLock, ConsOuter, ConsInner, ConsWait, ConsAfter,
         ConsPop, ConsDeliver, ConsUnlock, ServerInv, ConsumerAccessSafe, TestedBeforePop
<1>8. PrintedBufferLive'
  <2>1. CASE ConsPop
    <3>1. \A c \in Conns : ~InCritical(c)
      BY <2>1, ServerAssumption DEF ConsPop, ServerInv, MutualExclusion
    <3> QED
      BY <1>3, <3>1 DEF PrintedBufferLive, InCritical
  <2> QED
    BY <1>3, <1>4, <2>1 DEF ConsRun, SpuriousWakeup, ConsLock, ConsOuter, ConsInner,
       ConsWait, ConsAfter, ConsDeliver, ConsUnlock, ServerInv, PrintedBufferLive
<1>9. HandFull'
  <2>1. \A m : <<m>> # << >>
    OBVIOUS
  <2> QED
    BY <2>1 DEF ConsRun, SpuriousWakeup, ConsLock, ConsOuter, ConsInner, ConsWait,
       ConsAfter, ConsPop, ConsDeliver, ConsUnlock, TakeFront, ServerInv, HandFull
<1>10. ExitDelivered'
  <2>1. CASE ConsDeliver
    <3>1. PICK m \in Message : hand = <<m>>
      BY <2>1 DEF ConsDeliver, ServerInv, HandFull, TypeOK
    <3>2. delivered \in Seq(Message) /\ ~HasExit(delivered)
      BY <2>1 DEF ConsDeliver, ServerInv, ExitDelivered, TypeOK
    <3>3. delivered' = Append(delivered, m)
      BY <2>1, <3>1, <3>2, AppendIsConcat DEF ConsDeliver
    <3>4. HasExit(delivered') => m.body = Exit
      BY <3>2, <3>3, AppendProperties, LenProperties DEF HasExit
    <3> QED
      BY <2>1, <3>1, <3>4 DEF ConsDeliver, ExitDelivered
  <2> QED
    BY <2>1 DEF ConsRun, SpuriousWakeup, ConsLock, ConsOuter, ConsInner, ConsWait,
       ConsAfter, ConsPop, ConsUnlock, ServerInv, ExitDelivered
<1>11. NoExitBeforeWait'
  <2>1. CASE ConsInner /\ queue = << >>
    <3>1. hand = << >> /\ delivered \in Seq(Message)
      BY <2>1 DEF ConsInner, ServerInv, HandFull, TypeOK
    <3>2. accepted = delivered
      BY <1>4, <2>1, <3>1, ConsFifo, ConcatEmptySeq DEF Taken
    <3>3. ~HasExit(delivered)
      BY <2>1 DEF ConsInner, ServerInv, ExitDelivered
    <3> QED
      BY <1>3, <3>2, <3>3 DEF NoExitBeforeWait, ExitAccepted
  <2> QED
    BY <2>1 DEF ConsRun, SpuriousWakeup, ConsLock, ConsOuter, ConsInner, ConsWait,
       ConsAfter, ConsPop, ConsDeliver, ConsUnlock, ServerInv, NoExitBeforeWait
<1>12. ExitWakesConsumer'
  BY <1>3 DEF ConsRun, SpuriousWakeup, ConsLock, ConsOuter, ConsInner, ConsWait,
     ConsAfter, ConsPop, ConsDeliver, ConsUnlock, ServerInv, ExitWakesConsumer,
     NoExitBeforeWait, ExitAccepted
<1> QED
  BY <1>1, <1>2, <1>5, <1>6, <1>7, <1>8, <1>9, <1>10, <1>11, <1>12 DEF ServerInv

-----------------------------------------------------------------------------
(***************************************************************************)
(* A worker.                                                               *)
(***************************************************************************)
\* What a worker's step leaves alone, and how it may move the others.
LEMMA WorkFrame ==
  ASSUME ServerInv, NEW c \in Conns, WorkStep(c)
  PROVE  /\ UNCHANGED <<hand, delivered>>
         /\ running' = running \/ running' = FALSE
         /\ cons' = cons \/ (cons = "waiting" /\ cons' = "relock")
         /\ Alive /\ (Freed' => Freed) /\ (Alive' => main' = main)
         /\ main' = "free" => main = "free"
         /\ main' # "start" \/ main = "start"
         /\ \A d \in Conns \ {c} : work'[d] = work[d] /\ text'[d] = text[d]
<1> USE DEF WorkStep, Recv, Lock, Push, Signal, Unlock, StoreFlag, CloseListen, Broadcast,
            CloseConn, At, flags, StopRunning, Wake, ServerInv, TypeOK
<1>1. UNCHANGED <<hand, delivered>> /\ (running' = running \/ running' = FALSE)
  OBVIOUS
<1>2. cons' = cons \/ (cons = "waiting" /\ cons' = "relock")
  OBVIOUS
<1>3. /\ Alive /\ (Freed' => Freed) /\ (Alive' => main' = main)
      /\ main' = "free" => main = "free"
      /\ main' # "start" \/ main = "start"
  BY DEF Alive, Freed
<1>4. \A d \in Conns \ {c} : work'[d] = work[d] /\ text'[d] = text[d]
  OBVIOUS
<1> QED
  BY <1>1, <1>2, <1>3, <1>4

\* Any step of a worker but the push proper.
LEMMA WorkQuiet ==
  ASSUME ServerInv, NEW c \in Conns, WorkStep(c), UNCHANGED <<queue, accepted>>,
         work[c] # "push" \/ work'[c] = "close" \/ cons = "done"
  PROVE  ServerInv'
<1> USE WorkFrame
<1>1. TypeOK'
  BY WorkType DEF ServerInv
<1>2. MutualExclusion'
  <2>1. /\ InCritical(c)' => (InCritical(c) /\ mutex' = mutex) \/ (mutex = Free /\ mutex' = c)
        /\ mutex' = mutex \/ (mutex = Free /\ mutex' = c) \/ InCritical(c)
    BY DEF WorkStep, Recv, Lock, Push, Signal, Unlock, StoreFlag, CloseListen, Broadcast,
           CloseConn, At, InCritical, Acquire, Release, ServerInv, TypeOK
  <2>2. \A d \in Conns \ {c} : InCritical(d)' <=> InCritical(d)
    BY DEF InCritical
  <2>3. cons' # "done" => cons # "done"
    OBVIOUS
  <2>4. cons' \in {"outer", "inner", "wait", "after", "pop"} => cons' = cons
    OBVIOUS
  <2>5. cons # "done" => \A d \in Conns : InCritical(d)' => mutex' = d
    BY <2>1, <2>2, ServerAssumption DEF ServerInv, MutualExclusion
  <2>6. cons # "done" /\ cons \in {"outer", "inner", "wait", "after", "pop"} =>
          mutex' = Consumer
    BY <2>1, ServerAssumption DEF ServerInv, MutualExclusion
  <2> QED
    BY <2>3, <2>4, <2>5, <2>6 DEF MutualExclusion
<1>3. Fifo'
  BY DEF ServerInv, Fifo, Alive, Freed, Taken
<1>4. ConsumerAccessSafe' /\ TestedBeforePop' /\ JoinedBeforeFree' /\ StartedByMain'
  BY DEF ServerInv, ConsumerAccessSafe, TestedBeforePop, JoinedBeforeFree, StartedByMain,
         Alive, Freed
<1>5. PrintedBufferLive'
  <2>1. work'[c] \in {"signal", "unlock"} /\ cons # "done" =>
          work[c] \in {"signal", "unlock"} /\ text'[c] = text[c]
    BY DEF WorkStep, Recv, Lock, Push, Signal, Unlock, StoreFlag, CloseListen, Broadcast,
           CloseConn, At, ServerInv, TypeOK
  <2> QED
    BY <2>1 DEF ServerInv, PrintedBufferLive
<1>6. HandFull' /\ ExitDelivered' /\ NoExitBeforeWait'
  BY DEF ServerInv, HandFull, ExitDelivered, NoExitBeforeWait, ExitAccepted, HasExit
<1>7. ExitWakesConsumer'
  <2>1. CASE Signal(c)
    BY <2>1 DEF Signal, Wake, ExitWakesConsumer
  <2>2. work[c] = "signal" => Signal(c)
    BY DEF WorkStep, Recv, Lock, Push, Signal, Unlock, StoreFlag, CloseListen, Broadcast,
           CloseConn, At
  <2> QED
    BY <2>1, <2>2 DEF ServerInv, ExitWakesConsumer, ExitAccepted, HasExit
<1> QED
  BY <1>1, <1>2, <1>3, <1>4, <1>5, <1>6, <1>7 DEF ServerInv

LEMMA TakenAppend ==
  ASSUME ServerInv, NEW m \in Message
  PROVE  Taken \o Append(queue, m) = Append(Taken \o queue, m)
<1>1. Taken \in Seq(Message) /\ queue \in Seq(Message)
  BY HandIsSeq, ConcatProperties DEF ServerInv, TypeOK, Taken
<1> QED
  BY <1>1, AppendLast

\* The push: the worker holds the mutex, so while the consumer has not ended it is
\* alone in the critical section and the consumer is outside it.
LEMMA WorkPush ==
  ASSUME ServerInv, NEW c \in Conns, WorkStep(c), Push(c),
         queue' = Append(queue, [from |-> c, body |-> text[c]]),
         accepted' = Append(accepted, [from |-> c, body |-> text[c]]),
         ~Freed, At(c, "push", "signal"), UNCHANGED <<mutex, main, cons, text, running>>
  PROVE  ServerInv'
<1> DEFINE m == [from |-> c, body |-> text[c]]
<1> USE WorkFrame
<1>1. TypeOK'
  BY WorkType DEF ServerInv
<1>2. /\ work[c] = "push" /\ work' = [work EXCEPT ![c] = "signal"]
      /\ work \in [Conns -> WorkPc]
      /\ m \in Message /\ queue \in Seq(Message) /\ accepted \in Seq(Message)
  BY DEF At, ServerInv, TypeOK, Message
<1>3. MutualExclusion'
  BY <1>2 DEF ServerInv, MutualExclusion, InCritical
<1>4. Fifo'
  <2>1. accepted = Taken \o queue /\ Taken' = Taken
    BY DEF ServerInv, Fifo, Taken
  <2>2. Taken \o Append(queue, m) = Append(Taken \o queue, m)
    BY <1>2, TakenAppend
  <2> QED
    BY <2>1, <2>2 DEF Fifo
<1>5. /\ queue' # << >> /\ Len(queue') = Len(queue) + 1 /\ queue'[Len(queue) + 1] = m
      /\ Len(queue) \in Nat
  BY <1>2, AppendProperties, LenProperties
<1>6. ConsumerAccessSafe' /\ TestedBeforePop' /\ JoinedBeforeFree' /\ StartedByMain'
  BY <1>5 DEF ServerInv, ConsumerAccessSafe, TestedBeforePop, JoinedBeforeFree,
     StartedByMain, Alive, Freed
<1>7. PrintedBufferLive'
  <2>1. queue'[Len(queue')] = m
    BY <1>5
  <2>2. cons # "done" => \A d \in Conns \ {c} : ~InCritical(d)
    BY <1>2 DEF ServerInv, MutualExclusion, InCritical
  <2>3. \A d \in Conns \ {c} : work'[d] \in {"signal", "unlock"} => InCritical(d)
    BY DEF InCritical
  <2> QED
    BY <1>5, <2>1, <2>2, <2>3 DEF PrintedBufferLive
<1>8. HandFull' /\ ExitDelivered'
  BY DEF ServerInv, HandFull, ExitDelivered
<1>9. cons # "wait"
  BY <1>2, ServerAssumption DEF ServerInv, MutualExclusion, InCritical
<1>10. NoExitBeforeWait' /\ ExitWakesConsumer'
  BY <1>2, <1>9 DEF NoExitBeforeWait, ExitWakesConsumer
<1> QED
  BY <1>1, <1>3, <1>4, <1>6, <1>7, <1>8, <1>10 DEF ServerInv

\* A push that races with another worker's, or falls on the freed deque, happens
\* only once the consumer has ended.
LEMMA WorkInv == ASSUME ServerInv, NEW c \in Conns, WorkStep(c) PROVE ServerInv'
<1>1. CASE Push(c)
  <2>1. work[c] = "push" /\ work \in [Conns -> WorkPc]
    BY <1>1 DEF Push, At, ServerInv, TypeOK
  <2>2. Crowded(c) \/ Freed => cons = "done"
    BY <2>1 DEF ServerInv, MutualExclusion, JoinedBeforeFree, Crowded, InCritical
  <2>3. CASE UNCHANGED <<queue, accepted>>
    <3>1. work'[c] = "close" \/ cons = "done" \/ ~UNCHANGED <<queue, accepted>>
      <4>1. Append(queue, [from |-> c, body |-> text[c]]) # queue
        <5>1. queue \in Seq(Message) /\ [from |-> c, body |-> text[c]] \in Message
          BY DEF ServerInv, TypeOK, Message
        <5>2. Len(Append(queue, [from |-> c, body |-> text[c]])) = Len(queue) + 1
              /\ Len(queue) \in Nat
          BY <5>1, AppendProperties, LenProperties
        <5> QED
          BY <5>2
      <4> QED
        BY <1>1, <2>1, <2>2, <4>1 DEF Push, At
    <3> QED
      BY <2>3, <3>1, WorkQuiet
  <2>4. CASE ~Freed /\ At(c, "push", "signal")
             /\ queue' = Append(queue, [from |-> c, body |-> text[c]])
             /\ accepted' = Append(accepted, [from |-> c, body |-> text[c]])
             /\ UNCHANGED <<mutex, main>>
    BY <1>1, <2>4, WorkPush DEF Push, flags
  <2> QED
    BY <1>1, <2>3, <2>4 DEF Push
<1>2. CASE ~Push(c)
  <2>1. UNCHANGED <<queue, accepted>> /\ work[c] # "push"
    BY <1>2 DEF WorkStep, Recv, Lock, Signal, Unlock, StoreFlag, CloseListen, Broadcast,
       CloseConn, At
  <2> QED
    BY <2>1, WorkQuiet
<1> QED
  BY <1>1, <1>2

LEMMA ClientInv == ASSUME ServerInv, NEW c \in Conns, ClientStep(c) PROVE ServerInv'
<1>1. TypeOK'
  BY ClientType DEF ServerInv
<1>2. UNCHANGED <<flags, lock, queue, main, consumer, text, history>>
  BY DEF ClientStep
<1>3. \A d \in Conns : /\ InCritical(d)' <=> InCritical(d)
                       /\ (work'[d] = "signal") <=> (work[d] = "signal")
                       /\ (work'[d] = "unlock") <=> (work[d] = "unlock")
  BY DEF ClientStep, Connect, Send, HangUp, InCritical, ServerInv, TypeOK
<1> USE <1>2, <1>3 DEF ServerInv, flags, lock, consumer, history
<1>4. MutualExclusion' /\ Fifo' /\ PrintedBufferLive' /\ ExitWakesConsumer'
  BY DEF MutualExclusion, Fifo, PrintedBufferLive, ExitWakesConsumer, Alive, Freed,
         ExitAccepted, HasExit, Taken
<1>5. /\ ConsumerAccessSafe' /\ StartedByMain' /\ HandFull' /\ JoinedBeforeFree'
      /\ TestedBeforePop' /\ ExitDelivered' /\ NoExitBeforeWait'
  BY DEF ConsumerAccessSafe, StartedByMain, HandFull, JoinedBeforeFree, TestedBeforePop,
         ExitDelivered, NoExitBeforeWait, Alive, Freed, ExitAccepted, HasExit
<1> QED
  BY <1>1, <1>4, <1>5

LEMMA StutterInv == ASSUME ServerInv, UNCHANGED vars PROVE ServerInv'
<1> USE DEF vars, flags, lock, consumer, workers, net, history, ServerInv
<1>1. TypeOK' /\ MutualExclusion' /\ Fifo' /\ PrintedBufferLive' /\ ExitWakesConsumer'
  BY DEF TypeOK, MutualExclusion, Fifo, PrintedBufferLive, ExitWakesConsumer, Alive, Freed,
         ExitAccepted, HasExit, InCritical, Taken
<1>2. /\ ConsumerAccessSafe' /\ StartedByMain' /\ HandFull' /\ JoinedBeforeFree'
      /\ TestedBeforePop' /\ ExitDelivered' /\ NoExitBeforeWait'
  BY DEF ConsumerAccessSafe, StartedByMain, HandFull, JoinedBeforeFree, TestedBeforePop,
         ExitDelivered, NoExitBeforeWait, Alive, Freed, ExitAccepted, HasExit
<1> QED
  BY <1>1, <1>2

LEMMA NextInv == ASSUME ServerInv, [Next]_vars PROVE ServerInv'
  BY MainInv, ConsInv, WorkInv, ClientInv, StutterInv DEF Next, ConsStep, ConsFrame, Ended

-----------------------------------------------------------------------------
(***************************************************************************)
(* The theorems.                                                           *)
(***************************************************************************)
\* The inductive invariant holds of every behaviour.
THEOREM ServerInvariant == Spec => []ServerInv
  BY InitInv, NextInv, PTL DEF Spec

\* At most one thread is inside the critical section of mut, and it is the holder,
\* as long as the consumer has not run its last unlock.
THEOREM Exclusion == Spec => []MutualExclusion
  BY ServerInvariant, PTL DEF ServerInv

\* Every message pushed is printed once and in the order pushed, or is still on its
\* way, until the deque is freed.
THEOREM Ordered == Spec => []Fifo
  BY ServerInvariant, PTL DEF ServerInv

\* The consumer never pops an empty or a freed deque.
THEOREM SafePops == Spec => []ConsumerAccessSafe
  BY ServerInvariant, PTL DEF ServerInv

\* The buffer a worker prints after pushing it has not been freed.
THEOREM SafePrint == Spec => []PrintedBufferLive
  BY ServerInvariant, PTL DEF ServerInv

\* The consumer cannot sleep through a shutdown that came in as a message.
THEOREM ExitNotMissed == Spec => []ExitWakesConsumer
  BY ServerInvariant, PTL DEF ServerInv

-----------------------------------------------------------------------------
(***************************************************************************)
(* The server implements the abstract mailbox.                             *)
(***************************************************************************)
\* Steps that print and accept nothing can only close the mailbox.
LEMMA QuietRefines ==
  ASSUME UNCHANGED <<accepted, delivered>>,
         \/ Phase' = Phase
         \/ Phase = "open" /\ Phase' \in {"last", "shut"}
         \/ Phase = "last" /\ Phase' = "shut"
  PROVE  [M!Next]_(M!vars)
BY DEF M!Next, M!vars, M!Close, M!GiveUp

LEMMA MainRefines == ASSUME ServerInv, MainStep PROVE [M!Next]_(M!vars)
<1>1. UNCHANGED <<accepted, delivered>>
  BY DEF MainStep, history
<1>2. \/ UNCHANGED <<cons, running>>
      \/ running' = FALSE /\ cons' = cons
      \/ running' = running /\ cons = "waiting" /\ cons' = "relock"
      \/ running' = running /\ main = "start" /\ cons' = "lock"
  BY DEF MainStep, Start, MainCheck, MainPoll, MainAccept, AcceptNone, AcceptFails,
         AcceptOne, MainStop, MainClose, MainBroadcast, MainJoin, MainFree,
         MainDestroy, MainReturn, Wake, StopRunning, Goto, flags
<1>3. main = "start" => cons = "off"
  BY DEF ServerInv, StartedByMain
<1> QED
  BY <1>1, <1>2, <1>3, QuietRefines DEF Phase

LEMMA ConsRefines ==
  ASSUME ServerInv, Alive, ConsRun \/ SpuriousWakeup, ConsFrame
  PROVE  [M!Next]_(M!vars)
<1>1. UNCHANGED <<running, accepted>>
  BY DEF ConsFrame, flags
<1>2. CASE ConsDeliver
  <2>1. PICK m \in Message : hand = <<m>>
    BY <1>2 DEF ConsDeliver, ServerInv, HandFull, TypeOK
  <2>2. /\ delivered \in Seq(Message) /\ queue \in Seq(Message) /\ <<m>> \in Seq(Message)
        /\ accepted = (delivered \o <<m>>) \o queue
    BY <1>2, <2>1, ConsFifo DEF ConsDeliver, ServerInv, TypeOK, Taken
  <2>3. /\ delivered \o <<m>> \in Seq(Message)
        /\ Len(delivered \o <<m>>) = Len(delivered) + 1
        /\ (delivered \o <<m>>)[Len(delivered) + 1] = m
        /\ Len(delivered) \in Nat /\ Len(queue) \in Nat
    BY <2>2, ConcatProperties, LenProperties
  <2>4. /\ Len(accepted) = Len(delivered) + 1 + Len(queue)
        /\ accepted[Len(delivered) + 1] = m
    BY <2>2, <2>3, ConcatProperties
  <2>5. delivered' = Append(delivered, m)
    BY <1>2, <2>1, <2>2, AppendIsConcat DEF ConsDeliver
  <2>6. /\ Phase \in {"open", "last"}
        /\ Phase' = IF m.body = Exit \/ Phase = "last" THEN "shut" ELSE "open"
    BY <1>1, <1>2, <2>1 DEF ConsDeliver, Phase
  <2>7. M!Deliver
    BY <1>1, <2>3, <2>4, <2>5, <2>6 DEF M!Deliver
  <2> QED
    BY <2>7 DEF M!Next
<1>3. CASE ~ConsDeliver
  <2>1. UNCHANGED delivered
    BY <1>3 DEF ConsRun, SpuriousWakeup, ConsLock, ConsOuter, ConsInner, ConsWait,
       ConsAfter, ConsPop, ConsUnlock
  <2>2. Phase' = Phase \/ (Phase = "last" /\ Phase' = "shut")
    BY <1>1, <1>3 DEF ConsRun, SpuriousWakeup, ConsLock, ConsOuter, ConsInner, ConsWait,
       ConsAfter, ConsPop, ConsUnlock, Phase
  <2> QED
    BY <1>1, <2>1, <2>2, QuietRefines
<1> QED
  BY <1>2, <1>3

LEMMA WorkRefines == ASSUME ServerInv, NEW c \in Conns, WorkStep(c) PROVE [M!Next]_(M!vars)
<1>1. UNCHANGED delivered
  BY WorkFrame
<1>2. CASE accepted' = accepted
  <2>1. \/ Phase' = Phase
        \/ Phase = "open" /\ Phase' \in {"last", "shut"}
    <3>1. /\ running' = running \/ running' = FALSE
          /\ cons' = cons \/ (cons = "waiting" /\ cons' = "relock")
      BY WorkFrame
    <3> QED
      BY <3>1 DEF Phase
  <2> QED
    BY <1>1, <1>2, <2>1, QuietRefines
<1>3. CASE accepted' # accepted
  <2>1. /\ accepted' = Append(accepted, [from |-> c, body |-> text[c]])
        /\ UNCHANGED <<running, cons>>
    BY <1>3 DEF WorkStep, Recv, Lock, Push, Signal, Unlock, StoreFlag, CloseListen,
       Broadcast, CloseConn, flags
  <2>2. [from |-> c, body |-> text[c]] \in Message /\ Phase' = Phase
    BY <2>1 DEF ServerInv, TypeOK, Message, Phase
  <2>3. M!Accept
    <3>1. \E m \in Message : accepted' = Append(accepted, m)
      BY <2>1, <2>2, Zenon
    <3> QED
      BY <1>1, <2>2, <3>1 DEF M!Accept
  <2> QED
    BY <2>3 DEF M!Next
<1> QED
  BY <1>2, <1>3

LEMMA NextRefines == ASSUME ServerInv, [Next]_vars PROVE [M!Next]_(M!vars)
<1>1. ASSUME NEW c \in Conns, ClientStep(c) PROVE [M!Next]_(M!vars)
  BY <1>1 DEF ClientStep, flags, consumer, history, Phase, M!vars
<1>2. CASE UNCHANGED vars
  BY <1>2 DEF vars, flags, consumer, history, Phase, M!vars
<1> QED
  BY <1>1, <1>2, MainRefines, ConsRefines, WorkRefines DEF Next, ConsStep, ConsFrame, Ended

\* Messages are delivered once each and in order, none after an exit message, and
\* at most one after the running flag is down.
THEOREM ImplementsMailbox == Spec => MailboxSpec
<1>1. Init => M!Init
  BY DEF Init, M!Init, Phase
<1> QED
  BY <1>1, NextRefines, ServerInvariant, PTL DEF Spec, MailboxSpec, M!Spec
=============================================================================
