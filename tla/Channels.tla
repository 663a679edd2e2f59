------------------------------ MODULE Channels -------------------------------
(***************************************************************************)
(* Interprocess communication: the messages of pipe/, the named pipe of    *)
(* fifo/ and the message queue of mq/.                                     *)
(***************************************************************************)
EXTENDS Naturals, Sequences, FiniteSets

(***************************************************************************)
(* Sequences.  SequencesExt has these and some two hundred others, all of  *)
(* which every obligation about an instance of this module would carry.    *)
(***************************************************************************)
ToSet(s) == {s[i] : i \in DOMAIN s}

FlattenSeq(seqs) ==
  IF Len(seqs) = 0 THEN seqs
  ELSE LET flatten[i \in 1..Len(seqs)] == IF i = 1 THEN seqs[i] ELSE flatten[i-1] \o seqs[i]
       IN flatten[Len(seqs)]

(***************************************************************************)
(* A child that sends numbers to its parent, with write_all and read_all   *)
(* of src/rwlib/rw.c, which mx_socket.c has again for sockets:             *)
(*   message  src/pipe_message.c: Count numbers, and 0 for the end;        *)
(*   single   src/pipe.c: one number.                                      *)
(* Either process may be killed.  A byte is the number of its message, its *)
(* place in it and the value sent, of which only whether it is 0 matters.  *)
(*                                                                         *)
(* The medium is any stream of bytes, whose write and read may be short; a *)
(* pipe takes and gives so few bytes at once, a socket need not.           *)
(***************************************************************************)
CONSTANTS
  Programs,  \* which of "message" and "single" are looked at
  Count,     \* 250
  Size,      \* bytes of an int
  Capacity   \* of the medium

PipeAssumption == Programs \subseteq {"message", "single"} /\ Count \in Nat /\ Size \in Nat \ {0}

VARIABLES
  program,
  child,     \* "write" (in write_all), "ended" or "killed"
  sending,   \* number of the message in write_all
  left,      \* bytes of it still to be written
  stream,    \* bytes in the medium
  parent,    \* "read" (in read_all), "wait", "ended" or "killed"
  got,       \* bytes in the parent's message
  printed,   \* messages the parent has printed
  unexpected \* pipe.c has met the end of the stream

pipevars == <<program, child, sending, left, stream, parent, got, printed, unexpected>>

LastOne == IF program = "message" THEN Count + 1 ELSE 1
Message(j) == [b \in 1..Size |-> <<j, b, program = "message" /\ j = LastOne>>]

PipeInit ==
  /\ program \in Programs
  /\ child = "write" /\ sending = 1 /\ left = Size
  /\ stream = <<>>
  /\ parent = "read" /\ got = <<>>
  /\ printed = <<>> /\ unexpected = FALSE

-----------------------------------------------------------------------------
\* write_all is done with a message, or has failed: the next, or the end.
Sent ==
  IF sending = LastOne
  THEN child' = "ended" /\ UNCHANGED <<sending, left>>
  ELSE sending' = sending + 1 /\ left' = Size /\ UNCHANGED child

\* write takes n bytes, from where the last one stopped.
FromStart(n) == SubSeq(Message(sending), 1, n)
Piece(n) == SubSeq(Message(sending), Size - left + 1, Size - left + n)

Write(n) ==
  /\ child = "write" /\ parent # "killed"
  /\ n <= left /\ Len(stream) + n <= Capacity
  /\ stream' = stream \o Piece(n)
  /\ IF n = left THEN Sent ELSE left' = left - n /\ UNCHANGED <<child, sending>>
  /\ UNCHANGED <<program, parent, got, printed, unexpected>>

\* Nobody can read any more, and SIGPIPE is ignored: the child says so and goes on.
WriteFails ==
  /\ child = "write" /\ parent \in {"wait", "killed"}
  /\ Sent
  /\ UNCHANGED <<program, stream, parent, got, printed, unexpected>>

-----------------------------------------------------------------------------
\* read gives n bytes; after Size of them read_all returns.
Full(buf) == Len(buf) = Size

Read(n) ==
  /\ parent = "read"
  /\ n <= Len(stream) /\ n <= Size - Len(got)
  /\ stream' = SubSeq(stream, n + 1, Len(stream))
  /\ LET all == got \o SubSeq(stream, 1, n)
     IN  IF Full(all)
         THEN /\ printed' = Append(printed, all) /\ got' = <<>>
              /\ parent' = IF program = "single" \/ all[1][3] THEN "wait" ELSE "read"
         ELSE got' = all /\ UNCHANGED <<printed, parent>>
  /\ UNCHANGED <<program, child, sending, left, unexpected>>

\* read gives 0, for the child has closed its end: read_all returns what it has.  pipe.c
\* says so; pipe_message.c, which has not seen the last message, tries again for ever.
EndOfStream ==
  /\ parent = "read" /\ stream = <<>> /\ child # "write"
  /\ got' = <<>>
  /\ IF program = "single" THEN parent' = "wait" /\ unexpected' = TRUE
     ELSE UNCHANGED <<parent, unexpected>>
  /\ UNCHANGED <<program, child, sending, left, stream, printed>>

\* waitpid.
Wait ==
  /\ parent = "wait" /\ child # "write"
  /\ parent' = "ended"
  /\ UNCHANGED <<program, child, sending, left, stream, got, printed, unexpected>>

-----------------------------------------------------------------------------
KillChild ==
  /\ child = "write" /\ child' = "killed"
  /\ UNCHANGED <<program, sending, left, stream, parent, got, printed, unexpected>>

KillParent ==
  /\ parent \in {"read", "wait"} /\ parent' = "killed"
  /\ UNCHANGED <<program, child, sending, left, stream, got, printed, unexpected>>

PipeNext ==
  \/ \E n \in 1..Size : Write(n) \/ Read(n)
  \/ WriteFails \/ EndOfStream \/ Wait \/ KillChild \/ KillParent

PipeSpec == PipeInit /\ [][PipeNext]_pipevars

-----------------------------------------------------------------------------
(***************************************************************************)
(* Properties.                                                             *)
(***************************************************************************)
\* What the parent prints are the messages the child has sent, whole, each once and in
\* order, however write and read cut them and whoever is killed; it leaves its loop only
\* behind the last of them.  pipe.c prints its message unless the child was killed before
\* it had written it.
Framed ==
  /\ \A j \in DOMAIN printed : printed[j] = Message(j)
  /\ parent \in {"wait", "ended"} =>
       IF unexpected THEN program = "single" /\ child = "killed" /\ printed = <<>>
       ELSE Len(printed) = LastOne
  /\ child = "ended" /\ parent \in {"read", "wait", "ended"} /\ ~unexpected =>
       Len(FlattenSeq(printed) \o got \o stream) = LastOne * Size

(***************************************************************************)
(* The server and the clients that share a FIFO: src/fifo_serv.c and       *)
(* src/fifo_cli.c.  A client opens the FIFO, writes one message, and       *)
(* closes it; the server prints what each read gives as one line.          *)
(*                                                                         *)
(* The FIFO is the kernel's: opening waits for the other side, reading for *)
(* data or for the last writer to close, and what it holds is gone when    *)
(* nobody has it open.  A message is written at once, for it is shorter    *)
(* than PIPE_BUF, and is two halves here, so that a read can cut it; it    *)
(* has no line end.  signal() lets a read or an open go on when it was     *)
(* interrupted.                                                            *)
(***************************************************************************)
CONSTANTS
  Clients,
  Exits,       \* those whose message is "exit"
  Most,        \* halves one read takes at most
  MaxSignals   \* bound on SIGINT and SIGTERM

FifoAssumption == Most \in Nat \ {0}

VARIABLES
  server,      \* "open", "waiting" (in open), "loop", "read", "zero" (read gave 0),
               \* "close", "unlink" or "ended"
  reading,     \* the server has the FIFO open, or waits in open
  active,
  client,      \* client[c]: "away", "open" (waiting), "write", "close", "done", "refused", "killed"
  data,        \* halves of messages in the FIFO
  linked,      \* the path is there
  lines,       \* printed: each the halves of messages a read has given
  signals,
  written, late, lost, failed
               \* for the properties: the clients that wrote, in order; those that did after
               \* a read had given 0; the halves given up; an open of the server failed

fifovars == <<server, reading, active, client, data, linked, lines, signals, written, late, lost, failed>>
ghosts == <<written, late, lost, failed>>

Writers == {c \in Clients : client[c] \in {"write", "close"}}
Halves(c) == <<<<c, 1>>, <<c, 2>>>>

FifoInit ==
  /\ server = "open" /\ reading = FALSE /\ active = TRUE
  /\ client = [c \in Clients |-> "away"]
  /\ data = <<>> /\ linked = TRUE
  /\ lines = <<>> /\ signals = 0
  /\ written = <<>> /\ late = {} /\ lost = {} /\ failed = FALSE

\* What is in the FIFO is gone unless somebody has it open.
Kept(held) ==
  IF held THEN UNCHANGED <<data, lost>>
  ELSE data' = <<>> /\ lost' = lost \cup ToSet(data)

-----------------------------------------------------------------------------
(***************************************************************************)
(* The server.                                                             *)
(***************************************************************************)
\* Writers that wait are let in; without any, the server waits.
Open ==
  /\ server = "open"
  /\ reading' = TRUE
  /\ client' = [c \in Clients |-> IF client[c] = "open" THEN "write" ELSE client[c]]
  /\ server' = IF \E c \in Clients : client[c] \in {"open", "write", "close"}
               THEN "loop" ELSE "waiting"
  /\ UNCHANGED <<active, data, linked, lines, signals, ghosts>>

OpenFails ==
  /\ server = "open"
  /\ server' = "unlink" /\ failed' = TRUE
  /\ UNCHANGED <<reading, active, client, data, linked, lines, signals, written, late, lost>>

Loop ==
  /\ server = "loop"
  /\ server' = IF active THEN "read" ELSE "close"
  /\ UNCHANGED <<reading, active, client, data, linked, lines, signals, ghosts>>

\* strcmp: the whole line.
BeginsWithExit(line) == Len(line) >= 2 /\ \E c \in Exits : SubSeq(line, 1, 2) = Halves(c)
IsExit(line) == \E c \in Exits : line = Halves(c)

\* All there is, if it fits: messages may be joined, and cut.
ReadData ==
  /\ server = "read" /\ data # <<>>
  /\ LET n == IF Len(data) < Most THEN Len(data) ELSE Most
         line == SubSeq(data, 1, n)
     IN  /\ lines' = Append(lines, line)
         /\ data' = SubSeq(data, n + 1, Len(data))
         /\ IF IsExit(line) THEN active' = FALSE /\ server' = "close"
            ELSE UNCHANGED <<active, server>>
  /\ UNCHANGED <<reading, client, linked, signals, ghosts>>

ReadZero ==
  /\ server = "read" /\ data = <<>> /\ Writers = {}
  /\ server' = "zero"
  /\ UNCHANGED <<reading, active, client, data, linked, lines, signals, ghosts>>

\* The close before the FIFO is opened again, and the last.
Close ==
  /\ server \in {"zero", "close"}
  /\ reading' = FALSE
  /\ server' = IF server = "zero" THEN "open" ELSE "unlink"
  /\ Kept(Writers # {})
  /\ UNCHANGED <<active, client, linked, lines, signals, written, late, failed>>

Unlink ==
  /\ server = "unlink"
  /\ server' = "ended" /\ linked' = FALSE
  /\ UNCHANGED <<reading, active, client, data, lines, signals, ghosts>>

Signal ==
  /\ server # "ended" /\ signals < MaxSignals
  /\ active' = FALSE /\ signals' = signals + 1
  /\ UNCHANGED <<server, reading, client, data, linked, lines, ghosts>>

-----------------------------------------------------------------------------
(***************************************************************************)
(* A client.                                                               *)
(***************************************************************************)
Become(c, state) == client' = [client EXCEPT ![c] = state]

\* It waits for the server to open the FIFO, or lets it in.
ClientOpen(c) ==
  /\ client[c] = "away"
  /\ Become(c, IF ~linked THEN "refused" ELSE IF reading THEN "write" ELSE "open")
  /\ server' = IF linked /\ server = "waiting" THEN "loop" ELSE server
  /\ UNCHANGED <<reading, active, data, linked, lines, signals, ghosts>>

\* SIGPIPE ends a client that writes when nobody reads.
ClientWrite(c) ==
  /\ client[c] = "write"
  /\ IF reading
     THEN /\ data' = data \o Halves(c)
          /\ Become(c, "close")
          /\ written' = Append(written, c)
          /\ late' = IF server = "zero" THEN late \cup {c} ELSE late
          /\ UNCHANGED lost
     ELSE /\ Become(c, "killed")
          /\ Kept(Writers # {c})
          /\ UNCHANGED <<written, late>>
  /\ UNCHANGED <<server, reading, active, linked, lines, signals, failed>>

\* A message of more than 255 bytes is not written.
TooLong(c) ==
  /\ client[c] = "write"
  /\ Become(c, "close")
  /\ UNCHANGED <<server, reading, active, data, linked, lines, signals, ghosts>>

ClientClose(c) ==
  /\ client[c] = "close"
  /\ Become(c, "done")
  /\ Kept(reading \/ Writers # {c})
  /\ UNCHANGED <<server, reading, active, linked, lines, signals, written, late, failed>>

FifoNext ==
  \/ Open \/ OpenFails \/ Loop \/ ReadData \/ ReadZero \/ Close \/ Unlink \/ Signal
  \/ \E c \in Clients : ClientOpen(c) \/ ClientWrite(c) \/ TooLong(c) \/ ClientClose(c)

FifoSpec == FifoInit /\ [][FifoNext]_fifovars

-----------------------------------------------------------------------------
(***************************************************************************)
(* Properties.                                                             *)
(***************************************************************************)
\* Every variable stays in its range.
TypeOK ==
  /\ server \in {"open", "waiting", "loop", "read", "zero", "close", "unlink", "ended"}
  /\ {reading, active, linked, failed} \subseteq BOOLEAN
  /\ data \in Seq(Clients \X {1, 2}) /\ lost \subseteq Clients \X {1, 2}

\* One half was written before another.
Precedes(h, g) ==
  \E m, n \in DOMAIN written :
    written[m] = h[1] /\ written[n] = g[1] /\ (m < n \/ (m = n /\ h[2] < g[2]))

\* The lines, and then the FIFO, hold the messages written, in order, each half once, but for
\* those given up; while the server has not been told to stop, only a message is given up that
\* was written between the 0 of a read and the close behind it.
Accounted ==
  LET out == FlattenSeq(lines) \o data
  IN  /\ ToSet(out) = (ToSet(written) \X {1, 2}) \ lost
      /\ \A i, j \in DOMAIN out : i < j => Precedes(out[i], out[j])
      /\ active => \A h \in lost : h[1] \in late

IsExitLine(line) == \E c \in Exits : line = Halves(c)

\* The server stops for nothing but a signal, an open that fails, or a line that is "exit"
\* and nothing else, which is its last.
StopsIfTold ==
  /\ ~active \/ server \in {"close", "unlink", "ended"} =>
       signals > 0 \/ failed \/ (lines # <<>> /\ IsExitLine(lines[Len(lines)]))
  /\ \A i \in 1..(Len(lines)-1) : ~IsExitLine(lines[i])

\* What the server and its clients achieve, in any interleaving of them.
FifoRight == TypeOK /\ Accounted /\ StopsIfTold

(***************************************************************************)
(* mq/mq-recv.c and mq/mq-send.c: a receiver that prints the messages of a *)
(* POSIX queue until SIGINT, and senders of one message each.  Both open   *)
(* the queue with O_CREAT, the receiver with attributes, the sender        *)
(* without (what it then passes is whatever its registers hold).           *)
(***************************************************************************)
CONSTANTS
  Senders,       \* each sends one message
  Priority,      \* [Senders -> Nat], its second argument
  MaxMsg         \* the queue's capacity: 10

MqAssumption == "receiver" \notin Senders /\ MaxMsg \in Nat

VARIABLES
  kind,          \* the queue: none, "attr" (the receiver's), "default" (messages of another size)
  mqueue,        \* the senders whose messages are in it, as the kernel orders them
  mpc,           \* each process
  quit,          \* quit_loop
  interrupted,   \* whether SIGINT has been sent, once
  sofar,         \* how many messages had been printed when the flag was set
  received       \* the messages printed

mqvars == <<kind, mqueue, mpc, quit, interrupted, sofar, received>>

MqInit ==
  /\ kind = "none" /\ mqueue = <<>>
  /\ mpc = [p \in Senders \cup {"receiver"} |-> "start"]
  /\ quit = FALSE /\ interrupted = FALSE /\ sofar = 0
  /\ received = <<>>

To(p, from, to) == mpc[p] = from /\ mpc' = [mpc EXCEPT ![p] = to]
Quiet == UNCHANGED <<quit, interrupted, sofar>>
QueueSame == UNCHANGED <<kind, mqueue>>

----------------------------------------------------------------------------
\* mq_open, sigaction and mq_getattr of the receiver; a queue a sender made may be closed to it.
Receive_Open ==
  /\ \/ /\ To("receiver", "start", "check")
        /\ kind' = IF kind = "none" THEN "attr" ELSE kind
     \/ To("receiver", "start", "failed") /\ UNCHANGED kind
     \/ To("receiver", "start", "failed") /\ kind' = IF kind = "none" THEN "attr" ELSE kind
  /\ UNCHANGED <<mqueue, received>> /\ Quiet

\* The flag is looked at between two messages only.
Check ==
  /\ To("receiver", "check", IF quit THEN "exited" ELSE "receive")
  /\ QueueSame /\ Quiet /\ UNCHANGED received

\* mq_receive waits for a message; a buffer smaller than the queue's messages is refused.
Receive ==
  \/ /\ kind = "attr" /\ mqueue # <<>>
     /\ To("receiver", "receive", "check")
     /\ received' = Append(received, Head(mqueue)) /\ mqueue' = Tail(mqueue)
     /\ UNCHANGED kind /\ Quiet
  \/ /\ kind = "default"
     /\ To("receiver", "receive", "failed")
     /\ QueueSame /\ Quiet /\ UNCHANGED received

\* SIGINT sets the flag and wakes a receiver that waits (EINTR); before sigaction it ends it.
Interrupt ==
  /\ ~interrupted /\ interrupted' = TRUE
  /\ \/ /\ mpc["receiver"] = "start"
        /\ mpc' = [mpc EXCEPT !["receiver"] = "killed"]
        /\ kind' \in {kind, IF kind = "none" THEN "attr" ELSE kind}
        /\ UNCHANGED <<quit, sofar>>
     \/ /\ mpc["receiver"] = "check"
        /\ quit' = TRUE /\ sofar' = Len(received) /\ UNCHANGED <<mpc, kind>>
     \/ /\ mpc["receiver"] = "receive"
        /\ quit' = TRUE /\ sofar' = Len(received) /\ UNCHANGED kind
        /\ \/ mpc' = [mpc EXCEPT !["receiver"] = "check"]
           \/ UNCHANGED mpc    \* it came between the look at the flag and the call
  /\ UNCHANGED <<mqueue, received>>

\* mq_open of a sender: it may make the queue, with default attributes, or be refused.
Send_Open(p) ==
  /\ \/ To(p, "start", "send") /\ kind' = IF kind = "none" THEN "default" ELSE kind
     \/ To(p, "start", "failed") /\ UNCHANGED kind
  /\ UNCHANGED <<mqueue, received>> /\ Quiet

\* A message goes behind those of its priority and of higher ones.
Placed(q, p) ==
  LET ahead == Cardinality({i \in DOMAIN q : Priority[q[i]] >= Priority[p]})
  IN SubSeq(q, 1, ahead) \o <<p>> \o SubSeq(q, ahead + 1, Len(q))

\* mq_send waits for room; a priority may be too high for it.
Send(p) ==
  /\ \/ To(p, "send", "sent") /\ Len(mqueue) < MaxMsg /\ mqueue' = Placed(mqueue, p)
     \/ To(p, "send", "failed") /\ UNCHANGED mqueue
  /\ UNCHANGED <<kind, received>> /\ Quiet

MqNext ==
  \/ Receive_Open \/ Check \/ Receive \/ Interrupt
  \/ \E p \in Senders : Send_Open(p) \/ Send(p)

\* The kernel runs every process; nobody has to send, or to interrupt.
MqSpec == MqInit /\ [][MqNext]_mqvars
MqFairSpec == MqSpec /\ WF_mqvars(Check \/ Receive)

----------------------------------------------------------------------------
MqTypeOK ==
  /\ kind \in {"none", "attr", "default"}
  /\ mqueue \in Seq(Senders) /\ Len(mqueue) <= MaxMsg
  /\ quit \in BOOLEAN /\ sofar \in Nat

\* A message sent is in the queue or was printed, once: also when the receiver was refused,
\* interrupted or ended, for the queue outlives it.
NoneLost ==
  LET all == mqueue \o received
  IN /\ ToSet(all) = {p \in Senders : mpc[p] = "sent"}
     /\ Len(all) = Cardinality(ToSet(all))

\* Once the flag is set the receiver prints one more message at most: the signal may have come
\* between its look at the flag and mq_receive.
QuitsSoon == quit => Len(received) <= sofar + 1

\* A receiver whose queue a sender made prints nothing.
WrongSize == kind = "default" => received = <<>>

\* The queue between senders and receivers: nothing lost, nothing twice, and quitting is prompt.
MqInv == MqTypeOK /\ NoneLost /\ QuitsSoon /\ WrongSize

\* A receiver that has seen the flag, or has the message it missed the flag for, ends.
MqEnds == (quit /\ Len(received) > sofar) ~> mpc["receiver"] = "exited"
=============================================================================
