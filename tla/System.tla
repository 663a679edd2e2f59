-------------------------------- MODULE System --------------------------------
(***************************************************************************)
(* The file server, and the other programs with sockets, signals, threads  *)
(* or channels, side by side: each behaviour is one of a program.          *)
(***************************************************************************)
EXTENDS FileServer, Sequences

CONSTANTS
  Parts,                                                  \* the programs
  Fds, None, MaxAddresses, Readers, Texts, FirstSize, MaxSize,              \* SocketLayer
  UdsClients, Pieces, Backlog, UdsRuns, Peers, Lines, Nuls, SockCells, NoCell,       \* SocketServers
  SysCommands, MaxKeys, Loops, Turns, EndlessTurns,                            \* Signals
  Creators, ShmReaders, ShmObjects, NoObject, LockPrograms, Iter,              \* SharedMemory
  Programs, Count, IntSize, Capacity, FifoClients, ExitClients, Most, MaxFifoSignals,
  Senders, Priority, MaxMsg                                                 \* Channels

VARIABLES
  part,
  sock, held, nonblock, addrs, spath, kpc, target, sfd, addresses, answer,
  reader, all, blocking, coming, rstream, open, temp, cap, rpc, given,
  upc, flag, signalled, path, first, runs, backlog, current, client, written, unread, copied, dropped,
  complained,
  tpc, listener, cell, cells, carries, thread, unheard, sentTo, heard,
  command, before, disp, blocked, pending, caught, ypc, status, child, cdisp, cblocked, ended, keys,
  loop, tty, ipc, turn, stdio, screen, outcome, killer,
  name, used, sized, stored, spc, opened, seen,
  lprog, phase, lock, ready, counter, at, reg, round, told,
  program, pchild, sending, left, stream, parent, got, printed, unexpected,
  server, reading, factive, fclient, data, linked, lines, fsignals, fwritten, flate, lost, failed,
  kind, mqueue, mpc, quit, interrupted, sofar, received

socket == <<sock, held, nonblock, addrs, spath, kpc, target, sfd, addresses, answer>>
linereader == <<reader, all, blocking, coming, rstream, open, temp, cap, rpc, given>>
unixserver == <<upc, flag, signalled, path, first, runs, backlog, current, client, written, unread,
                copied, dropped, complained>>
threads == <<tpc, listener, cell, cells, carries, thread, unheard, sentTo, heard>>
system == <<command, before, disp, blocked, pending, caught, ypc, status, child, cdisp, cblocked, ended,
            keys>>
interrupts == <<loop, tty, ipc, turn, stdio, screen, outcome, killer>>
shm == <<name, used, sized, stored, spc, opened, seen>>
counters == <<lprog, phase, lock, ready, counter, at, reg, round, told>>
pipe == <<program, pchild, sending, left, stream, parent, got, printed, unexpected>>
fifo == <<server, reading, factive, fclient, data, linked, lines, fsignals, fwritten, flate, lost, failed>>
mq == <<kind, mqueue, mpc, quit, interrupted, sofar, received>>

sockets == <<socket, linereader, unixserver, threads>>
processes == <<system, interrupts, shm, counters>>
channels == <<pipe, fifo, mq>>

Sck == INSTANCE SocketLayer WITH
  Size <- FirstSize, path <- spath, pc <- kpc, left <- addresses, stream <- rstream

Srv == INSTANCE SocketServers WITH Clients <- UdsClients, Runs <- UdsRuns, Nobody <- None, Cells <- SockCells

Sig == INSTANCE Signals WITH Commands <- SysCommands, MaxSignals <- MaxKeys, Most <- EndlessTurns

Shm == INSTANCE SharedMemory WITH Readers <- ShmReaders, Objects <- ShmObjects

Chn == INSTANCE Channels WITH
  Size <- IntSize, child <- pchild,
  Clients <- FifoClients, Exits <- ExitClients, MaxSignals <- MaxFifoSignals, active <- factive,
  client <- fclient, signals <- fsignals, written <- fwritten, late <- flate

ASSUME SystemAssumption ==
  /\ Sck!SocketAssumption /\ Sck!ReaderAssumption /\ Srv!UdsAssumption /\ Srv!ThrAssumption
  /\ Sig!InterruptAssumption
  /\ Shm!ShmAssumption /\ Shm!LockAssumption
  /\ Chn!PipeAssumption /\ Chn!FifoAssumption /\ Chn!MqAssumption

\* What a part may begin with is the same in the behaviours of all others.
AllInit ==
  /\ part \in Parts
  /\ Init
  /\ Sck!SocketInit /\ (part # "socket" => spath)
  /\ Sck!ReaderInit /\ (part # "readline" => reader = "strict" /\ all = <<>>)
  /\ Srv!UdsInit /\ (part # "unix" => first)
  /\ Srv!ThrInit
  /\ Sig!SysInit /\ (part # "system" => /\ command = "null" /\ before.disp = [k \in Sig!Keys |-> "default"]
                                        /\ ~before.blocked /\ ~before.reaps)
  /\ Sig!IntInit /\ (part # "interrupts" => loop = "signal" /\ tty)
  /\ Shm!ShmInit
  /\ Shm!LockInit /\ (part # "counters" => lprog = "proc")
  /\ Chn!PipeInit /\ (part # "pipe" => program = "single")
  /\ Chn!FifoInit /\ Chn!MqInit

Only(which, Step) == part = which /\ UNCHANGED part /\ Step

AllNext ==
  \/ Only("fileserver", Next) /\ UNCHANGED <<sockets, processes, channels>>
  \/ Only("socket", Sck!SocketNext) /\ UNCHANGED <<vars, linereader, unixserver, threads, processes, channels>>
  \/ Only("readline", Sck!ReaderNext) /\ UNCHANGED <<vars, socket, unixserver, threads, processes, channels>>
  \/ Only("unix", Srv!UdsNext) /\ UNCHANGED <<vars, socket, linereader, threads, processes, channels>>
  \/ Only("threads", Srv!ThrNext) /\ UNCHANGED <<vars, socket, linereader, unixserver, processes, channels>>
  \/ Only("system", Sig!SysNext) /\ UNCHANGED <<vars, sockets, interrupts, shm, counters, channels>>
  \/ Only("interrupts", Sig!IntNext) /\ UNCHANGED <<vars, sockets, system, shm, counters, channels>>
  \/ Only("shm", Shm!ShmNext) /\ UNCHANGED <<vars, sockets, system, interrupts, counters, channels>>
  \/ Only("counters", Shm!LockNext) /\ UNCHANGED <<vars, sockets, system, interrupts, shm, channels>>
  \/ Only("pipe", Chn!PipeNext) /\ UNCHANGED <<vars, sockets, processes, fifo, mq>>
  \/ Only("fifo", Chn!FifoNext) /\ UNCHANGED <<vars, sockets, processes, pipe, mq>>
  \/ Only("mq", Chn!MqNext) /\ UNCHANGED <<vars, sockets, processes, pipe, fifo>>

allvars == <<part, vars, sockets, processes, channels>>

\* The fairness of each part.
AllFairness ==
  /\ WF_vars(part = "fileserver" /\ MainStep)
  /\ WF_unixserver(part = "unix" /\ (Srv!Listen \/ Srv!CheckFlag \/ Srv!Copy \/ Srv!Served))
  /\ WF_unixserver(part = "unix" /\ Srv!AcceptClient /\ upc' = "serve")
  /\ \A c \in UdsClients : WF_unixserver(part = "unix" /\ Srv!Write(c))
  /\ WF_system(part = "system" /\ (Sig!system_cmd \/ Sig!fork_main))
  /\ WF_system(part = "system" /\ Sig!child_process)
  /\ WF_interrupts(part = "interrupts" /\ outcome = "running" /\ Sig!main)
  /\ WF_counters(part = "counters" /\ Shm!LockNext)
  /\ WF_mq(part = "mq" /\ (Chn!Check \/ Chn!Receive))

AllSpec == AllInit /\ [][AllNext]_allvars /\ AllFairness

-----------------------------------------------------------------------------
\* Sockets: descriptors are owned and have the mode mx_socket.c believes, the Unix server copies
\* whole and one after the other what it does not say it drops, and every thread of
\* socket_server has a connection and a cell of its own.
SocketsSound == Sck!SocketInv /\ Srv!UnixServerInv /\ Srv!ThreadServerInv

\* Processes: system_cmd puts back what it changed and tells how its command ended, an
\* interrupted loop has printed what it should, shm_proc prints what a creator stored, and the
\* semaphores keep the counters exact.
ProcessesSound == Sig!SystemInv /\ Sig!InterruptInv /\ Shm!ShmInv /\ Shm!CountersInv

\* Channels: the lines of a connection or a file and what comes out of a pipe, a FIFO or a
\* message queue are what went in, whole and in its order, unless the reader says it drops
\* some, or a signal, a kill or a close in between has taken it.
ChannelsSound == Sck!ReaderInv /\ Chn!Framed /\ Chn!FifoRight /\ Chn!MqInv

\* What waits comes to an end: a client of the Unix server, a receiver that was told to quit,
\* system_cmd, the loops that a signal may end, and the programs with semaphores.
AllEnd ==
  /\ Srv!ClientEnds /\ Chn!MqEnds
  /\ part = "system" => Sig!SystemReturns
  /\ part = "interrupts" => Sig!LoopEnds
  /\ part = "counters" => Shm!CountersEnd
=============================================================================
