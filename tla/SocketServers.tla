---------------------------- MODULE SocketServers ----------------------------
(***************************************************************************)
(* The servers that answer nobody: the Unix socket server with its clients *)
(* (uds_server/, uds_client/) and the server with a thread for each        *)
(* connection (socket_server/).                                            *)
(***************************************************************************)
EXTENDS Naturals, Sequences, FiniteSets

(***************************************************************************)
(* network/uds_server/server.c and network/uds_client/client.c: a server   *)
(* on a Unix socket that copies what one client after the other sends to   *)
(* its output until SIGINT, and is started again, and clients that connect,*)
(* send their text and leave.  A text goes in pieces, as write_all sends   *)
(* them.  Reads and writes of the server may fail; it says so on stderr.   *)
(***************************************************************************)
CONSTANTS
  Clients, Nobody,
  Pieces,        \* of each client's text
  Backlog,       \* connections the kernel keeps for accept: 5
  Runs           \* bound on how often the server is started

UdsAssumption == Nobody \notin Clients /\ Pieces \in Nat \ {0}

VARIABLES
  upc,           \* the server: listen, check, accept, serve, exited
  flag,          \* close_socket
  signalled,     \* SIGINT was sent in this run, or a signal that kills
  path, first,   \* whether the path exists, and did before the first run
  runs,
  backlog, current,  \* connections not yet accepted, and the one being served
  client,        \* each client: idle, open, sent, refused, killed
  written, unread,   \* the pieces each wrote, and those the server has not read
  copied,        \* the pieces the server copied, by client
  dropped,       \* clients whose connection the server closed before it had read it to its end
  complained     \* clients with whom a read or write failed, as the server's perror tells

udsvars == <<upc, flag, signalled, path, first, runs, backlog, current, client, written, unread,
             copied, dropped, complained>>

UdsInit ==
  /\ upc = "listen" /\ flag = FALSE /\ signalled = FALSE
  /\ first \in BOOLEAN /\ path = first /\ runs = 1
  /\ backlog = <<>> /\ current = Nobody
  /\ client = [c \in Clients |-> "idle"]
  /\ written = [c \in Clients |-> 0] /\ unread = [c \in Clients |-> 0]
  /\ copied = <<>> /\ dropped = {} /\ complained = {}

Server(from, to) ==
  upc = from /\ upc' = to /\ UNCHANGED <<first, runs, client, written>>
Connections == UNCHANGED <<backlog, current, unread, copied, dropped, complained>>
Listening == upc \in {"check", "accept", "serve"}
Waiting == {backlog[i] : i \in DOMAIN backlog}

----------------------------------------------------------------------------
\* mx_socket_unix_listen removes the path first, and gives up where there is none to remove.
\* What else fails in it may leave the path removed.
Listen ==
  /\ \/ path /\ Server("listen", "check") /\ UNCHANGED path
     \/ Server("listen", "exited") /\ path' \in {FALSE, path}
  /\ Connections /\ UNCHANGED <<flag, signalled>>

CheckFlag ==
  /\ IF flag
     THEN /\ Server("check", "exited")
          /\ dropped' = dropped \cup Waiting /\ backlog' = <<>>
          /\ UNCHANGED <<current, unread, copied, complained>>
     ELSE Server("check", "accept") /\ Connections
  /\ UNCHANGED <<path, flag, signalled>>

\* accept; an error of it brings the next look at the flag.
AcceptClient ==
  /\ \/ /\ backlog # <<>> /\ Server("accept", "serve")
        /\ current' = Head(backlog) /\ backlog' = Tail(backlog)
        /\ UNCHANGED <<unread, copied, dropped, complained>>
     \/ Server("accept", "check") /\ Connections
  /\ UNCHANGED <<path, flag, signalled>>

\* proc_cmd: some of what there is to read is read, and written out in one call; of a write
\* that fails or is short the rest is not tried again.
Copy ==
  /\ current # Nobody /\ unread[current] > 0
  /\ Server("serve", "serve")
  /\ \E n \in 1..unread[current] : \E m \in 0..n :
       /\ unread' = [unread EXCEPT ![current] = @ - n]
       /\ copied' = copied \o [i \in 1..m |-> current]
       /\ complained' = IF m = n THEN complained ELSE complained \cup {current}
  /\ UNCHANGED <<path, flag, signalled, backlog, current, dropped>>

\* The client's end is read; the connection is closed.
Served ==
  /\ current # Nobody /\ unread[current] = 0 /\ client[current] = "sent"
  /\ Server("serve", "check")
  /\ current' = Nobody
  /\ UNCHANGED <<path, flag, signalled, backlog, unread, copied, dropped, complained>>

\* A read that fails ends the client.
GiveUp ==
  /\ upc' = "check" /\ current' = Nobody
  /\ dropped' = dropped \cup {current} /\ complained' = complained \cup {current}
  /\ UNCHANGED <<backlog, unread, copied>>

ReadFails ==
  /\ current # Nobody /\ Server("serve", "check")
  /\ GiveUp
  /\ UNCHANGED <<path, flag, signalled>>

\* SIGINT sets the flag.  A server that waits in accept or read is woken; one that was about
\* to call either is not, and waits with the flag set.  In read the client is given up.
Signal ==
  /\ ~signalled /\ Listening /\ signalled' = TRUE /\ flag' = TRUE
  /\ \/ Connections /\ UNCHANGED upc
     \/ upc = "accept" /\ upc' = "check" /\ Connections
     \/ upc = "serve" /\ unread[current] = 0 /\ client[current] = "open" /\ GiveUp
  /\ UNCHANGED <<path, first, runs, client, written>>

\* A signal without a handler, as SIGPIPE of a write to a pipe that nobody reads: the process
\* ends, and with it every connection.
Killed ==
  /\ Listening /\ Server(upc, "exited")
  /\ signalled' = TRUE
  /\ dropped' = dropped \cup Waiting \cup ({current} \ {Nobody})
  /\ backlog' = <<>> /\ current' = Nobody
  /\ UNCHANGED <<flag, path, unread, copied, complained>>

\* The path stays when the server exits, so the next run finds one to remove.
Restart ==
  /\ runs < Runs /\ runs' = runs + 1
  /\ upc = "exited" /\ upc' = "listen" /\ flag' = FALSE /\ signalled' = FALSE
  /\ Connections /\ UNCHANGED <<path, first, client, written>>

----------------------------------------------------------------------------
Client(c, from, to) ==
  client[c] = from /\ client' = [client EXCEPT ![c] = to] /\ UNCHANGED <<upc, flag, signalled, path, first, runs, current, copied, dropped, complained>>

\* mx_socket_unix_connect.
Connect(c) ==
  /\ \/ Listening /\ path /\ Len(backlog) < Backlog /\ Client(c, "idle", "open") /\ backlog' = Append(backlog, c)
     \/ ~Listening /\ Client(c, "idle", "refused") /\ UNCHANGED backlog
  /\ UNCHANGED <<written, unread>>

\* write_all; a connection that the server closed kills the writer, which ignores no SIGPIPE.
Write(c) ==
  /\ IF c \in dropped
     THEN Client(c, "open", "killed") /\ UNCHANGED <<written, unread>>
     ELSE /\ Client(c, "open", IF written[c] + 1 = Pieces THEN "sent" ELSE "open")
          /\ written' = [written EXCEPT ![c] = @ + 1] /\ unread' = [unread EXCEPT ![c] = @ + 1]
  /\ UNCHANGED backlog

UdsNext ==
  \/ Listen \/ CheckFlag \/ AcceptClient \/ Copy \/ Served \/ ReadFails \/ Signal \/ Killed \/ Restart
  \/ \E c \in Clients : Connect(c) \/ Write(c)

UdsSpec == UdsInit /\ [][UdsNext]_udsvars
\* The processes run; nobody has to connect, to interrupt or to start the server again.
UdsFairSpec ==
  /\ UdsSpec
  /\ WF_udsvars(Listen \/ CheckFlag \/ Copy \/ Served)
  /\ WF_udsvars(AcceptClient /\ upc' = "serve")
  /\ \A c \in Clients : WF_udsvars(Write(c))

----------------------------------------------------------------------------
CopiedOf(c) == Cardinality({i \in DOMAIN copied : copied[i] = c})

\* No piece is copied twice or before it was written, and none is missing of a client with
\* whom no call failed: it is copied, or yet to be read.
Pieced ==
  \A c \in Clients :
    /\ CopiedOf(c) + unread[c] <= written[c]
    /\ c \notin complained => CopiedOf(c) + unread[c] = written[c]

\* The texts do not mix: between two pieces of a client there is none of another.
OneAtATime ==
  \A i, j, k \in DOMAIN copied : i < j /\ j < k /\ copied[i] = copied[k] => copied[j] = copied[i]

\* A text that was sent whole is copied whole, unless the server complained, or a signal left
\* the client in the backlog.
SentIsCopied ==
  \A c \in Clients :
    client[c] = "sent" /\ c # current /\ c \notin Waiting /\ c \notin dropped \cup complained =>
      CopiedOf(c) = Pieces

\* Clients are given up in silence for a signal only.
DroppedBySignal == dropped \ complained # {} => signalled \/ runs > 1

\* The very first server finds no path to remove, and neither it nor a later one ever starts.
NeverStarts == ~first => ~Listening /\ copied = <<>>

\* The Unix server copies whole what it is not told to drop and no failed call takes, which it
\* tells, and one client at a time.
UnixServerInv == Pieced /\ OneAtATime /\ SentIsCopied /\ DroppedBySignal /\ NeverStarts

\* A client that is connected gets to send its text, or is killed by a server that left.
ClientEnds == \A c \in Clients : (client[c] = "open") ~> (client[c] \in {"sent", "killed"})

(***************************************************************************)
(* network/socket_server/main.c: a thread for every connection, each with  *)
(* an MXSocket of its own on the heap, and network/dl/main.c, one of its   *)
(* clients.  The listener's return ends the process with all its threads.  *)
(* Clients send the zero byte at the end of a line with it, and what was   *)
(* read is printed to the first of them.                                   *)
(***************************************************************************)
CONSTANTS
  Peers,         \* connections that may come
  Lines,         \* pieces each sends: parts of its lines, and zero bytes
  Nuls,          \* the numbers of those that are zero bytes
  Cells, NoCell  \* heap cells for MXSockets

ThrAssumption == NoCell \notin Cells \cup Peers /\ Lines \in Nat /\ Nuls \subseteq 1..Lines

VARIABLES
  tpc,           \* the listener: listen, allocate, accept, spawn, returned
  listener,      \* whether the listening descriptor is open
  cell,          \* new_socket
  cells,         \* cells allocated
  carries,       \* the connection whose descriptor a cell holds, or none
  thread,        \* each connection: none, waiting (to be accepted), accepted, reading, done, reset
  unheard,       \* pieces sent and not read
  sentTo,        \* pieces sent
  heard          \* the numbers of the pieces printed, by connection

thrvars == <<tpc, listener, cell, cells, carries, thread, unheard, sentTo, heard>>

ThrInit ==
  /\ tpc = "listen" /\ listener = FALSE
  /\ cell = NoCell /\ cells = {} /\ carries = [c \in Cells |-> NoCell]
  /\ thread = [p \in Peers |-> "none"]
  /\ unheard = [p \in Peers |-> 0] /\ sentTo = [p \in Peers |-> 0]
  /\ heard = [p \in Peers |-> <<>>]

Main(from, to) == tpc = from /\ tpc' = to
Traffic == UNCHANGED <<unheard, sentTo, heard>>

\* The process ends: every thread and connection with it.
Return ==
  /\ tpc' = "returned" /\ listener' = FALSE
  /\ thread' = [p \in Peers |-> IF thread[p] \in {"waiting", "accepted", "reading"} THEN "reset" ELSE thread[p]]

----------------------------------------------------------------------------
\* mx_socket_listen.
Listens ==
  /\ tpc = "listen"
  /\ \/ tpc' = "allocate" /\ listener' = TRUE /\ UNCHANGED thread
     \/ Return
  /\ UNCHANGED <<cell, cells, carries>> /\ Traffic

\* malloc and mx_socket_init.
Allocate ==
  /\ tpc = "allocate"
  /\ \/ \E c \in Cells \ cells :
          /\ cell' = c /\ cells' = cells \cup {c} /\ tpc' = "accept"
          /\ carries' = [carries EXCEPT ![c] = NoCell]
          /\ UNCHANGED <<listener, thread>>
     \/ Return /\ UNCHANGED <<cell, cells, carries>>
  /\ Traffic

\* mx_socket_accept; without a connection the cell is freed and the next one taken.
Accepts ==
  /\ tpc = "accept"
  /\ \/ \E p \in Peers :
          /\ thread[p] = "waiting" /\ thread' = [thread EXCEPT ![p] = "accepted"]
          /\ carries' = [carries EXCEPT ![cell] = p]
          /\ tpc' = "spawn" /\ UNCHANGED <<cell, cells>>
     \/ /\ tpc' = "allocate" /\ cells' = cells \ {cell} /\ cell' = NoCell
        /\ UNCHANGED <<carries, thread>>
  /\ UNCHANGED listener /\ Traffic

\* pthread_create and pthread_detach: from here on the cell is the thread's.
Spawn ==
  /\ tpc = "spawn"
  /\ \/ /\ tpc' = "allocate" /\ thread' = [thread EXCEPT ![carries[cell]] = "reading"]
        /\ cell' = NoCell /\ UNCHANGED <<listener, cells, carries>>
     \/ /\ Return /\ cells' = cells \ {cell} /\ cell' = NoCell
        /\ UNCHANGED carries
  /\ Traffic

socket_listen == Listens \/ Allocate \/ Accepts \/ Spawn

\* process_input: n pieces are read, and printed with %s: the m before the first zero byte.
Got(p) == sentTo[p] - unheard[p]
Hear(p) ==
  /\ thread[p] = "reading" /\ unheard[p] > 0
  /\ \E n \in 1..unheard[p] : \E m \in 0..n :
       /\ \A k \in 1..m : Got(p) + k \notin Nuls
       /\ m < n => Got(p) + m + 1 \in Nuls
       /\ unheard' = [unheard EXCEPT ![p] = @ - n]
       /\ heard' = [heard EXCEPT ![p] = @ \o [i \in 1..m |-> Got(p) + i]]
  /\ UNCHANGED <<tpc, listener, cell, cells, carries, thread, sentTo>>

\* The peer has closed, or recv failed: the descriptor is closed and the cell freed.
HangUp(p) ==
  /\ thread[p] = "reading"
  /\ \E c \in cells : carries[c] = p /\ cells' = cells \ {c} /\ carries' = [carries EXCEPT ![c] = NoCell]
  /\ thread' = [thread EXCEPT ![p] = "done"]
  /\ UNCHANGED <<tpc, listener, cell>> /\ Traffic

\* A peer connects and sends.
PeerConnects(p) ==
  /\ listener /\ thread[p] = "none"
  /\ thread' = [thread EXCEPT ![p] = "waiting"]
  /\ UNCHANGED <<tpc, listener, cell, cells, carries>> /\ Traffic

PeerSends(p) ==
  /\ thread[p] \in {"waiting", "accepted", "reading"} /\ sentTo[p] < Lines
  /\ sentTo' = [sentTo EXCEPT ![p] = @ + 1] /\ unheard' = [unheard EXCEPT ![p] = @ + 1]
  /\ UNCHANGED <<tpc, listener, cell, cells, carries, thread, heard>>

ThrNext ==
  \/ socket_listen
  \/ \E p \in Peers : Hear(p) \/ HangUp(p) \/ PeerConnects(p) \/ PeerSends(p)

ThrSpec == ThrInit /\ [][ThrNext]_thrvars

----------------------------------------------------------------------------
Reading == {p \in Peers : thread[p] = "reading"}

\* While the server runs every cell is the listener's or that of one thread that reads, and
\* every such thread has one: nothing is freed twice or kept.
CellsOwned ==
  tpc # "returned" =>
    /\ Cardinality(cells) = Cardinality(Reading) + (IF cell = NoCell THEN 0 ELSE 1)
    /\ \A p \in Reading : Cardinality({c \in cells \ {cell} : carries[c] = p}) = 1

\* No two cells hold one descriptor, so closing one connection cuts off no other.
OwnDescriptor ==
  \A c, d \in cells : c # d /\ carries[c] # NoCell => carries[c] # carries[d]

\* What is printed of a connection was sent on it, in that order and no piece twice; and a
\* piece that was read and not printed lies behind a zero byte, or a piece not printed either:
\* only a line that follows another can lack its begin, and none of which something was
\* printed lacks what is behind it.
HeardInOrder ==
  \A p \in Peers :
    LET printed == {heard[p][i] : i \in DOMAIN heard[p]}
    IN  /\ \A i, j \in DOMAIN heard[p] : i < j => heard[p][i] < heard[p][j]
        /\ printed \subseteq (1..Got(p)) \ Nuls
        /\ \A k \in ((1..Got(p)) \ Nuls) \ printed : k > 1 /\ k - 1 \notin printed

\* When the listener returns no descriptor is left open, but what its threads were reading
\* is cut off.
ReturnsClean == tpc = "returned" => ~listener /\ Reading = {}

\* A connection belongs to one thread, from the accept to the close.
ThreadServerInv == CellsOwned /\ OwnDescriptor /\ HeardInOrder /\ ReturnsClean
=============================================================================
