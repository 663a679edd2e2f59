----------------------------- MODULE SocketLayer -----------------------------
(***************************************************************************)
(* network/mx_socket.c, and the line readers of the programs with sockets. *)
(***************************************************************************)
EXTENDS FiniteSets, Integers, Sequences

(***************************************************************************)
(* Sequences.  SequencesExt has these and some two hundred others, all of  *)
(* which every obligation about an instance of this module would carry.    *)
(***************************************************************************)
ToSet(s) == {s[i] : i \in DOMAIN s}

Front(s) == SubSeq(s, 1, Len(s)-1)

Min(S) == CHOOSE x \in S : \A y \in S : x =< y

SelectInSeq(s, Test(_)) ==
  LET I == {i \in 1..Len(s) : Test(s[i])} IN IF I # {} THEN Min(I) ELSE 0

FlattenSeq(seqs) ==
  IF Len(seqs) = 0 THEN seqs
  ELSE LET flatten[i \in 1..Len(seqs)] == IF i = 1 THEN seqs[i] ELSE flatten[i-1] \o seqs[i]
       IN flatten[Len(seqs)]

(***************************************************************************)
(* The sockets of network/mx_socket.c: how a descriptor is acquired, given *)
(* to an MXSocket, switched between blocking and non-blocking, and closed. *)
(* Every system call may fail; a connection's data is left out.            *)
(***************************************************************************)
CONSTANTS
  Fds, None,     \* descriptors, and -1
  MaxAddresses   \* bound on the addresses getaddrinfo returns

SocketAssumption == None \notin Fds

Sockets == {"listener", "connection"}

VARIABLES
  sock,          \* each MXSocket: descriptor and blocking
  held,          \* open descriptors
  nonblock,      \* those with O_NONBLOCK
  addrs,         \* whether the address list is allocated
  path,          \* whether the Unix socket's path exists
  pc, target, sfd, left, answer   \* the call being made, its locals, what the last one returned

socketvars == <<sock, held, nonblock, addrs, path, pc, target, sfd, left, answer>>

Blank == [fd |-> None, blocking |-> TRUE]
Valid(s) == sock[s].fd # None

SocketInit ==
  /\ sock = [s \in Sockets |-> Blank]
  /\ held = {} /\ nonblock = {} /\ addrs = FALSE /\ path \in BOOLEAN
  /\ pc = "idle" /\ target = "connection" /\ sfd = None /\ left = 0 /\ answer = TRUE

Fresh == Fds \ held
Closing(fds) == held' = held \ fds /\ nonblock' = nonblock \ fds
Opening(fd) == held' = held \cup {fd} /\ UNCHANGED nonblock
Same == UNCHANGED <<held, nonblock>>

\* The call returns.
Return(ok) ==
  /\ pc' = "idle" /\ sfd' = None /\ left' = 0 /\ addrs' = FALSE /\ answer' = ok
  /\ UNCHANGED target
Fail == Return(FALSE) /\ UNCHANGED sock
Go(where) == pc' = where /\ UNCHANGED <<sock, target, left, addrs, answer>>

----------------------------------------------------------------------------
\* mx_socket_listen and mx_socket_connect: the socket is initialised, then the name resolved.
Begin(s) ==
  /\ pc = "idle" /\ ~Valid(s)
  /\ target' = s /\ sock' = [sock EXCEPT ![s] = Blank] /\ sfd' = None
  /\ \/ pc' = "idle" /\ left' = 0 /\ answer' = FALSE /\ UNCHANGED addrs
     \/ pc' = "address" /\ left' \in 1..MaxAddresses /\ addrs' = TRUE /\ UNCHANGED answer
  /\ UNCHANGED path /\ Same

\* The next address: a socket for it, or none.
Address ==
  /\ pc = "address" /\ left > 0
  /\ \/ /\ left' = left - 1 /\ sfd' = None /\ UNCHANGED <<pc, sock, target, addrs, answer>> /\ Same
     \/ /\ \E fd \in Fresh : sfd' = fd /\ Opening(fd)
        /\ Go(IF target = "listener" THEN "option" ELSE "attempt")
  /\ UNCHANGED path

NoAddress ==
  /\ pc = "address" /\ left = 0
  /\ Fail /\ UNCHANGED path /\ Same

\* SO_REUSEADDR; without it the call gives up.
Option ==
  /\ pc = "option"
  /\ \/ Go("attempt") /\ UNCHANGED sfd /\ Same
     \/ Fail /\ Closing({sfd})
  /\ UNCHANGED path

\* bind or connect; when it fails the next address is tried.
Attempt ==
  /\ pc = "attempt"
  /\ \/ Go(IF target = "listener" THEN "listen" ELSE "finish") /\ UNCHANGED sfd /\ Same
     \/ /\ Closing({sfd}) /\ sfd' = None /\ left' = left - 1 /\ pc' = "address"
        /\ UNCHANGED <<sock, target, addrs, answer>>
  /\ UNCHANGED path

Listen ==
  /\ pc = "listen"
  /\ \/ Go("finish") /\ UNCHANGED sfd /\ Same
     \/ Fail /\ Closing({sfd})
  /\ UNCHANGED path

Finish ==
  /\ pc = "finish"
  /\ sock' = [sock EXCEPT ![target].fd = sfd]
  /\ Return(TRUE) /\ UNCHANGED path /\ Same

----------------------------------------------------------------------------
\* mx_socket_unix_listen and mx_socket_unix_connect.
UnixBegin(s) ==
  /\ pc = "idle" /\ ~Valid(s)
  /\ sock' = [sock EXCEPT ![s] = Blank] /\ target' = s
  /\ \/ answer' = FALSE /\ UNCHANGED <<pc, sfd>> /\ Same
     \/ /\ \E fd \in Fresh : sfd' = fd /\ Opening(fd)
        /\ pc' = IF s = "listener" THEN "remove" ELSE "unixconnect"
        /\ UNCHANGED answer
  /\ UNCHANGED <<addrs, path, left>>

\* The path is removed so that bind can make it.  That it did not exist ends the call; any
\* other failure of remove does not, and bind finds the path taken.
RemovePath ==
  /\ pc = "remove"
  /\ IF ~path THEN Fail /\ Closing({sfd}) /\ UNCHANGED path
     ELSE path' \in BOOLEAN /\ Go("unixbind") /\ UNCHANGED sfd /\ Same

UnixBind ==
  /\ pc = "unixbind"
  /\ \/ ~path /\ path' = TRUE /\ Go("listen") /\ UNCHANGED sfd /\ Same
     \/ Fail /\ Closing({sfd}) /\ UNCHANGED path

UnixConnect ==
  /\ pc = "unixconnect"
  /\ \/ path /\ Go("finish") /\ UNCHANGED sfd /\ Same
     \/ Fail /\ Closing({sfd})
  /\ UNCHANGED path

----------------------------------------------------------------------------
Done(ok) == answer' = ok /\ UNCHANGED <<addrs, path, pc, target, sfd, left>>

\* A connection is taken, or fcntl fails on it; what the output held before is closed.
KeepsMode(s, fds) == nonblock
Mode(s, fds) == IF sock[s].blocking THEN nonblock \ fds ELSE nonblock \cup fds
Accept ==
  /\ pc = "idle" /\ Valid("listener")
  /\ \/ Done(FALSE) /\ UNCHANGED sock /\ Same
     \/ \E fd \in Fresh :
          LET old == IF Valid("connection") THEN {sock["connection"].fd} ELSE {}
          IN /\ held' = (held \cup {fd}) \ old
             /\ nonblock' = Mode("listener", {fd}) \ old
             /\ sock' = [sock EXCEPT !["connection"] = [fd |-> fd, blocking |-> sock["listener"].blocking]]
             /\ Done(TRUE)

SetBlocking(s, state) ==
  /\ pc = "idle"
  /\ \/ /\ Valid(s)
        /\ sock' = [sock EXCEPT ![s].blocking = state]
        /\ nonblock' = IF state THEN nonblock \ {sock[s].fd} ELSE nonblock \cup {sock[s].fd}
        /\ Done(TRUE) /\ UNCHANGED held
     \/ Done(FALSE) /\ UNCHANGED sock /\ Same

Close(s) ==
  /\ pc = "idle"
  /\ Closing({sock[s].fd} \ {None})
  /\ sock' = [sock EXCEPT ![s].fd = None]
  /\ UNCHANGED <<addrs, path, pc, target, sfd, left, answer>>

\* Another process removes the path.
PathGone == path /\ path' = FALSE /\ pc = "idle" /\ UNCHANGED <<sock, addrs, pc, target, sfd, left, answer>> /\ Same

SocketNext ==
  \/ \E s \in Sockets : Begin(s) \/ UnixBegin(s) \/ Close(s) \/ \E state \in BOOLEAN : SetBlocking(s, state)
  \/ Address \/ NoAddress \/ Option \/ Attempt \/ Listen \/ Finish
  \/ RemovePath \/ UnixBind \/ UnixConnect \/ Accept \/ PathGone

SocketSpec == SocketInit /\ [][SocketNext]_socketvars

----------------------------------------------------------------------------
\* A descriptor that is open belongs to one socket, or to the call being made; none is
\* left open on the way out of a call that fails, and no address list is.
Owned ==
  /\ held = ({sock[s].fd : s \in Sockets} \cup {sfd}) \ {None}
  /\ Valid("listener") => sock["listener"].fd # sock["connection"].fd
  /\ addrs => pc # "idle"

\* What a socket is believed to do, which the line reader acts on, is what it does.
ModeAgrees == \A s \in Sockets : Valid(s) => (sock[s].blocking <=> sock[s].fd \notin nonblock)

\* No descriptor is leaked, closed twice or shared, and each is in the mode its MXSocket says.
SocketInv == Owned /\ ModeAgrees

(***************************************************************************)
(* The line readers: mx_socket_readline of network/mx_socket.c, which      *)
(* takes a byte at a time from a connection, and the two f_getline built   *)
(* on fgets, the strict one of getline/ and the one of socket_connect and  *)
(* other mains that drops what does not fit.  Bytes are "x", "nul" and     *)
(* "nl".                                                                   *)
(***************************************************************************)
CONSTANTS
  Readers,   \* a subset of {"socket", "strict", "dropping"}
  Texts,     \* what a stream may hold
  Size,      \* size of the caller's buffer, or the first one of readline
  MaxSize    \* bound on what readline's buffer grows to

ReaderAssumption == Texts \subseteq Seq({"x", "nul", "nl"}) /\ Size \in Nat /\ Size >= 2

VARIABLES
  reader, all,
  blocking,   \* the MXSocket's mode
  coming,     \* bytes the peer has yet to send
  stream,     \* bytes to be read
  open,       \* the peer has not closed
  temp, cap,  \* readline's buffer and its size
  rpc,         \* "idle", "reading", or "failed"
  given       \* what calls have returned: the text, and whether a newline ended it

readervars == <<reader, all, blocking, coming, stream, open, temp, cap, rpc, given>>

ReaderInit ==
  /\ reader \in Readers /\ all \in Texts /\ blocking \in (IF reader = "socket" THEN BOOLEAN ELSE {TRUE})
  /\ IF reader = "socket" THEN coming = all /\ stream = <<>> ELSE coming = <<>> /\ stream = all
  /\ open = (reader = "socket")
  /\ temp = <<>> /\ cap = Size /\ rpc = "idle" /\ given = <<>>

----------------------------------------------------------------------------
\* mx_socket_readline.
Send(n) ==
  /\ open /\ n \in 1..Len(coming)
  /\ stream' = stream \o SubSeq(coming, 1, n) /\ coming' = SubSeq(coming, n + 1, Len(coming))
  /\ UNCHANGED <<reader, all, blocking, open, temp, cap, rpc, given>>

PeerCloses ==
  /\ open /\ open' = FALSE /\ coming' = <<>>
  /\ UNCHANGED <<reader, all, blocking, stream, temp, cap, rpc, given>>

Start ==
  /\ reader = "socket" /\ rpc = "idle" /\ (stream # <<>> \/ open)
  /\ rpc' = "reading" /\ temp' = <<>> /\ cap' = Size
  /\ UNCHANGED <<reader, all, blocking, coming, stream, open, given>>

ReaderReturns(ended) ==
  /\ rpc' = "idle" /\ given' = Append(given, [text |-> temp, ended |-> ended])
  /\ UNCHANGED <<temp, cap>>
Abort == rpc' = "failed" /\ UNCHANGED <<given, temp, cap>>

\* A byte: the newline ends the line, any other is kept, in a buffer twice the size if it
\* is full.
GetByte ==
  /\ rpc = "reading" /\ stream # <<>>
  /\ stream' = Tail(stream)
  /\ IF Head(stream) = "nl" THEN ReaderReturns(TRUE)
     ELSE IF Len(temp) < cap
     THEN temp' = Append(temp, Head(stream)) /\ UNCHANGED <<rpc, given, cap>>
     ELSE \/ /\ 2 * cap <= MaxSize /\ cap' = 2 * cap /\ temp' = Append(temp, Head(stream))
             /\ UNCHANGED <<rpc, given>>
          \/ Abort
  /\ UNCHANGED <<reader, all, blocking, coming, open>>

\* recv gives 0: what there is of a line is returned.
EndOfStream ==
  /\ rpc = "reading" /\ stream = <<>> /\ ~open
  /\ IF temp = <<>> THEN Abort ELSE ReaderReturns(FALSE)
  /\ UNCHANGED <<reader, all, blocking, coming, stream, open>>

\* Nothing to read: a non-blocking socket returns what it has, which may be nothing.
WouldBlock ==
  /\ rpc = "reading" /\ stream = <<>> /\ open /\ ~blocking
  /\ Len(given) < Len(all) + 2 /\ ReaderReturns(FALSE)
  /\ UNCHANGED <<reader, all, blocking, coming, stream, open>>

ReadFails ==
  /\ rpc = "reading" /\ Abort
  /\ UNCHANGED <<reader, all, blocking, coming, stream, open>>

----------------------------------------------------------------------------
\* fgets takes up to Size - 1 bytes, the newline included; a string ends at its first nul.
LineEnd(s) == SelectInSeq(s, LAMBDA b : b = "nl")
Upto(s, n) == SubSeq(s, 1, IF n = 0 \/ n > Len(s) THEN Len(s) ELSE n)
Taken == Upto(Upto(stream, LineEnd(stream)), Size - 1)
Text(bytes) ==
  LET nul == SelectInSeq(bytes, LAMBDA b : b = "nul")
  IN IF nul = 0 THEN bytes ELSE SubSeq(bytes, 1, nul - 1)
\* strchr finds the newline only in front of a nul.
Newline == LineEnd(Text(Taken)) # 0
Rest(n) == SubSeq(stream, n + 1, Len(stream))
Give(text, ended) == given' = Append(given, [text |-> text, ended |-> ended])
Fixed == UNCHANGED <<reader, all, blocking, coming, open, temp, cap>>

\* The strict reader says nothing of a line it could not take whole, and leaves its rest.
GetStrict ==
  /\ reader = "strict" /\ rpc = "idle"
  /\ stream' = Rest(Len(Taken))
  /\ IF Newline THEN Give(Front(Text(Taken)), TRUE) /\ UNCHANGED rpc
     ELSE rpc' = "failed" /\ UNCHANGED given
  /\ Fixed

\* The other reads on to a newline when it saw none.
GetDropping ==
  /\ reader = "dropping" /\ rpc = "idle"
  /\ IF stream = <<>> THEN rpc' = "failed" /\ UNCHANGED <<given, stream>>
     ELSE IF Newline
     THEN Give(Front(Text(Taken)), TRUE) /\ stream' = Rest(Len(Taken)) /\ UNCHANGED rpc
     ELSE LET behind == Rest(Len(Taken))
          IN /\ Give(Text(Taken), FALSE) /\ UNCHANGED rpc
             /\ stream' = IF LineEnd(behind) = 0 THEN <<>>
                          ELSE SubSeq(behind, LineEnd(behind) + 1, Len(behind))
  /\ Fixed

ReaderNext ==
  \/ \E n \in 1..Len(coming) : Send(n)
  \/ PeerCloses \/ Start \/ GetByte \/ EndOfStream \/ WouldBlock \/ ReadFails
  \/ GetStrict \/ GetDropping

ReaderSpec == ReaderInit /\ [][ReaderNext]_readervars

----------------------------------------------------------------------------
\* The bytes of the lines given, each newline in its place.
Joined == FlattenSeq([j \in DOMAIN given |-> given[j].text \o IF given[j].ended THEN <<"nl">> ELSE <<>>])

\* The lines of a text, the last one perhaps without its newline.
LinesOf(s) ==
  LET from[k \in 1..Len(s) + 1] ==
        LET n == LineEnd(SubSeq(s, k, Len(s)))
        IN IF k > Len(s) THEN <<>>
           ELSE IF n = 0 THEN <<SubSeq(s, k, Len(s))>>
           ELSE <<SubSeq(s, k, k + n - 2)>> \o from[k + n]
  IN from[1]

\* No byte of a connection is lost, invented or reordered by readline while it does not
\* fail, whatever pieces they arrive in and however the buffer grows; only a non-blocking
\* socket, or one the peer closed, gives a line its newline did not end.
SocketLines ==
  reader = "socket" /\ rpc # "failed" =>
  /\ Joined \o (IF rpc = "reading" THEN temp ELSE <<>>) \o stream \o coming =
       IF open THEN all ELSE SubSeq(all, 1, Len(Joined) + Len(IF rpc = "reading" THEN temp ELSE <<>>) + Len(stream))
  /\ \A j \in DOMAIN given : ~given[j].ended => ~blocking \/ (~open /\ j = Len(given))
  /\ Len(temp) <= cap

\* Where no nul is met, the dropping reader gives the beginning of every line in order,
\* and the strict one whole lines up to the first it cannot take.
FileLines ==
  "nul" \notin ToSet(all) =>
  /\ reader = "dropping" =>
       \A j \in DOMAIN given :
         given[j].text = (IF Len(LinesOf(all)[j]) < Size THEN LinesOf(all)[j]
                          ELSE SubSeq(LinesOf(all)[j], 1, Size - 1))
  /\ reader = "dropping" /\ rpc = "failed" => Len(given) = Len(LinesOf(all))
  /\ reader = "strict" =>
       \A j \in DOMAIN given : given[j].text = LinesOf(all)[j] /\ Len(given[j].text) < Size - 1

\* What the line readers of sockets and of files return are the lines of what came.
ReaderInv == SocketLines /\ FileLines
=============================================================================
