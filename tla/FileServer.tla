----------------------------- MODULE FileServer ------------------------------
(***************************************************************************)
(* The server of src/network/fileserve: the accept loop of listen_server,  *)
(* one detached thread per connection running process_input, and SIGINT,   *)
(* whose handler clears active_loop and which the kernel may deliver to    *)
(* any thread.  Without SA_RESTART it makes a blocked accept or recv fail  *)
(* with EINTR.  What a session sends is left out: FileTransfer has it.     *)
(***************************************************************************)
EXTENDS Naturals, FiniteSets

CONSTANTS
  Conns,       \* connections clients may make
  MaxSignals   \* bound on the SIGINTs delivered

ASSUME ServerAssumption == IsFiniteSet(Conns) /\ MaxSignals \in Nat

VARIABLES
  main,      \* "start", "check" (of active_loop), "accept", "spawn" or "gone"
  active,    \* active_loop
  conn,      \* conn[c]: see ConnStates; from "start" on, what its session does
  late,      \* connections accepted after active_loop was cleared
  signals    \* SIGINTs so far

vars == <<main, active, conn, late, signals>>

ConnStates ==
  {"away", "queued", "held", "start", "recv", "busy", "closed", "killed"}
Live == {"start", "recv", "busy"}

Init ==
  /\ main = "start"
  /\ active = FALSE
  /\ conn = [c \in Conns |-> "away"]
  /\ late = {}
  /\ signals = 0

Become(c, s) == conn' = [conn EXCEPT ![c] = s]

\* A client connects; the kernel completes the handshake.
Connect(c) ==
  /\ conn[c] = "away" /\ main \notin {"start", "gone"}
  /\ Become(c, "queued")
  /\ UNCHANGED <<main, active, late, signals>>

-----------------------------------------------------------------------------
(***************************************************************************)
(* The main thread.                                                        *)
(***************************************************************************)
\* mx_socket_listen has succeeded.
Start ==
  /\ main = "start"
  /\ main' = "check" /\ active' = TRUE
  /\ UNCHANGED <<conn, late, signals>>

ExitMainOnly == main' = "gone" /\ UNCHANGED conn

\* main returns: the process ends, and with it every session.
Exit ==
  /\ main' = "gone"
  /\ conn' = [c \in Conns |->
                IF conn[c] \in Live THEN "killed"
                ELSE IF conn[c] \in {"queued", "held"} THEN "closed" ELSE conn[c]]

ListenFails ==
  /\ main = "start"
  /\ Exit
  /\ UNCHANGED <<active, late, signals>>

CheckLoopStores ==
  /\ main = "check"
  /\ main' = "accept" /\ active' = TRUE
  /\ UNCHANGED <<conn, late, signals>>

CheckLoopAlways ==
  /\ main = "check"
  /\ main' = "accept"
  /\ UNCHANGED <<active, conn, late, signals>>

CheckLoop ==
  /\ main = "check" /\ active
  /\ main' = "accept"
  /\ UNCHANGED <<active, conn, late, signals>>

LeaveLoop ==
  /\ main = "check" /\ ~active
  /\ Exit
  /\ UNCHANGED <<active, late, signals>>

NoMemory ==
  /\ main = "check" /\ active
  /\ Exit
  /\ UNCHANGED <<active, late, signals>>

Accept(c) ==
  /\ main = "accept" /\ conn[c] = "queued"
  /\ main' = "spawn"
  /\ Become(c, "held")
  /\ late' = IF active THEN late ELSE late \cup {c}
  /\ UNCHANGED <<active, signals>>

\* accept or fcntl fails; fcntl after the connection was taken from the queue.
AcceptFails ==
  /\ main = "accept" /\ \E c \in Conns : conn[c] = "queued"
  /\ main' = "check"
  /\ \/ UNCHANGED conn
     \/ \E c \in Conns : conn[c] = "queued" /\ Become(c, "closed")
  /\ UNCHANGED <<active, late, signals>>

Spawn(c) ==
  /\ main = "spawn" /\ conn[c] = "held"
  /\ main' = "check"
  /\ Become(c, "start")
  /\ UNCHANGED <<active, late, signals>>

SpawnFails ==
  /\ main = "spawn"
  /\ active' = FALSE
  /\ Exit
  /\ UNCHANGED <<late, signals>>

-----------------------------------------------------------------------------
(***************************************************************************)
(* A session.                                                              *)
(***************************************************************************)
\* active_loop is read once, before the first recv: the inner loop ends only when recv
\* fails, and then the outer one is left as well.
StartUnchecked(c) == "recv"
FirstCheck(c) == IF active THEN "recv" ELSE "closed"

SessionStarts(c) ==
  /\ conn[c] = "start"
  /\ Become(c, FirstCheck(c))
  /\ UNCHANGED <<main, active, late, signals>>

SessionRuns(c) ==
  /\ \/ conn[c] = "recv" /\ Become(c, "busy")
     \/ conn[c] = "busy" /\ Become(c, "recv")
  /\ UNCHANGED <<main, active, late, signals>>

\* exit: was read, or the client hung up.
SessionEnds(c) ==
  /\ conn[c] = "recv"
  /\ Become(c, "closed")
  /\ UNCHANGED <<main, active, late, signals>>

-----------------------------------------------------------------------------
(***************************************************************************)
(* SIGINT, taken by the main thread or by session c.  If the thread is not *)
(* yet, or no longer, blocked in the call, the call does not fail.         *)
(***************************************************************************)
Handler ==
  /\ signals < MaxSignals
  /\ signals' = signals + 1
  /\ active' = FALSE

SignalMain ==
  /\ main # "gone"
  /\ Handler
  /\ \/ UNCHANGED main
     \/ main = "accept" /\ main' = "check"
  /\ UNCHANGED <<conn, late>>

SignalSession(c) ==
  /\ conn[c] \in Live
  /\ Handler
  /\ \/ UNCHANGED conn
     \/ conn[c] = "recv" /\ Become(c, "closed")
  /\ UNCHANGED <<main, late>>

-----------------------------------------------------------------------------
MainStep ==
  \/ Start \/ ListenFails \/ CheckLoop \/ LeaveLoop \/ NoMemory
  \/ AcceptFails \/ SpawnFails
  \/ \E c \in Conns : Accept(c) \/ Spawn(c)

Next ==
  \/ MainStep \/ SignalMain
  \/ \E c \in Conns :
       Connect(c) \/ SessionStarts(c) \/ SessionRuns(c) \/ SessionEnds(c) \/ SignalSession(c)

Spec == Init /\ [][Next]_vars

\* The main thread is scheduled; clients, sessions and signals may stop.
FairSpec == Spec /\ WF_vars(MainStep)

-----------------------------------------------------------------------------
(***************************************************************************)
(* Properties.                                                             *)
(***************************************************************************)
\* Every variable stays in its range; the main thread holds one connection exactly
\* while it creates the thread for it; nothing lives on after the process.
TypeOK ==
  /\ main \in {"start", "check", "accept", "spawn", "gone"}
  /\ active \in BOOLEAN
  /\ conn \in [Conns -> ConnStates]
  /\ late \subseteq Conns
  /\ signals \in 0..MaxSignals
  /\ main = "spawn" <=> \E c \in Conns : conn[c] = "held"
  /\ \A c, d \in Conns : conn[c] = "held" /\ conn[d] = "held" => c = d
  /\ main = "gone" => \A c \in Conns : conn[c] \notin Live

\* Once the server has been told to stop, at most one more connection is taken, and its
\* session closes it before it reads a command.
LateNotServed ==
  /\ \A c, d \in late : c = d
  /\ \A c \in late : conn[c] \notin {"recv", "busy"}

\* A late connection exists only after the last test of active_loop that succeeded: the
\* main thread has it in hand, is about to test active_loop again, or is gone.
LateIsLast ==
  late # {} => ~active /\ main \in {"spawn", "check", "gone"}

\* The inductive invariant: a thread for every connection taken, and a late one not served.
ServeInv == TypeOK /\ LateNotServed /\ LateIsLast

\* The request to stop is not forgotten once the server listens.
StopSticks == [][main # "start" /\ ~active => ~active']_vars

\* After SIGINT the server exits as soon as a client connects.  With no client it may stay
\* in accept for ever, if a session took the signal or it came just before the call.
StopsAtNextClient ==
  ~active /\ main = "accept" /\ (\E c \in Conns : conn[c] = "queued") ~> main = "gone"
=============================================================================
