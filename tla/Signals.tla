------------------------------- MODULE Signals -------------------------------
(***************************************************************************)
(* Processes and their signals: the command run by a child (system.c,      *)
(* fork.c), and the programs whose loops a signal handler ends (signal.c,  *)
(* signal-test.c, cursor.c, progress.c) with the program that sends it     *)
(* (kill.c).                                                               *)
(***************************************************************************)
EXTENDS Integers, Sequences

(***************************************************************************)
(* system_cmd of system.c: a shell runs a command while the caller waits   *)
(* with SIGINT and SIGQUIT ignored and SIGCHLD blocked.  The terminal may  *)
(* send either signal to both processes between any two steps.  fork.c is  *)
(* the bare fork and wait.                                                 *)
(***************************************************************************)
CONSTANTS
  Commands,      \* of "system", "empty", "null", "fork": how the caller calls
  MaxSignals     \* bound on the signals of the terminal

Keys == {"int", "quit"}
Dispositions == {"default", "ignore", "handler"}
Statuses == {"zero", "nonzero", "signal", "error", "none"}

VARIABLES
  command, before,   \* the call, and the caller's dispositions and mask as it was made
  disp, blocked,     \* the caller's dispositions, and whether SIGCHLD is blocked
  pending, caught,   \* SIGCHLD pending; the caller's handler has run for it
  ypc, status,       \* the caller
  child, cdisp, cblocked, ended,   \* the child: its step, dispositions, mask, exit status
  keys               \* signals sent so far

sysvars == <<command, before, disp, blocked, pending, caught, ypc, status, child, cdisp, cblocked,
             ended, keys>>

SysInit ==
  /\ command \in Commands
  /\ before \in [disp : [Keys -> Dispositions], blocked : BOOLEAN, reaps : BOOLEAN]
  /\ disp = before.disp /\ blocked = before.blocked
  /\ pending = FALSE /\ caught = FALSE
  /\ ypc = "call" /\ status = "none"
  /\ child = "none" /\ cdisp = before.disp /\ cblocked = before.blocked /\ ended = "none"
  /\ keys = 0

Caller(from, to) == ypc = from /\ ypc' = to /\ UNCHANGED <<command, before, keys>>
ChildSame == UNCHANGED <<child, cdisp, cblocked, ended>>
SignalSame == UNCHANGED <<pending, caught>>

----------------------------------------------------------------------------
\* No command answers 1 and an empty one 0, with nothing done.
Refuse ==
  /\ command \in {"null", "empty"}
  /\ Caller("call", "returned")
  /\ status' = IF command = "null" THEN "nonzero" ELSE "zero"
  /\ UNCHANGED <<disp, blocked>> /\ SignalSame /\ ChildSame

Block ==
  /\ command = "system" /\ Caller("call", "blocked")
  /\ blocked' = TRUE
  /\ UNCHANGED <<disp, status>> /\ SignalSame /\ ChildSame

Ignore(key, from, to) ==
  /\ Caller(from, to)
  /\ disp' = [disp EXCEPT ![key] = "ignore"]
  /\ UNCHANGED <<blocked, status>> /\ SignalSame /\ ChildSame

\* The child begins with the caller's dispositions and mask; fork may fail.
Fork ==
  /\ \/ /\ Caller("fork", "wait")
        /\ child' = "forked" /\ cdisp' = disp /\ cblocked' = blocked
        /\ UNCHANGED <<status, ended>>
     \/ /\ Caller("fork", IF command = "fork" THEN "exited" ELSE "mask")
        /\ status' = "error" /\ ChildSame
  /\ UNCHANGED <<disp, blocked>> /\ SignalSame

\* waitpid until the child has ended; interrupted it is called again.  Where the caller ignores
\* SIGCHLD nothing is left to wait for, which is an error; fork.c has its 0 then.
Reaped == CASE before.reaps -> ended [] command = "fork" -> "zero" [] OTHER -> "error"
WaitRetried ==
  /\ child = "gone" /\ before.reaps /\ Caller("wait", IF command = "fork" THEN "returned" ELSE "mask")
  /\ status' = Reaped
  /\ UNCHANGED <<disp, blocked>> /\ SignalSame /\ ChildSame
WaitChild ==
  /\ child = "gone" /\ Caller("wait", IF command = "fork" THEN "returned" ELSE "mask")
  /\ status' = Reaped
  /\ UNCHANGED <<disp, blocked>> /\ SignalSame /\ ChildSame

\* The mask as it was: a SIGCHLD that waited is delivered.
Unblock ==
  /\ Caller("mask", "unint")
  /\ blocked' = before.blocked
  /\ pending' = (pending /\ before.blocked)
  /\ caught' = (caught \/ (pending /\ ~before.blocked))
  /\ UNCHANGED <<disp, status>> /\ ChildSame

RestoreDefault(key, from, to) ==
  /\ Caller(from, to)
  /\ disp' = [disp EXCEPT ![key] = "default"]
  /\ UNCHANGED <<blocked, status>> /\ SignalSame /\ ChildSame

Restore(key, from, to) ==
  /\ Caller(from, to)
  /\ disp' = [disp EXCEPT ![key] = before.disp[key]]
  /\ UNCHANGED <<blocked, status>> /\ SignalSame /\ ChildSame

system_cmd ==
  \/ Refuse \/ Block \/ Fork \/ WaitChild \/ Unblock
  \/ Ignore("int", "blocked", "ignored") \/ Ignore("quit", "ignored", "fork")
  \/ Restore("int", "unint", "unquit") \/ Restore("quit", "unquit", "returned")

\* fork.c has none of the signals to see to.
fork_main ==
  /\ command = "fork" /\ Caller("call", "fork")
  /\ UNCHANGED <<disp, blocked, status>> /\ SignalSame /\ ChildSame

----------------------------------------------------------------------------
ChildGoes(from, to) == child = from /\ child' = to /\ UNCHANGED <<command, before, disp, blocked, ypc, status, keys>>

\* The end of the child is told to the caller by SIGCHLD, unless it ignores it.
Ends(how) ==
  /\ ended' = how
  /\ pending' = (before.reaps /\ blocked)
  /\ caught' = (caught \/ (before.reaps /\ ~blocked))

\* The child's own dispositions, but those the caller had ignored, one after the other.
Default(key, from, to) ==
  /\ command = "system" /\ ChildGoes(from, to)
  /\ cdisp' = [cdisp EXCEPT ![key] = IF before.disp[key] = "ignore" THEN @ ELSE "default"]
  /\ UNCHANGED <<cblocked, ended>> /\ SignalSame

\* The mask, and the shell: 127 without one.  A handler does not survive exec.
Exec ==
  /\ \/ /\ ChildGoes("unmasked", "shell")
        /\ cblocked' = before.blocked /\ UNCHANGED ended /\ SignalSame
     \/ ChildGoes("unmasked", "gone") /\ Ends("nonzero") /\ UNCHANGED cblocked
  /\ UNCHANGED cdisp

\* The command ends as it likes; the child of fork.c with success.
Finish ==
  /\ \/ ChildGoes("shell", "gone") /\ (Ends("zero") \/ Ends("nonzero"))
     \/ command = "fork" /\ ChildGoes("forked", "gone") /\ Ends("zero")
  /\ UNCHANGED <<cdisp, cblocked>>

child_process ==
  \/ Default("int", "forked", "int") \/ Default("quit", "int", "unmasked")
  \/ Exec \/ Finish

\* A key of the terminal signals both.
Key(key) ==
  /\ keys < MaxSignals /\ keys' = keys + 1
  /\ ypc \notin {"returned", "exited", "killed"}
  /\ ypc' = IF disp[key] = "default" THEN "killed" ELSE ypc
  /\ IF child \notin {"none", "gone"} /\ cdisp[key] = "default"
     THEN child' = "gone" /\ Ends("signal")
     ELSE UNCHANGED <<child, ended>> /\ SignalSame
  /\ UNCHANGED <<command, before, disp, blocked, status, cdisp, cblocked>>

SysNext == system_cmd \/ fork_main \/ child_process \/ \E key \in Keys : Key(key)
SysSpec == SysInit /\ [][SysNext]_sysvars
SysFairSpec == SysSpec /\ WF_sysvars(system_cmd \/ fork_main) /\ WF_sysvars(child_process)

----------------------------------------------------------------------------
SysTypeOK ==
  /\ disp \in [Keys -> Dispositions] /\ cdisp \in [Keys -> Dispositions]
  /\ status \in Statuses /\ ended \in Statuses

\* However the call went, the caller has its dispositions and its mask back.
Restored == ypc = "returned" => disp = before.disp /\ blocked = before.blocked

\* As long as the command runs the keys do not reach the caller.
Shielded ==
  command = "system" /\ child \notin {"none", "gone"} =>
    ypc # "killed" /\ \A key \in Keys : disp[key] = "ignore"

\* The shell starts with the caller's own mask, and with the keys ignored where the caller
\* ignored them and not where only system_cmd did.
CleanChild ==
  child = "shell" =>
    /\ cblocked = before.blocked
    /\ \A key \in Keys : cdisp[key] = IF before.disp[key] = "ignore" THEN "ignore" ELSE "default"

\* The caller's handler for SIGCHLD cannot take the command's status before waitpid has it.
HandledLate == command = "system" /\ caught => ypc \notin {"call", "blocked", "ignored", "fork", "wait"}

\* What system_cmd returns is how the command ended, or that it was not run.
StatusRight ==
  ypc = "returned" /\ command = "system" =>
    status = IF child = "none" \/ ~before.reaps THEN "error" ELSE ended

\* system_cmd keeps the signals from the caller while the command runs, and from nobody after.
SystemInv == SysTypeOK /\ Restored /\ Shielded /\ CleanChild /\ HandledLate /\ StatusRight

\* Whatever keys are pressed, the call returns, or a key before or after the command ended it.
SystemReturns == <>(ypc \in {"returned", "exited", "killed"})

(***************************************************************************)
(* signal.c, signal-test.c, progress.c and cursor.c: programs that print   *)
(* and sleep in a loop until SIGINT, whose handler writes a message and    *)
(* calls exit; and kill.c, which sends the signal to the process it is     *)
(* given.  What is printed goes through the buffer of stdout, the message  *)
(* of the handler around it; that of cursor.c first puts a clear-screen    *)
(* into the buffer, as its loop does before each turn.                     *)
(***************************************************************************)
CONSTANTS
  Loops,         \* programs
  Turns,         \* of the loops that end by themselves: 101
  Most           \* bound on the turns of those that do not

InterruptAssumption == Loops \subseteq {"signal", "signal-test", "progress", "cursor"} /\ Turns \in Nat

\* What is on the screen: turns by their numbers, the handler's message, and clear-screens.
Message == 0
Clear == -1
Named == "named"                    \* the argument of kill.c that is the program's own process
Arguments == {Named, "junk", "range", "zero", "negative"}

VARIABLES
  loop,          \* the program
  tty,           \* whether stdout is a terminal: a line is then written at its end
  ipc,           \* register, clear, clearing, print, printing, sleep, next, ended
  turn,
  stdio,         \* printed and not yet written
  screen,        \* written
  outcome,       \* running, finished, interrupted, default (killed before the handler), undefined
  killer         \* the argument kill.c has been called with, or none

intvars == <<loop, tty, ipc, turn, stdio, screen, outcome, killer>>

Endless == {"signal", "signal-test"}
SleepsFirst == {"signal-test", "cursor"}
\* progress.c flushes; the others do at the end of a line on a terminal.
Flushes == tty \/ loop = "progress"

Begin == CASE loop = "cursor" -> "clear" [] loop = "signal-test" -> "sleep" [] OTHER -> "print"

IntInit ==
  /\ loop \in Loops /\ tty \in BOOLEAN
  /\ ipc = "register" /\ turn = 1 /\ stdio = <<>> /\ screen = <<>>
  /\ outcome = "running" /\ killer = "none"

Leaves(from, to) == ipc = from /\ ipc' = to /\ UNCHANGED <<loop, tty, killer>>
End(how) == outcome' = how
Running == outcome = "running"
Same == UNCHANGED <<turn, stdio, screen, outcome>>

----------------------------------------------------------------------------
\* sigaction or signal; without a handler the program does not begin.
Register ==
  /\ \/ Leaves("register", Begin) /\ UNCHANGED outcome
     \/ Leaves("register", "ended") /\ End("finished")
  /\ UNCHANGED <<turn, stdio, screen>>

\* cursor.c clears the screen and sets the cursor, without a newline: nothing is written yet.
BeginClear == Leaves("clear", "clearing") /\ Same
EndClear ==
  /\ Leaves("clearing", "sleep")
  /\ stdio' = Append(stdio, Clear)
  /\ UNCHANGED <<turn, screen, outcome>>

\* printf, with stdout in between two states while it runs.  (A buffer that is full is written
\* before its line is; so many turns are not made here.)
BeginPrint == Leaves("print", "printing") /\ Same

EndPrint ==
  /\ Leaves("printing", IF loop \in SleepsFirst THEN "next" ELSE "sleep")
  /\ IF Flushes THEN screen' = screen \o stdio \o <<turn>> /\ stdio' = <<>>
                ELSE stdio' = Append(stdio, turn) /\ UNCHANGED screen
  /\ UNCHANGED <<turn, outcome>>

Wake == Leaves("sleep", IF loop \in SleepsFirst THEN "print" ELSE "next") /\ Same

\* The next turn; a loop that counts to a hundred returns from main, which flushes.
NextTurn ==
  \/ /\ IF loop \in Endless THEN turn < Most ELSE turn < Turns
     /\ Leaves("next", Begin)
     /\ turn' = turn + 1 /\ UNCHANGED <<stdio, screen, outcome>>
  \/ /\ loop \notin Endless /\ turn >= Turns
     /\ Leaves("next", "ended")
     /\ screen' = screen \o stdio /\ stdio' = <<>>
     /\ End("finished") /\ UNCHANGED turn

main == Register \/ BeginClear \/ EndClear \/ BeginPrint \/ EndPrint \/ Wake \/ NextTurn

\* The handler writes its message past the buffer and exits, which writes the buffer; that of
\* cursor.c has put its clear-screen into the buffer before.  In the middle of a printf all of
\* that is undefined.
Handler ==
  /\ ipc' = "ended"
  /\ \/ /\ ipc \in {"clear", "print", "sleep", "next"}
        /\ End("interrupted")
        /\ screen' = (screen \o <<Message>>) \o (IF loop = "cursor" THEN Append(stdio, Clear) ELSE stdio)
        /\ stdio' = <<>>
     \/ /\ ipc \in {"clearing", "printing"}
        /\ End("undefined") /\ UNCHANGED <<stdio, screen>>
     \/ /\ ipc = "register"
        /\ End("default") /\ UNCHANGED <<stdio, screen>>
  /\ UNCHANGED <<loop, tty, turn>>

\* kill.c: anything but the number of one process is refused; the signal goes to that process.
\* No argument of kill.c reaches a group of processes, as 0 and -1 would for kill().
Kill(argument) ==
  /\ killer = "none" /\ Running
  /\ killer' = argument
  /\ IF argument = Named THEN Handler
     ELSE UNCHANGED <<loop, tty, ipc, turn, stdio, screen, outcome>>

IntNext ==
  \/ Running /\ main
  \/ \E argument \in Arguments : Kill(argument)

IntSpec == IntInit /\ [][IntNext]_intvars
IntFairSpec == IntSpec /\ WF_intvars(Running /\ main)

----------------------------------------------------------------------------
\* The turns 1 to n, each of them and in their order, whatever stands between them.
InTurn(s, n) ==
  /\ \A k \in 1..n : \E i \in DOMAIN s : s[i] = k
  /\ \A i, j \in DOMAIN s : i < j /\ s[i] > 0 /\ s[j] > 0 => s[i] < s[j]
  /\ \A i \in DOMAIN s : s[i] <= n

\* An end outside of printf loses no line that was printed and writes none twice, in a pipe as
\* on a terminal; and the handler's message is written once if it was called, and else never.
NothingLost ==
  outcome \in {"finished", "interrupted"} =>
    /\ stdio = <<>>
    /\ \E n \in {turn - 1, turn} : InTurn(screen, n)
    /\ outcome = "interrupted" <=> \E i \in DOMAIN screen : screen[i] = Message
    /\ \A i, j \in DOMAIN screen : screen[i] = Message /\ screen[j] = Message => i = j

\* On a terminal no line comes behind the message; in a pipe lines may that had been printed
\* earlier.  But in cursor.c what was buffered for clearing the screen always does: its message
\* is written and erased by the exit.
MessageLast ==
  outcome = "interrupted" /\ Flushes =>
    \E m \in DOMAIN screen :
      /\ screen[m] = Message
      /\ m < Len(screen) <=> loop = "cursor"
      /\ \A i \in DOMAIN screen : i > m => screen[i] = Clear

\* Only a kill.c that was given this process ends it before its time.
OnlyNamed == outcome \in {"interrupted", "undefined", "default"} => killer = Named

\* What a loop has printed when it ends, and who ended it.
InterruptInv == NothingLost /\ MessageLast /\ OnlyNamed

\* A loop of a hundred turns ends, signal or not.
LoopEnds == <>(loop \in Endless \/ outcome # "running")
=============================================================================
