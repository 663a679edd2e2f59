---------------------------- MODULE FileTransfer -----------------------------
(***************************************************************************)
(* One connection of src/network/fileserve: connect_client on one end, the *)
(* thread running process_input on the other, two byte streams between     *)
(* them.  Nothing in a stream marks where a message ends: recv returns any *)
(* non-empty prefix of what was sent, and both ends search what one recv   *)
(* returned for the words they know.                                       *)
(*                                                                         *)
(* A stream is a sequence of tokens: a word, a name, one digit of a        *)
(* length, one unit of a file, or a character that ends a line.  Where a   *)
(* recv may end is a parameter, Ends, so that the streams that arrive in   *)
(* whole messages and those that do not can be told apart.                 *)
(***************************************************************************)
EXTENDS Naturals, FiniteSets, SequencesExt

CONSTANTS
  Names,        \* words a user types, which may name files
  Files,        \* those the server can open
  Size,         \* their sizes
  LsNames,      \* names that contain the letters ls
  PathNames,    \* names with a slash, a backslash or two dots
  Ends,         \* kinds of tokens after which a recv may end
  Room,         \* most tokens one recv returns (BUFFER_SIZE - 1)
  Faults,       \* the sets of Causes of failure that may occur together
  MaxCommands,  \* bound on the commands the user types
  None          \* no name

Kinds == {"ls", "help", "get", "exit", "name", "cr", "nl", "error", "length", "digit", "data"}

\* A signal arrives, opendir or fstat fails, sendfile sends less than asked for, the client
\* cannot open or write the local file.
Causes == {"signal", "dir", "stat", "sendfile", "disk"}

ASSUME TransferAssumption ==
  /\ Files \subseteq Names /\ IsFiniteSet(Files)
  /\ None \notin Names
  /\ Size \in [Files -> Nat]
  /\ Ends \subseteq Kinds
  /\ Faults \subseteq SUBSET Causes
  /\ Room \in Nat /\ MaxCommands \in Nat

VARIABLES
  client,            \* "prompt", "list", "head", "body" (of a file) or "done"
  cmd,               \* the command the client is at
  need, out,         \* file_size, and what the local file holds
  said,              \* the last "Saved" message
  typed,             \* number of commands typed
  session,           \* "recv", "sending" or "gone"
  source,            \* file the session is sending
  toServer, toClient,
  spoiled,           \* a local write has failed
  faults             \* what may fail in this behaviour

clientVars == <<client, cmd, need, out, said, typed, spoiled>>
sessionVars == <<session, source>>
vars == <<clientVars, sessionVars, toServer, toClient, faults>>

Word(k) == [kind |-> k, of |-> None, at |-> 0]
Name(f) == [kind |-> "name", of |-> f, at |-> 0]

\* The digits of %zu, in base two.  Of a digit the model has the number that it and those
\* before it make.
Digit(n) == [kind |-> "digit", of |-> None, at |-> n]
Digits[n \in Nat] == IF n < 2 THEN <<Digit(n)>> ELSE Append(Digits[n \div 2], Digit(n))

\* strtoul: the number the digits at the start of s make.
Length(s) ==
  LET stop == SelectInSeq(s, LAMBDA t : t.kind # "digit")
      count == IF stop = 0 THEN Len(s) ELSE stop - 1
  IN  IF count = 0 THEN 0 ELSE s[count].at

Header(f) == <<Word("length")>> \o Digits[Size[f]] \o <<Word("nl")>>
Body(f) == [i \in 1..Size[f] |-> [kind |-> "data", of |-> f, at |-> i]]
Error == <<Word("error"), Word("cr"), Word("nl")>>
Listing ==
  [i \in 1..(2 * Cardinality(Files)) |->
     IF i % 2 = 1 THEN Name(SetToSeq(Files)[(i + 1) \div 2]) ELSE Word("nl")]

Commands ==
  [op : {"ls", "help", "exit"}, name : {None}] \cup [op : {"get", "other"}, name : Names]

Text(c) ==
  CASE c.op = "get"   -> <<Word("get"), Name(c.name), Word("cr"), Word("nl")>>
    [] c.op = "other" -> <<Name(c.name), Word("cr"), Word("nl")>>
    [] OTHER          -> <<Word(c.op), Word("cr"), Word("nl")>>

Nothing == [name |-> None, bytes |-> 0, cut |-> FALSE]

Init ==
  /\ client = "prompt" /\ cmd = [op |-> "help", name |-> None]
  /\ need = 0 /\ out = <<>> /\ said = Nothing /\ typed = 0 /\ spoiled = FALSE
  /\ session = "recv" /\ source = None
  /\ toServer = <<>> /\ toClient = <<>>
  /\ faults \in Faults

\* recv: a prefix of the stream, at most max tokens.
Recv(stream, max, n) ==
  /\ n \in 1..Len(stream) /\ n <= max
  /\ stream[n].kind \in Ends

\* strstr: where the first token of this kind, or the first line end, is; 0 if none.
Find(s, k) == SelectInSeq(s, LAMBDA t : t.kind = k)
LineEndLoose(s) == Find(s, "nl")
LineEnd(s) ==
  LET at == {i \in 1..(Len(s)-1) : s[i].kind = "cr" /\ s[i+1].kind = "nl"}
  IN IF at = {} THEN 0 ELSE CHOOSE i \in at : \A j \in at : i <= j
After(s, i) == SubSeq(s, i + 1, Len(s))

-----------------------------------------------------------------------------
(***************************************************************************)
(* The session: process_input.                                             *)
(***************************************************************************)
\* strstr(buffer, "ls") meets a file name as well.
AsksList(s) == \E i \in 1..Len(s) : s[i].kind = "ls" \/ s[i].of \in LsNames

Reply(s) == toClient' = toClient \o s

ListUnended == Listing
Listed == Listing \o <<Word("cr"), Word("nl")>>

ListDirectory ==
  /\ Reply(Listed) \/ ("dir" \in faults /\ Reply(Error))
  /\ UNCHANGED sessionVars

\* send_file, up to sendfile.  A name cut short names no file.
SendFile(name) ==
  IF Len(name) = 1 /\ name[1].of \in Files \ PathNames
  THEN \/ /\ Reply(Header(name[1].of))
          /\ session' = "sending" /\ source' = name[1].of
       \/ /\ "stat" \in faults
          /\ UNCHANGED <<toClient, sessionVars>>
  ELSE Reply(Error) /\ UNCHANGED sessionVars

Obey(s) ==
  LET get == Find(s, "get")
      rest == After(s, get)
  IN  IF AsksList(s) THEN ListDirectory
      ELSE IF get > 0 /\ LineEnd(rest) > 0 THEN SendFile(SubSeq(rest, 1, LineEnd(rest) - 1))
      ELSE /\ IF get > 0 THEN Reply(Error) ELSE UNCHANGED toClient
           /\ session' = IF Find(s, "exit") > 0 THEN "gone" ELSE "recv"
           /\ UNCHANGED source

SessionReads ==
  /\ session = "recv"
  /\ \E n \in 1..Len(toServer) :
       /\ Recv(toServer, Room, n)
       /\ Obey(SubSeq(toServer, 1, n))
       /\ toServer' = After(toServer, n)
  /\ UNCHANGED clientVars

\* One call of sendfile; its result is not looked at.
Transmit ==
  /\ session = "sending"
  /\ \E n \in 0..Size[source] :
       /\ n = Size[source] \/ "sendfile" \in faults
       /\ Reply(SubSeq(Body(source), 1, n))
  /\ session' = "recv" /\ source' = None
  /\ UNCHANGED <<clientVars, toServer>>

\* The client is gone, a signal interrupts recv, or the process exits.
SessionEnds ==
  /\ session # "gone"
  /\ \/ session = "recv" /\ client = "done" /\ toServer = <<>>
     \/ "signal" \in faults
  /\ session' = "gone" /\ source' = None
  /\ UNCHANGED <<clientVars, toServer, toClient>>

-----------------------------------------------------------------------------
(***************************************************************************)
(* The client: connect_client.                                             *)
(***************************************************************************)
\* Where the client goes once the command is sent; help and unknown words expect no answer.
Waits(c) ==
  CASE c.op = "exit" -> "done" [] c.op = "ls" -> "list" [] c.op = "get" -> "head" [] OTHER -> "prompt"

Type ==
  /\ client = "prompt" /\ typed < MaxCommands
  /\ typed' = typed + 1
  /\ \E c \in Commands :
       /\ cmd' = c
       /\ \/ /\ client' = Waits(c)
             /\ toServer' = toServer \o Text(c)
          \/ session = "gone" /\ client' = "done" /\ UNCHANGED toServer
  /\ UNCHANGED <<need, out, said, spoiled, sessionVars, toClient>>

\* End of input, or a signal during fgets.
Leave ==
  /\ client = "prompt"
  /\ client' = "done"
  /\ UNCHANGED <<cmd, need, out, said, typed, spoiled, sessionVars, toServer, toClient>>

ListReads ==
  /\ client = "list"
  /\ \E n \in 1..Len(toClient) :
       /\ Recv(toClient, Room, n)
       /\ client' = IF LineEnd(SubSeq(toClient, 1, n)) > 0 THEN "prompt" ELSE "list"
       /\ toClient' = After(toClient, n)
  /\ UNCHANGED <<cmd, need, out, said, typed, spoiled, sessionVars, toServer>>

\* The "Saved" message; cut says that recv failed before.
ReportShort(file, cut) == said' = [name |-> cmd.name, bytes |-> Len(file) - 1, cut |-> cut]
Report(file, cut) == said' = [name |-> cmd.name, bytes |-> Len(file), cut |-> cut]

\* write_all to the local file; on failure nothing of s is counted.
Store(file, s) == out' = file \o s /\ UNCHANGED spoiled
StoreFails(file) == "disk" \in faults /\ out' = file /\ spoiled' = TRUE

\* openat fails: the command is over before the file has come.
NotOpened == "disk" \in faults /\ client' = "prompt" /\ spoiled' = TRUE /\ UNCHANGED <<out, said>>

EnoughEarly(file, n) == Len(file) + 1 >= n
Enough(file, n) == Len(file) >= n

\* What of the file came in the same recv as the header, of which s starts with the digits.
FirstDataWithNewline(s) == IF Find(s, "nl") > 0 THEN After(s, Find(s, "nl") - 1) ELSE <<>>
FirstData(s) == IF Find(s, "nl") > 0 THEN After(s, Find(s, "nl")) ELSE <<>>

\* The first recv of a get.
HeadReads ==
  /\ client = "head"
  /\ \E n \in 1..Len(toClient) :
       LET s == SubSeq(toClient, 1, n)
           number == After(s, Find(s, "length"))
           data == FirstData(number)
       IN  /\ Recv(toClient, Room, n)
           /\ toClient' = After(toClient, n)
           /\ IF s[1].kind = "error" \/ Find(s, "length") = 0
              THEN client' = "prompt" /\ UNCHANGED <<need, out, said, spoiled>>
              ELSE /\ need' = Length(number)
                   /\ \/ /\ Store(<<>>, data) \/ (data # <<>> /\ StoreFails(<<>>))
                         /\ IF Enough(out', need')
                            THEN client' = "prompt" /\ Report(out', FALSE)
                            ELSE client' = "body" /\ UNCHANGED said
                      \/ NotOpened
  /\ UNCHANGED <<cmd, typed, sessionVars, toServer>>

\* Bytes one recv of the loop asks for.
ToRead == need - Len(out)

BodyReads ==
  /\ client = "body"
  /\ \E n \in 1..Len(toClient) :
       /\ Recv(toClient, IF ToRead < Room THEN ToRead ELSE Room, n)
       /\ toClient' = After(toClient, n)
       /\ \/ /\ Store(out, SubSeq(toClient, 1, n))
             /\ IF Enough(out', need)
                THEN client' = "prompt" /\ Report(out', FALSE)
                ELSE client' = "body" /\ UNCHANGED said
          \/ StoreFails(out) /\ client' = "prompt" /\ Report(out, TRUE)
  /\ UNCHANGED <<cmd, need, typed, sessionVars, toServer>>

\* recv returns 0 after the session is gone, or -1 when a signal arrives: the command
\* is over, and after a signal (active_loop is false) so is the client.
RecvFails ==
  /\ client \in {"list", "head", "body"}
  /\ \/ session = "gone" /\ toClient = <<>> /\ client' = "prompt"
     \/ "signal" \in faults /\ client' = "done"
  /\ IF client = "body" THEN Report(out, TRUE) ELSE UNCHANGED said
  /\ UNCHANGED <<cmd, need, out, typed, spoiled, sessionVars, toServer, toClient>>

-----------------------------------------------------------------------------
ClientReads ==
  \/ ListReads
  \/ HeadReads \/ BodyReads
  \/ RecvFails
SessionRuns ==
  \/ SessionReads
  \/ Transmit

Next == (SessionRuns \/ SessionEnds \/ Type \/ Leave \/ ClientReads) /\ UNCHANGED faults

Spec == Init /\ [][Next]_vars

\* A thread whose recv can return, or that is not blocked, goes on.
FairSpec ==
  Spec /\ WF_vars(SessionRuns /\ UNCHANGED faults) /\ WF_vars(ClientReads /\ UNCHANGED faults)

-----------------------------------------------------------------------------
(***************************************************************************)
(* Properties.                                                             *)
(***************************************************************************)
Tokens == [kind : Kinds, of : Names \cup {None}, at : Nat]

\* Every variable stays in its range, and a session sends only a file it could open.
TypeOK ==
  /\ client \in {"prompt", "list", "head", "body", "done"}
  /\ cmd \in Commands
  /\ need \in Nat /\ typed \in 0..MaxCommands /\ spoiled \in BOOLEAN
  /\ said \in [name : Names \cup {None}, bytes : Nat, cut : BOOLEAN]
  /\ session \in {"recv", "sending", "gone"}
  /\ IF session = "sending" THEN source \in Files ELSE source = None
  /\ \A s \in {out, toServer, toClient} : s \in Seq(Tokens)

\* What makes the programs work: a recv never ends within a line, and no name asked for
\* has the letters of ls.
InLines == Ends \subseteq {"nl", "data"} /\ LsNames \cap (Names \cup {None}) = {}

\* What the stream to the session may begin with: commands that have no answer.
Chatter == {Word("help"), Word("cr"), Word("nl")} \cup {Name(f) : f \in Names}
Chat(s) == \A j \in 1..Len(s) : s[j] \in Chatter
Asked(s) == \E m \in 0..Len(s) : Chat(SubSeq(s, 1, m)) /\ After(s, m) = Text(cmd)

\* Nothing is on its way to the client.
Calm == toClient = <<>> /\ (session = "sending" => Size[source] = 0)
\* The session has yet to read the command, or has read all.
Asking == Calm /\ (session # "gone" => Asked(toServer))
Heard == session # "gone" => toServer = <<>>

\* What is left of a listing: its only "cr" comes before its last token.
Ended(s) ==
  /\ Len(s) >= 2 /\ s[Len(s)-1] = Word("cr") /\ s[Len(s)] = Word("nl")
  /\ \A j \in 1..(Len(s)-2) : s[j].kind # "cr"

\* s is what follows the first units of file f.
Follows(s, f, first) ==
  /\ first + Len(s) <= Size[f]
  /\ \A j \in 1..Len(s) : s[j] = Body(f)[first + j]

\* The rest of the file asked for, after what the client has of it, is in the stream or
\* yet to be sent.
Coming(s, first) ==
  /\ Follows(s, cmd.name, first)
  /\ session = "sending" => source = cmd.name /\ s = <<>> /\ first = 0

Refused == cmd.name \notin Files \ PathNames /\ session # "sending" /\ toClient = Error
Ignored == "stat" \in faults /\ session # "sending" /\ toClient = <<>>
Answered ==
  /\ cmd.name \in Files \ PathNames
  /\ IsPrefix(Header(cmd.name), toClient)
  /\ Coming(After(toClient, Len(Header(cmd.name))), 0)

AtPrompt == client = "prompt" => Calm /\ (session # "gone" => Chat(toServer))
InList ==
  client = "list" =>
    cmd.op = "ls" /\ (Asking \/ (Heard /\ session # "sending" /\ Ended(toClient)))
InHead ==
  client = "head" =>
    cmd.op = "get" /\ (Asking \/ (Heard /\ (Refused \/ Ignored \/ Answered)))
InBody ==
  client = "body" =>
    /\ Heard /\ cmd.name \in Files \ PathNames
    /\ need = Size[cmd.name] /\ Len(out) < need
    /\ Follows(out, cmd.name, 0) /\ Coming(toClient, Len(out))

\* Requests and answers stay matched, command by command, until a local write has failed:
\* what is in the two streams is what is left of the command the client is at.  Nothing in
\* the protocol says which command an answer belongs to, so a left-over byte would be
\* taken for the answer to the next command.
Matched ==
  /\ AtPrompt /\ InList /\ InHead /\ InBody
  /\ session = "gone" => client = "done" \/ "signal" \in faults

\* So when the client is at its prompt and the session has answered all that was sent to
\* it, no byte of an answer is left.
InSync ==
  client = "prompt" /\ session = "recv" /\ toServer = <<>> /\ ~spoiled => toClient = <<>>

\* The local file is at every moment a prefix of the file asked for.
SavedIsPrefix ==
  client = "body" /\ ~spoiled => IsPrefix(out, Body(cmd.name))

\* A download that was not cut short saves all of the file that was asked for.
SavedIsWhole ==
  said.name # None /\ ~said.cut /\ ~spoiled => said.bytes = Size[said.name]

\* What holds of client, session and streams at any time: the inductive invariant.
TransferInv ==
  /\ TypeOK
  /\ IF spoiled THEN "disk" \in faults ELSE Matched /\ SavedIsWhole

\* What is on the client's disk, while it arrives and when it is reported as saved.
SavedRight == SavedIsPrefix /\ SavedIsWhole

\* What the help text promises for get: <filename>, a file the server has and may send,
\* where nothing fails: the command is not over before the file is there.
GetGetsFile ==
  [][faults = {} /\ cmd.name \in Files \ PathNames /\ client \in {"head", "body"} /\ client' = "prompt"
       => said.name' = cmd.name /\ out' = Body(cmd.name)]_vars

\* Where nothing fails, a command the client waits for is over at some time.
CommandEnds == faults = {} /\ client \in {"list", "head", "body"} ~> client \in {"prompt", "done"}
=============================================================================
