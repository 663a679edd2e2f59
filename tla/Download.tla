------------------------------ MODULE Download -------------------------------
EXTENDS SequencesExt, FiniteSetsExt, Integers, Sequences

(***************************************************************************)
(* The HTTP client of src/network/dl/dl-file.c: it collects the answer     *)
(* until it has the empty line behind the header, takes the length from    *)
(* the header, and saves what follows until the server closes.             *)
(*                                                                         *)
(* The answer is a sequence of symbols: "crlf" ends a line, "field" is a   *)
(* header line without a length, "length" and "badlength" are one with a   *)
(* number behind Content-Length and one without; the body has any symbols. *)
(* One recv gives any part of what is still to come.                       *)
(***************************************************************************)
CONSTANTS
  Answers,   \* records: what the server sends (stream), and the length it announces
  MostRead,  \* the most one recv takes: 1024 for the header, and more behind it
  FirstCap,  \* size of the buffer at first: 4096
  NoFile

\* One recv does not bring more than the buffer's first size.
DownloadAssumption ==
  /\ \A a \in Answers : a.stream \in Seq(STRING)
  /\ FirstCap \in Nat \ {0} /\ MostRead \in Nat /\ MostRead <= FirstCap

VARIABLES
  dpc,       \* "idle", "header", "parse", "body", "save" (a read chunk), "ended" or "failed"
  answer,
  drest,     \* what the server has not sent or the network not delivered
  buffer, dcap,
  dheader, chunk, \* h.header, and h.body or what recv gave
  dbody,     \* for the properties: what was received behind the header
  ddisk,     \* the output file
  file_length,
  holds,     \* allocated and not freed, of "buffer", "header" and "body"
  dsaid,     \* "none", "ok", "incorrect" or "reset"
  short      \* for the properties: a write to the file was cut short

downloadvars ==
  <<dpc, answer, drest, buffer, dcap, dheader, chunk, dbody, ddisk, file_length, holds, dsaid, short>>

DownloadInit ==
  /\ dpc = "idle"
  /\ answer = [stream |-> <<>>, length |-> 0]
  /\ drest = <<>> /\ buffer = <<>> /\ dcap = FirstCap /\ dheader = <<>> /\ chunk = <<>>
  /\ dbody = <<>> /\ ddisk = NoFile /\ file_length = 0
  /\ holds = {} /\ dsaid = "none" /\ short = FALSE

\* Connected, the request sent, and the buffer allocated.
Connect ==
  /\ dpc = "idle"
  /\ answer' \in Answers
  /\ drest' = answer'.stream
  /\ dpc' = "header" /\ holds' = {"buffer"}
  /\ UNCHANGED <<buffer, dcap, dheader, chunk, dbody, ddisk, file_length, dsaid, short>>

\* recv gives n symbols.
Take(n) == drest' = SubSeq(drest, n + 1, Len(drest))
Given(n) == SubSeq(drest, 1, n)
Chunks == 1..(IF Len(drest) < MostRead THEN Len(drest) ELSE MostRead)

\* The place of the first empty line; 0 if there is none.
EndOf(text) ==
  LET ends == {i \in 1..(Len(text)-1) : text[i] = "crlf" /\ text[i+1] = "crlf"}
  IN  IF ends = {} THEN 0 ELSE Min(ends)

\* strstr looks at the whole buffer, not at what has come last.
SearchedLast(n) == EndOf(Given(n))
Searched(n) == EndOf(buffer')

\* extract_header: one turn of its loop.
ExtractHeader(n) ==
  /\ dpc = "header"
  /\ Take(n)
  /\ buffer' = buffer \o Given(n)
  /\ dcap' = IF Len(buffer) + n >= dcap THEN 2 * dcap ELSE dcap
  /\ LET pos == Searched(n)
     IN  IF pos = 0 THEN UNCHANGED <<dpc, dheader, chunk, dbody, holds>>
         ELSE /\ dheader' = SubSeq(buffer', 1, pos - 1)
              /\ chunk' = SubSeq(buffer', pos + 2, Len(buffer')) /\ dbody' = chunk'
              /\ holds' = {"header"} \cup (IF chunk' = <<>> THEN {} ELSE {"body"})
              /\ dpc' = "parse"
  /\ UNCHANGED <<answer, ddisk, file_length, dsaid, short>>

Failed ==
  /\ dpc' = "failed" /\ holds' = {}
  /\ UNCHANGED <<answer, drest, buffer, dcap, dheader, chunk, dbody, ddisk, file_length, dsaid, short>>

\* The connection ends or fails before the empty line, or memory runs out.
HeaderFails == dpc = "header" /\ Failed

\* Content-Length is used if a number and then anything more of the header is behind it.
Announced ==
  \E i \in DOMAIN dheader :
    /\ dheader[i] = "length" /\ i < Len(dheader)
    /\ \A j \in 1..(i-1) : dheader[j] \notin {"length", "badlength"}

Parse ==
  /\ dpc = "parse"
  /\ IF Announced THEN dpc' = "save" /\ ddisk' = <<>> /\ UNCHANGED holds
     ELSE dpc' = "ended" /\ holds' = {} /\ UNCHANGED ddisk
  /\ UNCHANGED <<answer, drest, buffer, dcap, dheader, chunk, dbody, file_length, dsaid, short>>

FileFails == dpc = "parse" /\ Announced /\ Failed

\* fwrite takes some of the chunk: all of it unless the device fails.
Save(n) ==
  /\ dpc = "save"
  /\ ddisk' = ddisk \o SubSeq(chunk, 1, n)
  /\ file_length' = file_length + n
  /\ short' = (short \/ n < Len(chunk))
  /\ dpc' = "body" /\ chunk' = <<>>
  /\ UNCHANGED <<answer, drest, buffer, dcap, dheader, dbody, holds, dsaid>>

ReadBody(n) ==
  /\ dpc = "body"
  /\ Take(n)
  /\ chunk' = Given(n) /\ dbody' = dbody \o chunk'
  /\ dpc' = "save"
  /\ UNCHANGED <<answer, buffer, dcap, dheader, ddisk, file_length, holds, dsaid, short>>

Whole == file_length = answer.length

\* recv gives 0: the server has closed, behind the answer or within it.
Closed ==
  /\ dpc = "body"
  /\ dsaid' = IF Whole THEN "ok" ELSE "incorrect"
  /\ dpc' = "ended" /\ holds' = {}
  /\ UNCHANGED <<answer, drest, buffer, dcap, dheader, chunk, dbody, ddisk, file_length, short>>

Reset ==
  /\ dpc = "body"
  /\ dsaid' = "reset"
  /\ dpc' = "ended" /\ holds' = {}
  /\ UNCHANGED <<answer, drest, buffer, dcap, dheader, chunk, dbody, ddisk, file_length, short>>

DownloadNext ==
  \/ Connect \/ HeaderFails \/ Parse \/ FileFails \/ Closed \/ Reset
  \/ dpc \in {"header", "body"} /\ \E n \in Chunks : ExtractHeader(n) \/ ReadBody(n)
  \/ dpc = "save" /\ \E n \in 0..Len(chunk) : Save(n)

DownloadSpec == DownloadInit /\ [][DownloadNext]_downloadvars

-----------------------------------------------------------------------------
(***************************************************************************)
(* Properties.                                                             *)
(***************************************************************************)
\* Every variable stays in its range; what has come fits the buffer, with its final 0.
DownloadTypeOK ==
  /\ dpc \in {"idle", "header", "parse", "body", "save", "ended", "failed"}
  /\ Len(buffer) < dcap \/ dpc = "idle"
  /\ holds \subseteq {"buffer", "header", "body"}
  /\ dpc \in {"ended", "failed"} => holds = {}

\* The answer is divided where its first empty line is, wherever the network cut it.
Divided ==
  dpc \notin {"idle", "header", "failed"} =>
    LET s == answer.stream
    IN  /\ EndOf(s) # 0 /\ dheader = SubSeq(s, 1, EndOf(s) - 1)
        /\ dheader \o <<"crlf", "crlf">> \o dbody \o drest = s

\* The file is what came behind the header, in order and without a gap unless a write was
\* cut short.  OK is said only for a file of the length announced; unless a write was cut
\* short that is the beginning of the body, and all of it if the announced length is right.
DownloadSaved ==
  /\ DownloadTypeOK /\ Divided
  /\ ddisk # NoFile /\ ~short => ddisk \o chunk = dbody
  /\ dsaid = "ok" =>
       /\ Len(ddisk) = answer.length
       /\ ~short => IsPrefix(ddisk, dbody)
       /\ ~short /\ Len(dbody \o drest) = answer.length => drest = <<>>

(***************************************************************************)
(* The progress bars: print_progress of network/dl/dl-file.c and of        *)
(* network/fileserve/fileserve.c, fed by a transfer that may end early or  *)
(* bring more than was announced, and the loop of progress.c.  The         *)
(* terminal may change its width between two bars.                         *)
(***************************************************************************)
CONSTANTS
  Lengths,       \* announced lengths
  Reads,        \* what one read brings
  Widths,        \* of the terminal; 80 where there is none
  Percents,      \* what counts as a hundred: 100 in the code
  Bars           \* a subset of {"download", "transfer", "loop"}

\* A read that brings nothing ends the transfer.
ProgressAssumption ==
  /\ Lengths \subseteq Nat /\ Reads \subseteq Nat \ {0} /\ Widths \subseteq Nat
  /\ Percents \in Nat \ {0} /\ Bars \subseteq {"download", "transfer", "loop"}

VARIABLES
  bars,          \* the program
  announced, gone, \* the length and the progress
  previous,      \* *prev of the transfer: the percentage shown last
  shown,         \* the last two bars: their width, how much of it is filled, the percentage
  over           \* the transfer or the loop is over

barvars == <<bars, announced, gone, previous, shown, over>>

BarInit ==
  /\ bars \in Bars
  /\ announced \in IF bars = "loop" THEN {Percents} ELSE Lengths
  /\ gone = 0 /\ previous = 0 /\ shown = <<>> /\ over = FALSE

AtLeast(n, least) == IF n < least THEN least ELSE n
AtMost(n, most) == IF n > most THEN most ELSE n

\* (int)(ratio * n), ratio being progress / length in floating point: where the exact product
\* is a whole number the rounded one may lie just below it.  Ratios 0 and 1 are exact.
Scaled(progress, n) ==
  LET exact == (progress * AtLeast(n, -n)) \div announced
      whole == (progress * n) % announced = 0 /\ progress \notin {0, announced} /\ exact > 0
      sign == IF n < 0 THEN -1 ELSE 1
  IN {sign * exact} \cup IF whole THEN {sign * (exact - 1)} ELSE {}

Drawn(bar) == shown' = Append(IF Len(shown) < 2 THEN shown ELSE Tail(shown), bar)
Bar(width, filled, percent) == 
  [width |-> width, filled |-> AtMost(AtLeast(filled, 0), width), percent |-> percent]

\* dl-file.c: how much is filled is computed before the bar gets its least width.
DrawDownload(progress) ==
  \E width \in Widths, percent \in Scaled(progress, Percents) :
    \E filled \in Scaled(progress, width - 12) :
      /\ Drawn(Bar(AtLeast(width - 12, 10), filled, percent))
      /\ UNCHANGED previous

\* fileserve.c: the same, and a percentage that is shown already is not drawn again.
DrawTransfer(progress) ==
  \E width \in Widths, percent \in Scaled(progress, Percents) :
    \E filled \in Scaled(progress, width - 12) :
      /\ previous' = percent
      /\ IF previous = percent THEN UNCHANGED shown
         ELSE Drawn(Bar(AtLeast(width - 12, 10), filled, percent))

\* progress.c: the bar gets its least width first.
DrawLoop(i) ==
  \E width \in Widths :
    LET room == AtLeast(width - 12, 10)
    IN /\ Drawn(Bar(room, (i * room) \div Percents, i))
       /\ UNCHANGED previous

\* Without a length there is no bar, and no more is filled than the whole.
print_progress ==
  LET progress == AtMost(gone', announced)
  IN CASE announced = 0 -> UNCHANGED <<shown, previous>>
       [] announced # 0 /\ bars = "download" -> DrawDownload(progress)
       [] announced # 0 /\ bars = "transfer" -> DrawTransfer(progress)

\* A piece arrives and is written; the sender decides when it is the last.
Piece ==
  /\ bars # "loop" /\ ~over /\ gone <= announced
  /\ \E c \in Reads : gone' = gone + c
  /\ print_progress
  /\ UNCHANGED <<bars, announced, over>>

Tick ==
  /\ bars = "loop" /\ ~over
  /\ DrawLoop(gone)
  /\ gone' = gone + 1 /\ over' = (gone = Percents)
  /\ UNCHANGED <<bars, announced>>

Close == bars # "loop" /\ ~over /\ over' = TRUE /\ UNCHANGED <<bars, announced, gone, previous, shown>>

BarNext == Piece \/ Tick \/ Close
BarSpec == BarInit /\ [][BarNext]_barvars

----------------------------------------------------------------------------
Shown(i) == shown[i].percent

\* No bar shows less than the one before it, and the transfer's bars all show more.
Increasing ==
  \A i \in DOMAIN shown : i > 1 =>
    IF bars = "transfer" THEN Shown(i) > Shown(i - 1) ELSE Shown(i) >= Shown(i - 1)

\* What is shown last is the progress, to one hundredth.
UpToDate ==
  shown # <<>> /\ bars # "loop" =>
    LET now == (AtMost(gone, announced) * Percents) \div announced
    IN Shown(Len(shown)) \in {now - 1, now}

\* The whole is shown as the whole: a hundred, and the bar full unless the terminal is so narrow
\* that the bar got its least width.
FullAtEnd ==
  \A i \in DOMAIN shown :
    /\ Shown(i) <= Percents
    /\ Shown(i) = Percents =>
         /\ shown[i].width > 10 \/ bars = "loop" => shown[i].filled = shown[i].width
         /\ bars = "loop" \/ gone >= announced
    /\ shown[i].filled = shown[i].width /\ bars # "loop" => Shown(i) = Percents

\* The bar: never back, never ahead, full at the end.
ProgressInv == Increasing /\ UpToDate /\ FullAtEnd

\* What is downloaded is what was sent, and the bars show how much of it.
DownloadRight == DownloadSaved /\ ProgressInv
=============================================================================
