------------------------------ MODULE LineHeap --------------------------------
(***************************************************************************)
(* The programs that read the lines of files into a heap and give them out *)
(* in order:                                                               *)
(*   pqueue  src/heap/pqueue.c: parcels with a priority from 1 to 1000;    *)
(*   scores  src/heap/structure.c: players with a score;                   *)
(*   lines   src/heap/sort.c: whole lines.                                 *)
(* Each has its own f_getline: a line longer than the buffer is cut, and   *)
(* the rest of it skipped.                                                 *)
(*                                                                         *)
(* A line is what its program makes of it: its form up to the cut, its     *)
(* place in the order, whether it is cut, and whether a newline ends it.   *)
(* Only the last line of a file may lack one.  Carriage returns are left   *)
(* out.                                                                    *)
(***************************************************************************)
EXTENDS Naturals, SequencesExt, FiniteSetsExt

CONSTANTS
  Programs,   \* which of "pqueue", "scores" and "lines" are looked at
  Arguments   \* the lists of files they are given; a file is a sequence of lines

\* "range" is a number that is no priority: 0, or more than 1000.
Forms == {"good", "nocolon", "nonumber", "badnumber", "range"}
Lines == [form : Forms, rank : Nat, long : BOOLEAN, ended : BOOLEAN]

ArgumentsAssumption ==
  /\ Arguments \subseteq Seq(Seq(Lines))
  /\ \A a \in Arguments : \A f \in DOMAIN a : \A i \in 1..(Len(a[f])-1) : a[f][i].ended

VARIABLES
  pc,        \* "idle", "open", "read", "insert", "deliver", "true" or "false"
  program, args,
  file, next,   \* the argument at work, and its line that f_getline reads next
  heap,
  owned,     \* entries allocated and not freed; an entry is named by its file and line
  out,       \* entries delivered
  opened     \* for the properties: the arguments that could be opened

vars == <<pc, program, args, file, next, heap, owned, out, opened>>

Line(e) == args[e[1]][e[2]]
Before(a, b) == Line(a).rank > Line(b).rank
H == INSTANCE HeapOps

Init ==
  /\ pc = "idle" /\ program = "lines" /\ args = <<>>
  /\ file = 0 /\ next = 1
  /\ heap = <<>> /\ owned = {} /\ out = <<>> /\ opened = {}

Call ==
  /\ pc = "idle"
  /\ pc' = "open" /\ program' \in Programs /\ args' \in Arguments
  /\ file' = 1
  /\ UNCHANGED <<next, heap, owned, out, opened>>

\* The way out of every error: e is destroyed if there is one, and the heap.
FreesOwn(e) == heap' = <<>> /\ owned' = (owned \ Range(heap)) \ e

Fail(e) ==
  /\ pc' = "false"
  /\ FreesOwn(e)
  /\ UNCHANGED <<program, args, file, next, out, opened>>

Open ==
  /\ pc = "open" /\ file <= Len(args)
  /\ pc' = "read" /\ next' = 1 /\ opened' = opened \cup {file}
  /\ UNCHANGED <<program, args, file, heap, owned, out>>

\* structure.c gives up, the others go on with the next file.
NotFound ==
  /\ pc = "open" /\ file <= Len(args)
  /\ \/ program = "scores" /\ Fail({})
     \/ /\ program # "scores"
        /\ file' = file + 1
        /\ UNCHANGED <<pc, program, args, next, heap, owned, out, opened>>

AtLine == pc = "read" /\ next <= Len(args[file])
Entry == <<file, next>>

\* f_getline of pqueue.c: truncated is reset unless the end of the file was met while
\* the rest of the line was looked for; so it is the last line that is left out if no
\* newline ends it, and a long one is taken as it is cut.
TruncatedIfLong(line) == line.long \/ ~line.ended
Truncated(line) == ~line.ended

Skip ==
  /\ AtLine
  /\ program = "pqueue" /\ Truncated(Line(Entry))
  /\ next' = next + 1
  /\ UNCHANGED <<pc, program, args, file, heap, owned, out, opened>>

\* structure.c takes any number and looks at the line before it asks for memory, pqueue.c
\* after; sort.c looks at nothing.
Malformed(line) ==
  \/ program = "pqueue" /\ line.form # "good"
  \/ program = "scores" /\ line.form \notin {"good", "range"}

Take ==
  /\ AtLine
  /\ program = "pqueue" => ~Truncated(Line(Entry))
  /\ program = "scores" => ~Malformed(Line(Entry))
  /\ pc' = "insert" /\ owned' = owned \cup {Entry}
  /\ UNCHANGED <<program, args, file, next, heap, out, opened>>

\* Memory runs out, or structure.c rejects the line.
TakeFails == AtLine /\ (program = "pqueue" => ~Truncated(Line(Entry))) /\ Fail({})

Insert ==
  /\ pc = "insert" /\ ~Malformed(Line(Entry))
  /\ heap' = H!Inserted(heap, Entry)
  /\ pc' = "read" /\ next' = next + 1
  /\ UNCHANGED <<program, args, file, owned, out, opened>>

\* heap_insert returns false, or pqueue.c rejects the line.
InsertFails == pc = "insert" /\ Fail({Entry})

EndOfFile ==
  /\ pc = "read" /\ next > Len(args[file])
  /\ pc' = "open" /\ file' = file + 1
  /\ UNCHANGED <<program, args, next, heap, owned, out, opened>>

AllRead ==
  /\ pc = "open" /\ file > Len(args)
  /\ pc' = "deliver"
  /\ UNCHANGED <<program, args, file, next, heap, owned, out, opened>>

\* heap_extract fails only on an empty heap.
Deliver ==
  /\ pc = "deliver" /\ heap # <<>>
  /\ out' = Append(out, heap[1]) /\ owned' = owned \ {heap[1]}
  /\ heap' = H!Extracted(heap)
  /\ UNCHANGED <<pc, program, args, file, next, opened>>

Finish ==
  /\ pc = "deliver" /\ heap = <<>>
  /\ pc' = "true"
  /\ UNCHANGED <<program, args, file, next, heap, owned, out, opened>>

Next ==
  \/ Call \/ Open \/ NotFound \/ Skip \/ Take \/ TakeFails \/ Insert \/ InsertFails
  \/ EndOfFile \/ AllRead \/ Deliver \/ Finish

Spec == Init /\ [][Next]_vars

-----------------------------------------------------------------------------
(***************************************************************************)
(* Properties.                                                             *)
(***************************************************************************)
Distinct(s) == Cardinality(Range(s)) = Len(s)

\* Every line of the files that could be opened, but for a last one that pqueue.c takes
\* for too long.
Wanted ==
  {e \in UNION {{f} \X DOMAIN args[f] : f \in opened} :
     program = "pqueue" /\ e[2] = Len(args[e[1]]) => Line(e).ended}

\* Memory: an entry is allocated while it is in the heap or on its way there, so that
\* nothing is left at the end, whichever way the program took there.
EntriesOwned ==
  /\ owned = Range(heap) \cup (IF pc = "insert" THEN {Entry} ELSE {})
  /\ Distinct(heap)

\* A program that succeeds has delivered every line of its files once, greatest first,
\* none of them malformed; one that fails has delivered nothing.
LinesRight ==
  /\ EntriesOwned
  /\ pc = "true" =>
       /\ Range(out) = Wanted /\ Distinct(out)
       /\ \A i, j \in DOMAIN out : i <= j => ~Before(out[j], out[i])
       /\ \A i \in DOMAIN out : ~Malformed(Line(out[i]))
  /\ pc = "false" => out = <<>> /\ owned = {}
=============================================================================
