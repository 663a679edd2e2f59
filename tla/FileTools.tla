------------------------------ MODULE FileTools ------------------------------
(***************************************************************************)
(* Programs that work on files and directories: the tools on one file, the *)
(* copy of a directory that skips what is there, the sorted listing, and   *)
(* the spelling checker.                                                   *)
(***************************************************************************)
EXTENDS Integers, SequencesExt, FiniteSetsExt

(***************************************************************************)
(* The programs that work on one file, run at the same time on the same    *)
(* files:                                                                  *)
(*   copy   src/copy-file.c, block by block into another file, which may   *)
(*          be the same one;                                               *)
(*   count  src/count.c and src/count-char.c, lines, block by block;       *)
(*   seek   src/seek-test.c, adds one to the last byte but one;            *)
(*   map    src/mem-map.c, counts letters in a mapping of the file.        *)
(* A byte is a number; bytes of Letters are counted.                       *)
(***************************************************************************)
CONSTANTS
  Users,      \* processes, one after the other running programs
  Tools,      \* of "copy", "count", "seek" and "map"
  Paths,      \* the files
  Contents,   \* what they may hold at first
  Values,     \* char has that many
  Letters,    \* the values that are counted
  BufferSize, \* of a read
  Page,       \* of memory
  MaxCalls    \* bound: programs run by a process

VARIABLES
  content,    \* of every file
  run,        \* of every process: the program it runs, where it is in it, and its variables
  calls       \* programs it has started

tvars == <<content, run, calls>>

Idle == [tool |-> "none", at |-> "idle", src |-> 0, dst |-> 0, pos |-> 0, wpos |-> 0, data |-> <<>>,
         n |-> 0, passed |-> TRUE, was |-> <<>>, alone |-> TRUE]

TInit ==
  /\ content \in [Paths -> Contents]
  /\ run = [u \in Users |-> Idle] /\ calls = [u \in Users |-> 0]

In(u, tool, at) == run[u].tool = tool /\ run[u].at = at
Go(u, r) == run' = [run EXCEPT ![u] = r] /\ UNCHANGED <<content, calls>>
Ends(r, at) == [r EXCEPT !.at = at, !.data = <<>>, !.pos = 0]

\* A change to a file; the others that have it open are not alone with it.
Change(u, r, path, bytes) ==
  /\ content' = [content EXCEPT ![path] = bytes]
  /\ run' = [v \in Users |->
       IF v = u THEN r
       ELSE [run[v] EXCEPT !.alone = @ /\ path \notin {run[v].src, run[v].dst}]]
  /\ UNCHANGED calls

File(u) == content[run[u].src]
Counted(bytes) == Len(SelectSeq(bytes, LAMBDA b : b \in Letters))
Overlaid(old, at, bytes) ==
  [i \in 1..(IF Len(old) > at + Len(bytes) THEN Len(old) ELSE at + Len(bytes)) |->
     IF i > at /\ i <= at + Len(bytes) THEN bytes[i - at] ELSE IF i <= Len(old) THEN old[i] ELSE 0]
Fill(u) == SubSeq(File(u), run[u].pos + 1,
                  IF Len(File(u)) < run[u].pos + BufferSize THEN Len(File(u)) ELSE run[u].pos + BufferSize)

\* A program is started and opens its file, or cannot.
Open(u) ==
  /\ run[u].at \in {"idle", "success", "failure", "refused", "bus"} /\ calls[u] < MaxCalls
  /\ calls' = [calls EXCEPT ![u] = @ + 1]
  /\ \E tool \in Tools, s, d \in Paths :
       /\ tool # "copy" => s = d
       /\ run' = [run EXCEPT ![u] = [Idle EXCEPT !.tool = tool, !.at = "opened", !.src = s, !.dst = d,
                                                 !.was = content[s]]]
  /\ UNCHANGED content

-----------------------------------------------------------------------------
(***************************************************************************)
(* copy_file: a failure sets passed and jumps to the calls of close that   *)
(* are due; that of the input is not looked at.                            *)
(***************************************************************************)
OpenOutput(u) ==
  /\ In(u, "copy", "opened")
  /\ \/ Change(u, [run[u] EXCEPT !.at = "read"], run[u].dst, <<>>)
     \/ Go(u, Ends(run[u], "refused"))

ReadBlock(u) ==
  /\ In(u, "copy", "read")
  /\ \/ /\ Fill(u) # <<>>
        /\ Go(u, [run[u] EXCEPT !.data = Fill(u), !.pos = @ + Len(Fill(u)), !.at = "write"])
     \/ Fill(u) = <<>> /\ Go(u, [run[u] EXCEPT !.at = "sync"])
     \/ Go(u, [run[u] EXCEPT !.at = "sync", !.passed = FALSE])

\* A write of fewer bytes than were read ends the copy.
WriteBlock(u) ==
  /\ In(u, "copy", "write")
  /\ \E k \in 0..Len(run[u].data) :
       LET r == [run[u] EXCEPT !.wpos = @ + k, !.data = <<>>]
       IN  Change(u, IF k = Len(run[u].data) THEN [r EXCEPT !.at = "read"]
                     ELSE [r EXCEPT !.at = "close", !.passed = FALSE],
                  run[u].dst, Overlaid(content[run[u].dst], run[u].wpos, SubSeq(run[u].data, 1, k)))

fsync(u) ==
  /\ In(u, "copy", "sync")
  /\ \E ok \in BOOLEAN : Go(u, [run[u] EXCEPT !.at = "close", !.passed = @ /\ ok])

Close(u) ==
  /\ In(u, "copy", "close")
  /\ \E ok \in BOOLEAN :
       Go(u, Ends([run[u] EXCEPT !.passed = @ /\ ok], IF run[u].passed /\ ok THEN "success" ELSE "failure"))

copy_file(u) ==
  \/ OpenOutput(u)
  \/ ReadBlock(u) \/ WriteBlock(u)
  \/ fsync(u) \/ Close(u)

-----------------------------------------------------------------------------
\* count.c: an error of fread looks like the end of the file.
CountBlock(u) ==
  /\ In(u, "count", "opened")
  /\ \/ /\ Fill(u) # <<>>
        /\ Go(u, [run[u] EXCEPT !.pos = @ + Len(Fill(u)), !.n = @ + Counted(Fill(u))])
     \/ Fill(u) = <<>> /\ Go(u, Ends(run[u], "success"))
     \/ Go(u, Ends([run[u] EXCEPT !.passed = FALSE], "success"))

-----------------------------------------------------------------------------
(***************************************************************************)
(* seek-test.c.                                                            *)
(***************************************************************************)
SeekEnd(u) ==
  /\ In(u, "seek", "opened")
  /\ IF Len(File(u)) < 2 THEN Go(u, Ends(run[u], "failure"))
     ELSE Go(u, [run[u] EXCEPT !.pos = Len(File(u)) - 2, !.at = "byte"])

ReadByte(u) ==
  /\ In(u, "seek", "byte")
  /\ \/ /\ run[u].pos < Len(File(u))
        /\ Go(u, [run[u] EXCEPT !.data = <<File(u)[run[u].pos + 1]>>, !.at = "store"])
     \/ Go(u, Ends(run[u], "failure"))

\* The byte is written where it was read, though the file may have become shorter.  An error of
\* close is a failure with the byte written.
WriteByte(u) ==
  /\ In(u, "seek", "store")
  /\ \/ \E how \in {"success", "failure"} :
          Change(u, Ends(run[u], how), run[u].src,
               Overlaid(File(u), run[u].pos, <<(run[u].data[1] + 1) % Values>>))
     \/ Go(u, Ends(run[u], "failure"))

increment(u) ==
  \/ SeekEnd(u)
  \/ ReadByte(u) \/ WriteByte(u)

-----------------------------------------------------------------------------
(***************************************************************************)
(* mem-map.c: the length is that of fstat; what of the file is there when  *)
(* a byte is looked at is another thing.  Behind its end the last page     *)
(* reads as zeros, and there is none after it.                             *)
(***************************************************************************)
Map(u) ==
  /\ In(u, "map", "opened")
  /\ \/ File(u) # <<>> /\ Go(u, [run[u] EXCEPT !.at = "mapped", !.wpos = Len(File(u))])
     \/ Go(u, Ends(run[u], "failure"))

PagesEnd(u) == ((Len(File(u)) + Page - 1) \div Page) * Page
Look(u) ==
  /\ In(u, "map", "mapped")
  /\ LET i == run[u].pos + 1
     IN  CASE run[u].pos = run[u].wpos -> Go(u, Ends(run[u], "success"))
           [] i <= run[u].wpos /\ i > PagesEnd(u) -> Go(u, Ends(run[u], "bus"))
           [] OTHER -> Go(u, [run[u] EXCEPT !.pos = i,
                                !.n = IF i <= Len(File(u)) /\ File(u)[i] \in Letters THEN @ + 1 ELSE @])

count_mapped(u) ==
  \/ Map(u)
  \/ Look(u)

TNext == \E u \in Users : Open(u) \/ copy_file(u) \/ CountBlock(u) \/ increment(u) \/ count_mapped(u)
TSpec == TInit /\ [][TNext]_tvars

-----------------------------------------------------------------------------
(***************************************************************************)
(* Properties.                                                             *)
(***************************************************************************)
\* A copy that reports success is one, and one that failed left a part of the source from
\* its begin; but a file copied onto itself is empty, and the report is success as well.
CopyRight(r) ==
  IF r.src = r.dst THEN r.at = "success" => content[r.dst] = <<>>
  ELSE r.at = "success" => content[r.dst] = r.was

\* The numbers are those of the file as it was opened, unless fread failed.
CountRight(r) == (r.at = "success" /\ r.passed) => r.n = Counted(r.was)

\* One byte has become greater by one and no other has changed.
SeekRight(r) ==
  r.at = "success" =>
    /\ Len(content[r.src]) = Len(r.was)
    /\ \A i \in DOMAIN r.was :
         content[r.src][i] = IF i = Len(r.was) - 1 THEN (r.was[i] + 1) % Values ELSE r.was[i]

\* A process that nobody disturbed in its files has done what its program is for; and none
\* is killed by a mapping unless another program has cut the file.  A write of one that was
\* disturbed may be lost or be a byte of a file that is no longer the same: of these nothing
\* is said but that no file grows beyond the longest that has been there.
ToolsInv ==
  /\ \A u \in Users :
       LET r == run[u]
       IN  r.alone =>
             /\ r.at # "bus"
             /\ r.tool = "copy" => CopyRight(r)
             /\ r.tool \in {"count", "map"} => CountRight(r)
             /\ r.tool = "seek" => SeekRight(r)
             /\ (r.tool = "copy" /\ r.at \in {"read", "write", "sync", "close", "failure"}) =>
                  IsPrefix(content[r.dst], r.was)
  /\ \A p \in Paths : \E c \in Contents : Len(content[p]) <= Len(c)

(***************************************************************************)
(* src/skip-cp.c: a directory is copied into another; files that are there *)
(* are left as they are.  A run may be killed at any step, and the program *)
(* started again.                                                          *)
(*                                                                         *)
(* A path is a sequence of names, below the input and the output alike.    *)
(***************************************************************************)
CONSTANTS
  Input,        \* what is below the input: by path Dir or the content of the file
  Dir,
  Before,       \* what may be below the output before the first run
  Empty,        \* the content of a new file
  Part,         \* the content of one of which not all was written
  output_name,  \* the last name in the path of the output
  Layouts,      \* how the two directories lie, of the four below
  OutPath,      \* the path of the output below an input that is the root
  input_name,   \* the last name in the path of the input
  MaxRuns       \* bound: runs of the program

(***************************************************************************)
(* The output may be apart from the input, or inside of it, which is       *)
(* refused; around, being the directory that the input is in; or the input *)
(* may be the root of all files, where the test that refuses, which        *)
(* compares strings, does not see that the output is inside.               *)
(***************************************************************************)
AllLayouts == {"apart", "inside", "around", "root"}

VARIABLES
  kpc,        \* "idle", "main", "enter", "dir", "create", "send", "success" or "failure"
  layout,
  created,    \* mkdir made the output directory in this run
  output,     \* what is below the output
  exists,     \* the output directory is there
  kframes,    \* calls of cp_dir, the innermost first: the path and the entries to come
  counter,
  runs,
  old,        \* output at the start, and
  begun,      \* at the start of this run
  skipped,    \* for the properties: paths that a failure kept from being copied well
  stays       \* for them: the output directory was there before all runs, or one that was
              \* killed or could not remove it has left it

kvars == <<kpc, layout, created, output, exists, kframes, counter, runs, old, begun, skipped, stays>>

KInit ==
  /\ kpc = "idle" /\ layout \in Layouts \cap AllLayouts
  /\ created = FALSE /\ exists \in BOOLEAN /\ stays = exists
  /\ \E b \in Before :
       output = IF layout # "around" THEN b
                ELSE [p \in DOMAIN b \cup {<<input_name>>} |-> IF p = <<input_name>> THEN Dir ELSE b[p]]
  /\ DOMAIN output # {} => exists
  /\ kframes = <<>> /\ counter = 0 /\ runs = 0
  /\ old = output /\ begun = output /\ skipped = {}

Entries(path) == {p \in DOMAIN Input : Front(p) = path}
Put(path, what) == output' = [p \in DOMAIN output \cup {path} |-> IF p = path THEN what ELSE output[p]]

\* main: the output directory is made if it is not there.
MakeOutput ==
  /\ kpc \in {"idle", "success", "failure"} /\ runs < MaxRuns
  /\ runs' = runs + 1 /\ counter' = 0 /\ kframes' = <<>> /\ begun' = output
  /\ \/ kpc' = "main" /\ created' = ~exists /\ exists' = TRUE
     \/ ~exists /\ kpc' = "failure" /\ created' = FALSE /\ UNCHANGED exists
  /\ UNCHANGED <<layout, output, old, skipped, stays>>

\* realpath fails: the run ends, and leaves the directory it has made.
NotResolved ==
  /\ kpc = "main" /\ kpc' = "failure"
  /\ stays' = (stays \/ created)
  /\ UNCHANGED <<layout, created, output, exists, kframes, counter, runs, old, begun, skipped>>

\* An output inside of the input is refused, and removed if it has just been made; rmdir may
\* fail and is not asked.
Refuse ==
  /\ kpc = "main" /\ layout = "inside" /\ kpc' = "failure"
  /\ \E removed \in BOOLEAN :
       /\ exists' = (exists /\ ~(created /\ removed))
       /\ stays' = (stays \/ (created /\ ~removed))
  /\ UNCHANGED <<layout, created, output, kframes, counter, runs, old, begun, skipped>>

Resolve ==
  /\ kpc = "main" /\ layout # "inside"
  /\ kpc' = "enter" /\ kframes' = <<[path |-> <<>>, left |-> Entries(<<>>)]>>
  /\ UNCHANGED <<layout, created, output, exists, counter, runs, old, begun, skipped, stays>>

Top == kframes[1]
Below(path) == {p \in DOMAIN Input : IsPrefix(path, p)}

\* cp_dir returns.
Return(frames) == kframes' = Tail(frames) /\ kpc' = IF Len(frames) = 1 THEN "success" ELSE "dir"

\* A directory to make something in.
Place(path) == IF Front(path) = <<>> THEN TRUE ELSE output[Front(path)] = Dir
Made(path) ==
  IF path = <<>> \/ path \in DOMAIN output THEN UNCHANGED output
  ELSE Place(path) /\ Put(path, Dir)

\* The start of cp_dir: its output directory is made, or the whole program ends; the input
\* may not be readable.  (The outermost has its directory.)
EnterDir ==
  /\ kpc = "enter"
  /\ \/ kpc' = "dir" /\ Made(Top.path) /\ UNCHANGED <<kframes, skipped>>
     \/ /\ Made(Top.path)
        /\ Return(kframes) /\ skipped' = skipped \cup Below(Top.path)
     \/ /\ Top.path # <<>> /\ Top.path \notin DOMAIN output
        /\ kpc' = "failure" /\ UNCHANGED <<kframes, output, skipped>>
  /\ UNCHANGED <<layout, created, exists, counter, runs, old, begun, stays>>

\* An entry, in the order of readdir.  At the top the one with the name of the output is
\* left out; the others only if asprintf fails.
Named(p) == Len(p) = 1 /\ p[1] = output_name
Taken(p) == kframes' = <<[Top EXCEPT !.left = @ \ {p}]>> \o Tail(kframes)

SkipEntry ==
  /\ kpc = "dir"
  /\ \E p \in Top.left :
       /\ Taken(p)
       /\ IF Named(p) THEN UNCHANGED skipped ELSE skipped' = skipped \cup Below(p)
  /\ UNCHANGED <<kpc, layout, created, output, exists, counter, runs, old, begun, stays>>

\* readdir fails, which looks like the end of the directory.
ReaddirFails ==
  /\ kpc = "dir" /\ Top.left # {}
  /\ Return(kframes) /\ skipped' = skipped \cup UNION {Below(p) : p \in Top.left}
  /\ UNCHANGED <<layout, created, output, exists, counter, runs, old, begun, stays>>

\* A directory whose path is below that of the output, as all are where the output is around
\* the input, and the output itself by its inode are passed over without a word.
in_output_dir(p) == layout = "around"
same_dir(p) == layout = "root" /\ p = OutPath
SubDir ==
  /\ kpc = "dir"
  /\ \E p \in Top.left :
       /\ Input[p] = Dir /\ ~Named(p)
       /\ IF in_output_dir(p) \/ same_dir(p) THEN Taken(p) /\ UNCHANGED kpc
          ELSE /\ kframes' = <<[path |-> p, left |-> Entries(p)], [Top EXCEPT !.left = @ \ {p}]>> \o Tail(kframes)
               /\ kpc' = "enter"
  /\ UNCHANGED <<layout, created, output, exists, counter, runs, old, begun, skipped, stays>>

\* access finds the file, or it is counted and opened; that may fail.
FileEntry ==
  /\ kpc = "dir"
  /\ \E p \in Top.left :
       /\ Input[p] # Dir /\ ~Named(p)
       /\ IF p \in DOMAIN output THEN Taken(p) /\ UNCHANGED <<kpc, counter, skipped>>
          ELSE /\ counter' = counter + 1
               /\ \/ /\ kpc' = "create" /\ UNCHANGED skipped
                     /\ kframes' = <<[path |-> p, left |-> {}]>> \o <<[Top EXCEPT !.left = @ \ {p}]>> \o Tail(kframes)
                  \/ Taken(p) /\ skipped' = skipped \cup {p} /\ UNCHANGED kpc
  /\ UNCHANGED <<layout, created, output, exists, runs, old, begun, stays>>

Create ==
  /\ kpc = "create"
  /\ \/ Place(Top.path) /\ Put(Top.path, Empty) /\ kpc' = "send" /\ UNCHANGED <<kframes, skipped>>
     \/ /\ kframes' = Tail(kframes) /\ kpc' = "dir" /\ skipped' = skipped \cup {Top.path}
        /\ UNCHANGED output
  /\ UNCHANGED <<layout, created, exists, counter, runs, old, begun, stays>>

\* sendfile, whose result is not looked at.
Send ==
  /\ kpc = "send"
  /\ \/ Put(Top.path, Input[Top.path]) /\ UNCHANGED skipped
     \/ /\ \E some \in {Empty, Part} : Put(Top.path, some)
        /\ skipped' = skipped \cup {Top.path}
  /\ kframes' = Tail(kframes) /\ kpc' = "dir"
  /\ UNCHANGED <<layout, created, exists, counter, runs, old, begun, stays>>

LeaveDir ==
  /\ kpc = "dir" /\ Top.left = {}
  /\ Return(kframes)
  /\ UNCHANGED <<layout, created, output, exists, counter, runs, old, begun, skipped, stays>>

\* The process is killed.
Kill ==
  /\ kpc \notin {"idle", "success", "failure"}
  /\ kpc' = "idle" /\ kframes' = <<>>
  /\ skipped' = IF kpc = "send" THEN skipped \cup {Top.path} ELSE skipped
  /\ stays' = (stays \/ created)
  /\ UNCHANGED <<layout, created, output, exists, counter, runs, old, begun>>

cp_dir ==
  \/ EnterDir
  \/ SkipEntry \/ SubDir \/ FileEntry \/ ReaddirFails
  \/ Create \/ Send
  \/ LeaveDir
KNext == MakeOutput \/ NotResolved \/ Refuse \/ Resolve \/ cp_dir \/ Kill
KSpec == KInit /\ [][KNext]_kvars

-----------------------------------------------------------------------------
(***************************************************************************)
(* Properties.                                                             *)
(***************************************************************************)
\* No run changes or removes what was below the output before the first; what the runs add
\* is below the input as well, at the same path.
OldKept ==
  /\ \A p \in DOMAIN old : p \in DOMAIN output /\ output[p] = old[p]
  /\ \A p \in DOMAIN output \ DOMAIN old : p \in DOMAIN Input

\* A file the runs have made is what it is in the input, except where a run was killed or
\* sendfile was short; it stays so, for the next run finds the file and skips it.
CopiesRight ==
  \A p \in DOMAIN output \ DOMAIN old :
    \/ output[p] = Input[p]
    \/ p \in skipped
    \/ kpc = "send" /\ p = Top.path

\* Where the output is around the input no subdirectory is copied, nor what is in one; where
\* the input is the root, the output is not copied into itself.
Unseen(p) ==
  \/ layout = "around" /\ \E n \in 1..Len(p) : Input[SubSeq(p, 1, n)] = Dir
  \/ layout = "root" /\ IsPrefix(OutPath, p)

\* When no call has failed in any run and one comes to its end, the output has what it had and
\* the whole input but for that, and for the entry at the top with the name of the output; the
\* last run counts the files that were not there.
RunComplete ==
  (kpc = "success" /\ skipped = {}) =>
    /\ DOMAIN output =
         DOMAIN old \cup {p \in DOMAIN Input : ~Named(SubSeq(p, 1, 1)) /\ ~Unseen(p)}
    /\ counter = Cardinality({p \in DOMAIN output \ DOMAIN begun : output[p] # Dir})

\* An output directory inside of the input gets nothing, and is there between the runs only if
\* it was before, or a run that was killed or could not remove it has left it.
RefusedClean ==
  layout = "inside" =>
    /\ output = old
    /\ kpc \in {"idle", "success", "failure"} => (exists <=> stays)

\* The copy of a directory: old files are kept, new ones whole, and a refusal removes what it
\* has made if it can.
SkipInv == OldKept /\ CopiesRight /\ RunComplete /\ RefusedClean

(***************************************************************************)
(* src/dir-sort.c and src/dir.c: the entries of one directory, in the      *)
(* order of their names and as readdir gives them.  A list of nodes is the *)
(* sequence of its names; a name is its rank in the order of strcmp.       *)
(***************************************************************************)
CONSTANTS
  Names,     \* ranks of the names
  Kinds      \* of "file", "dir", and "unknown" to readdir

VARIABLES
  rpc,       \* "open", "read", "sort", "print", "success" or "failure"
  entries,   \* the directory: names with their kinds
  isDir,     \* those that are directories; of the unknown only stat can tell
  toRead,    \* what readdir has not given
  nodes,     \* the list, with the types
  kept,      \* nodes allocated and not freed
  shown,     \* lines printed: names, and whether in brackets
  cut        \* for the properties: readdir has failed before the last entry

rvars == <<rpc, entries, isDir, toRead, nodes, kept, shown, cut>>

RInit ==
  /\ rpc = "open"
  /\ entries \in UNION {[S -> Kinds] : S \in SUBSET Names}
  /\ isDir \in SUBSET DOMAIN entries
  /\ \A r \in DOMAIN entries : entries[r] # "unknown" => (r \in isDir <=> entries[r] = "dir")
  /\ toRead = {} /\ nodes = <<>> /\ kept = {} /\ shown = <<>> /\ cut = FALSE

OpenDir ==
  /\ rpc = "open"
  /\ \/ rpc' = "read" /\ toRead' = DOMAIN entries
     \/ rpc' = "failure" /\ UNCHANGED toRead
  /\ UNCHANGED <<entries, isDir, nodes, kept, shown, cut>>

\* dir_type: fstatat may fail, and then an unknown entry is taken for a file.
Types(r) ==
  CASE entries[r] = "dir" -> {TRUE}
    [] entries[r] = "file" -> {FALSE}
    [] entries[r] = "unknown" -> {FALSE} \cup {(r \in isDir)}

ReadEntry ==
  /\ rpc = "read"
  /\ \E r \in toRead :
       /\ toRead' = toRead \ {r}
       /\ \/ /\ \E t \in Types(r) : nodes' = Append(nodes, [name |-> r, type_dir |-> t])
             /\ kept' = kept \cup {r} /\ UNCHANGED rpc
          \/ rpc' = "failure" /\ kept' = kept \ {nodes[i].name : i \in DOMAIN nodes} /\ UNCHANGED nodes
  /\ UNCHANGED <<entries, isDir, shown, cut>>

\* merge takes the left node if the names are equal; what remains of one list is behind.
Turn(s, k) ==
  IF s.right = <<>> \/ (s.left # <<>> /\ s.left[1].name <= s.right[1].name)
  THEN [left |-> Tail(s.left), right |-> s.right, out |-> Append(s.out, s.left[1])]
  ELSE [left |-> s.left, right |-> Tail(s.right), out |-> Append(s.out, s.right[1])]
merge(left, right) ==
  FoldLeft(Turn, [left |-> left, right |-> right, out |-> <<>>], [k \in 1..(Len(left) + Len(right)) |-> k]).out

\* get_middle: the slow pointer is at the last node of the first half.
get_middle(list) == (Len(list) + 1) \div 2

\* merge_sort, as the lists of its calls over the parts [from, to] of the list.
merge_sort(list) ==
  LET n == Len(list)
      sorted[i \in 1..(n + 1), j \in 0..n] ==
        LET part == SubSeq(list, i, j)
            m == i + get_middle(part) - 1
        IN  IF Len(part) <= 1 THEN part ELSE merge(sorted[i, m], sorted[m + 1, j])
  IN  sorted[1, n]

\* At the end of the directory, or a failure of readdir, which looks the same.
Sort ==
  /\ rpc = "read"
  /\ cut' = (toRead # {}) /\ toRead' = {}
  /\ rpc' = "print" /\ nodes' = merge_sort(nodes)
  /\ UNCHANGED <<entries, isDir, kept, shown>>

Line(node) == <<node.name, node.type_dir>>
PrintAndFree ==
  /\ rpc = "print"
  /\ rpc' = "success"
  /\ shown' = [i \in DOMAIN nodes |-> Line(nodes[i])]
  /\ kept' = kept \ {nodes[i].name : i \in DOMAIN nodes}
  /\ UNCHANGED <<entries, isDir, toRead, nodes, cut>>

\* dir.c prints an entry as it reads it, and does not ask for what is unknown.
List ==
  /\ rpc = "open"
  /\ rpc' = "success"
  /\ \E some \in SUBSET DOMAIN entries : \E s \in SetToSeqs(some) :
       /\ shown' = [i \in DOMAIN s |-> <<s[i], entries[s[i]] = "dir">>]
       /\ cut' = (some # DOMAIN entries)
  /\ UNCHANGED <<entries, isDir, toRead, nodes, kept>>

RNext == OpenDir \/ ReadEntry \/ Sort \/ PrintAndFree \/ List
RSpec == RInit /\ [][RNext]_rvars

-----------------------------------------------------------------------------
\* What readdir gave, which is every entry unless it failed, is printed once, by dir-sort in the
\* order of the names whatever order they were read in; a directory in brackets, and no file;
\* and no node is kept.
DirSortInv ==
  /\ rpc = "success" =>
       /\ Len(shown) = Cardinality({shown[i][1] : i \in DOMAIN shown})
       /\ {shown[i][1] : i \in DOMAIN shown} \subseteq DOMAIN entries
       /\ ~cut => Len(shown) = Cardinality(DOMAIN entries)
       /\ \A i \in DOMAIN shown : /\ shown[i][2] => shown[i][1] \in isDir
                                  /\ entries[shown[i][1]] = "dir" => shown[i][2]
       /\ nodes # <<>> => \A i, j \in DOMAIN shown : i < j => shown[i][1] < shown[j][1]
  /\ rpc \in {"success", "failure"} => kept = {}

(***************************************************************************)
(* src/binary_search/main.c: the words of a dictionary are loaded into an  *)
(* array that doubles when it is full and sorted; then the words of text   *)
(* files, read block by block, are looked up.  The search is that of the   *)
(* module Sorting; here it finds what the array holds.                     *)
(***************************************************************************)
CONSTANTS
  RawLines,     \* lines of dictionaries, as sequences of characters
  SpellTexts,   \* the text files, of "a", "b", "A", "-", "nl" and "nul"
  MaxLine,      \* MAX_LINE
  Initial,      \* the first arr_size
  MaxWords,     \* bound: lines in a dictionary
  MaxFiles      \* bound: text files of a call

VARIABLES
  spc,          \* "load", "open", "block", "closed", "success", "failure" or "undefined"
  arr_size, index,
  set_cells,    \* the cells of buffer that have been given a value
  dict,         \* the words in the array: a sequence, and a set once it is sorted
  nfile, text, rest, word, line,
  reported      \* of this file: words said to be wrong, with their lines

spvars == <<spc, arr_size, index, set_cells, dict, nfile, text, rest, word, line, reported>>
array == <<arr_size, index, set_cells, dict>>
reading == <<nfile, text, rest, word, line, reported>>

\* f_getline: what does not fit is dropped, as is all from a carriage return on.
UpTo(s, c) == IF c \in ToSet(s) THEN SubSeq(s, 1, SelectInSeq(s, LAMBDA x : x = c) - 1) ELSE s
f_getline(raw) == UpTo(SubSeq(raw, 1, IF Len(raw) < MaxLine THEN Len(raw) ELSE MaxLine - 1), "cr")

SpInit ==
  /\ spc = "load"
  /\ arr_size = Initial /\ index = 0 /\ set_cells = Initial /\ dict = <<>>
  /\ nfile = 0 /\ text = <<>> /\ rest = <<>> /\ word = <<>> /\ line = 1 /\ reported = <<>>

\* free_buffer(buffer, n) is defined if all n cells have a value.
FreeBuffer(n, then) == spc' = IF n <= set_cells THEN then ELSE "undefined"

\* realloc fails: the array has its old size.
GrowFails ==
  /\ spc = "load" /\ index < MaxWords /\ index >= arr_size
  /\ arr_size' = arr_size * 2
  /\ FreeBuffer(arr_size' \div 2, "failure")
  /\ UNCHANGED <<index, set_cells, dict, reading>>

\* A line of the dictionary; an empty one takes no cell, but may make the array grow.
GrownLate == IF index > arr_size THEN arr_size * 2 ELSE arr_size
Grown == IF index >= arr_size THEN arr_size * 2 ELSE arr_size
LoadLine ==
  /\ spc = "load" /\ index < MaxWords
  /\ arr_size' = Grown
  /\ set_cells' = IF Grown > set_cells THEN Grown ELSE set_cells
  /\ \E raw \in RawLines :
       LET copied == f_getline(raw)
       IN  \/ /\ dict' = IF copied = <<>> THEN dict ELSE Append(dict, copied)
              /\ index' = Len(dict') /\ UNCHANGED spc
           \/ /\ copied # <<>>
              /\ spc' = IF Grown <= set_cells' THEN "failure" ELSE "undefined"
              /\ UNCHANGED <<dict, index>>
  /\ UNCHANGED reading

\* The end of the dictionary; qsort.
Loaded ==
  /\ spc = "load"
  /\ spc' = "open" /\ dict' = ToSet(dict)
  /\ UNCHANGED <<arr_size, index, set_cells, reading>>

-----------------------------------------------------------------------------
NoFileLeft ==
  /\ spc = "open" /\ nfile > 0
  /\ FreeBuffer(arr_size, "success")
  /\ UNCHANGED <<array, reading>>

OpenText ==
  /\ spc = "open" /\ nfile < MaxFiles
  /\ nfile' = nfile + 1
  /\ \/ FreeBuffer(arr_size, "failure") /\ UNCHANGED <<text, rest>>
     \/ spc' = "block" /\ text' \in SpellTexts /\ rest' = text'
  /\ word' = <<>> /\ line' = 1 /\ reported' = <<>>
  /\ UNCHANGED array

Lower(c) == IF c = "A" THEN "a" ELSE c
isalnum(c) == Lower(c) \in {"a", "b"}
spell(w) == w \in dict
Said(s) == IF Len(s.word) > 1 /\ ~spell(s.word) THEN Append(s.reported, <<s.word, s.line>>) ELSE s.reported

\* A character: the line is counted before the word it ends is looked up.
Char(s, c) ==
  LET t == [s EXCEPT !.line = IF c = "nl" THEN @ + 1 ELSE @]
  IN  IF isalnum(c)
      THEN [t EXCEPT !.word = IF Len(@) < MaxLine - 1 THEN Append(@, Lower(c)) ELSE @]
      ELSE [t EXCEPT !.reported = Said(t), !.word = <<>>]

\* fread fills a block; what is behind a zero byte in it is not looked at.
Block == SubSeq(rest, 1, IF Len(rest) < MaxLine - 1 THEN Len(rest) ELSE MaxLine - 1)
ReadText ==
  /\ spc = "block" /\ rest # <<>>
  /\ LET s == FoldLeft(Char, [word |-> word, line |-> line, reported |-> reported], UpTo(Block, "nul"))
     IN  word' = s.word /\ line' = s.line /\ reported' = s.reported
  /\ rest' = SubSeq(rest, Len(Block) + 1, Len(rest))
  /\ UNCHANGED <<spc, array, nfile, text>>

EndOfText ==
  /\ spc = "block" /\ rest = <<>>
  /\ spc' = "closed"
  /\ reported' = Said([word |-> word, line |-> line, reported |-> reported])
  /\ UNCHANGED <<array, nfile, text, rest, word, line>>

NextText ==
  /\ spc = "closed"
  /\ spc' = "open"
  /\ text' = <<>> /\ word' = <<>> /\ line' = 1 /\ reported' = <<>>
  /\ UNCHANGED <<array, nfile, rest>>

SpNext ==
  \/ GrowFails \/ LoadLine \/ Loaded \/ NoFileLeft \/ OpenText \/ ReadText \/ EndOfText \/ NextText
SpSpec == SpInit /\ [][SpNext]_spvars

-----------------------------------------------------------------------------
(***************************************************************************)
(* Properties.                                                             *)
(***************************************************************************)
\* The words of a text, from their definition: the longest runs of letters, each with the
\* line its last letter is on and whether a newline is behind it.
WordRuns ==
  LET n == Len(text)
      isRun(i, j) == /\ \A k \in i..j : isalnum(text[k])
                     /\ i = 1 \/ ~isalnum(text[i-1])
                     /\ j = n \/ ~isalnum(text[j+1])
      first == SelectSeq([k \in 1..n |-> k], LAMBDA i : \E j \in i..n : isRun(i, j))
      until(i) == CHOOSE j \in i..n : isRun(i, j)
      newlines(j) == Len(SelectSeq(SubSeq(text, 1, j), LAMBDA c : c = "nl"))
  IN  [k \in DOMAIN first |->
         LET i == first[k]
             j == until(i)
             last == IF j - i + 1 < MaxLine THEN j ELSE i + MaxLine - 2
         IN  <<[m \in 1..(last - i + 1) |-> Lower(text[i + m - 1])],
               newlines(j) + 1 + (IF j < n /\ text[j+1] = "nl" THEN 1 ELSE 0)>>]

\* For a text without zero bytes: the words that are reported are those of two letters or
\* more that are not in the dictionary, wherever a block ends; with the line they are on, or
\* the one behind it if the word ends its line.  What was freed had been given a value.
SpellingInv ==
  /\ spc # "undefined"
  /\ spc = "load" => index = Len(dict)
  /\ index <= arr_size
  /\ (spc = "closed" /\ "nul" \notin ToSet(text)) =>
       reported = SelectSeq(WordRuns, LAMBDA r : Len(r[1]) > 1 /\ r[1] \notin dict)
=============================================================================
