------------------------------ MODULE MCPrograms ------------------------------
(***************************************************************************)
(* Programs of the repository that have nothing to do with each other, for *)
(* TLC: each behaviour is one of a program.                                *)
(***************************************************************************)
EXTENDS Cipher, Download, TLC

CONSTANTS
  f1, f2, k1, k2,               \* files and keys of the cipher
  t1, t2,                       \* who uses a tool
  Null, Leaf,
  Plain, Arguments, Directories, FilesBefore, CheckedTexts,
  Parts

VARIABLES
  part,
  wprogram, stdin, wpc, file, wrest, wbuffer, word, cap, table, tokens, unique, global, total,
  uniqueTotal, errors, listing, given,
  lpc, lprogram, args, lfile, next, heap, owned, out, opened,
  fpc, input, output, fkey, frest, position, disk, kind, faulty, ftext, origin, runs,
  reader, tpc, link, alive, count, tword, slot, curr, stack, tcap, printed, ttotal, letters, size,
  held, ending, counted, answers, found, tgiven, nomem,
  npc, frames, head, nnext, isFile, nalive, todo, sorted, nleft, nright, first, last, node,
  nprinted, listed,
  content, run, calls,
  kpc, layout, created, koutput, exists, kframes, counter, kruns, old, begun, skipped, stays,
  rpc, entries, isDir, toRead, nodes, kept, rshown, cut,
  spc, arr_size, index, set_cells, dict, nfile, stext, srest, sword, sline, reported

words == <<wprogram, stdin, wpc, file, wrest, wbuffer, word, cap, table, tokens, unique, global, total,
           uniqueTotal, errors, listing, given>>
lineheap == <<lpc, lprogram, args, lfile, next, heap, owned, out, opened>>
cipherfile == <<fpc, input, output, fkey, frest, position, disk, kind, faulty, ftext, origin, runs>>
wordtree == <<reader, tpc, link, alive, count, tword, slot, curr, stack, tcap, printed, ttotal, letters,
              size, held, ending, counted, answers, found, tgiven, nomem>>
names == <<npc, frames, head, nnext, isFile, nalive, todo, sorted, nleft, nright, first, last, node,
           nprinted, listed>>
tools == <<content, run, calls>>
skipcopy == <<kpc, layout, created, koutput, exists, kframes, counter, kruns, old, begun, skipped, stays>>
dirsort == <<rpc, entries, isDir, toRead, nodes, kept, rshown, cut>>
spelling == <<spc, arr_size, index, set_cells, dict, nfile, stext, srest, sword, sline, reported>>
text_programs == <<words, lineheap, wordtree, names>>
file_programs == <<tools, skipcopy, dirsort, spelling>>

\* Blocks by their sixteen hexadecimal digits, and examples of the standard that the
\* literature and the tests of other implementations have.
BitsOf(digits) == [p \in 1..64 |-> (digits[((p - 1) \div 4) + 1] \div 2^(3 - ((p - 1) % 4))) % 2]
Parities == <<0, 1, 0, 1, 0, 1, 0, 1, 0, 1, 0, 1, 0, 1, 0, 1>>
KeyBlocks == <<
  BitsOf(<<1, 3, 3, 4, 5, 7, 7, 9, 9, 11, 11, 12, 13, 15, 15, 1>>),
  BitsOf(<<7, 12, 10, 1, 1, 0, 4, 5, 4, 10, 1, 10, 6, 14, 5, 7>>),
  BitsOf(Parities)>>
Examples == <<
  [text |-> BitsOf(<<0, 1, 2, 3, 4, 5, 6, 7, 8, 9, 10, 11, 12, 13, 14, 15>>),
   cipher |-> BitsOf(<<8, 5, 14, 8, 1, 3, 5, 4, 0, 15, 0, 10, 11, 4, 0, 5>>)],
  [text |-> BitsOf(<<0, 1, 10, 1, 13, 6, 13, 0, 3, 9, 7, 7, 6, 7, 4, 2>>),
   cipher |-> BitsOf(<<6, 9, 0, 15, 5, 11, 0, 13, 9, 10, 2, 6, 9, 3, 9, 11>>)],
  [text |-> BitsOf(<<8, 0, 0, 0, 0, 0, 0, 0, 0, 0, 0, 0, 0, 0, 0, 0>>),
   cipher |-> BitsOf(<<9, 5, 15, 8, 10, 5, 14, 5, 13, 13, 3, 1, 13, 9, 0, 0>>)]>>
MCTexts == {Examples[e].text : e \in DOMAIN Examples} \cup {[p \in 1..64 |-> IF p % 3 = 1 THEN 1 ELSE 0]}
MCSchedule == [k \in DOMAIN KeyBlocks |-> [j \in 1..16 |-> DES_Subkey(KeyBlocks[k], j)]]
MCSubkeys == UNION {{MCSchedule[k][j] : j \in 1..16} : k \in DOMAIN KeyBlocks}
MCMix(r, k, p) == DES_Mix(r, k, p)

\* Texts with words that begin, end and grow anywhere in blocks of two, the buffer up to
\* twice, and words that come again and out of their order.
MCContents ==
  UNION {[1..n -> {0, 1, 2}] : n \in 0..2} \cup [1..3 -> {0, 1}] \cup
  {<<2, 1, 1, 0>>, <<1, 1, 1, 0>>, <<1, 1, 1, 0, 2>>, <<1, 1, 1, 1, 2>>, <<2, 0, 1, 0, 2>>,
   <<2, 1, 0, 2, 0, 1>>}
Wrd == INSTANCE WordCount WITH
  Programs <- {"hash-sorted", "hash-count", "oa-count", "match"}, Letters <- {1, 2}, Sep <- 0,
  Files <- 2, Contents <- MCContents, Block <- 2, program <- wprogram, pc <- wpc, rest <- wrest,
  buffer <- wbuffer
ASSUME Wrd!WordAssumption

\* Files of up to two lines, of which the last may lack its newline.
L(f, r, g) == [form |-> f, rank |-> r, long |-> g, ended |-> TRUE]
MCLines == {L("good", 1, FALSE), L("good", 2, FALSE), L("good", 2, TRUE), L("nocolon", 1, FALSE),
            L("range", 1, FALSE)}
LastLines == MCLines \cup
  {[L("good", 1, FALSE) EXCEPT !.ended = FALSE], [L("good", 2, TRUE) EXCEPT !.ended = FALSE]}
LineFiles == {<<>>} \cup {<<x>> : x \in LastLines} \cup {<<x, y>> : x \in MCLines, y \in LastLines}
MCArguments == {<<f>> : f \in LineFiles} \cup {<<f, g>> : f, g \in LineFiles}
Lin == INSTANCE LineHeap WITH
  Programs <- {"pqueue", "scores", "lines"}, pc <- lpc, program <- lprogram, file <- lfile
ASSUME Lin!ArgumentsAssumption

\* Texts of all lengths around a block and two, ending like a padding and not.
MCPlain == {<<>>, <<3>>, <<1>>, <<0, 1>>, <<1, 2>>, <<3, 3, 1>>, <<2, 2, 2, 2>>}
Fil == INSTANCE CipherFile WITH
  Names <- {f1, f2}, Keys <- {k1, k2}, Width <- 2, MaxByte <- 3, MaxRuns <- 2, pc <- fpc, key <- fkey,
  rest <- frest, text <- ftext
ASSUME Fil!CipherFileAssumption

MCHeaders ==
  {<<"field">>, <<"length">>, <<"badlength">>, <<"length", "crlf", "field">>,
   <<"field", "crlf", "length">>, <<"badlength", "crlf", "length", "crlf", "field">>}
MCBodies == {<<>>, <<"x">>, <<"x", "crlf", "crlf">>, <<"crlf", "crlf", "y">>, <<"x", "y", "x", "y">>}
MCAnswers ==
  {[stream |-> h \o <<"crlf", "crlf">> \o t, length |-> n] : h \in MCHeaders, t \in MCBodies, n \in 0..4}
    \cup {[stream |-> h, length |-> 0] : h \in MCHeaders}
ASSUME DownloadAssumption /\ ProgressAssumption

\* Five entries in all orders: in one directory, and in directories within each other.
F(r) == [rank |-> r, inside |-> Leaf]
D(r, s) == [rank |-> r, inside |-> s]
MCDirectories ==
  {<<>>, <<F(1)>>, <<D(1, <<>>), D(2, <<D(3, <<>>)>>), F(4)>>} \cup
  UNION {{[n \in 1..5 |-> F(p[n])],
          <<F(p[1]), D(p[2], <<F(p[3]), F(p[4])>>), F(p[5])>>,
          <<D(p[1], <<F(p[2]), D(p[3], <<F(p[4])>>), F(p[5])>>)>>} : p \in Permutations(1..5)}
Tre == INSTANCE WordTree WITH
  Readers <- {"count-words", "tree"}, Words <- 1..4, StackSize <- 1, MaxWords <- 5, MaxWord <- 2,
  Spelling <- <<<<1>>, <<1, 1, 1>>, <<1, 2>>, <<2>>>>, Letters <- {1, 2, 3}, Capitals <- 3 :> 1,
  Wanted <- 2, pc <- tpc, word <- tword, cap <- tcap, total <- ttotal, given <- tgiven,
  answer <- answers,
  Ranks <- 1..5, File <- Leaf, next <- nnext, left <- nleft, right <- nright

\* A directory within a directory, which is the output where the input is the root, and one at
\* the top with the name of the output; of the files some are there before, from an earlier run
\* or not.
MCInput == <<"f">> :> "1" @@ <<"d">> :> "dir" @@ <<"d", "g">> :> "2" @@ <<"d", "o">> :> "dir" @@
           <<"o">> :> "dir" @@ <<"o", "h">> :> "3"
MCBefore == {<<>>, <<"d">> :> "old", <<"f">> :> "old",
             <<"d">> :> "dir" @@ <<"d", "g">> :> "old" @@ <<"d", "z">> :> "mine"}
RawLines == {<<>>, <<"a">>, <<"b", "a", "cr">>, <<"a", "b", "a">>, <<"a", "b", "a", "b">>}
MCChecked ==
  {t \in UNION {[1..n -> {"a", "A", "b", "-", "nl"}] : n \in 0..4} :
     \E p, q \in DOMAIN t : t[p] = "b" /\ t[q] \in {"nl", "A"}} \cup
  UNION {[1..n -> {"a", "nul", "b"}] : n \in 1..3}
Tls == INSTANCE FileTools WITH
  Users <- {t1, t2}, Tools <- {"copy", "count", "seek", "map"}, Paths <- {1, 2},
  Contents <- {<<>>, <<1, 0>>, <<1, 1, 0>>}, Values <- 2, Letters <- {1}, BufferSize <- 2, Page <- 2,
  MaxCalls <- 1,
  Input <- MCInput, Dir <- "dir", Before <- FilesBefore, Empty <- "", Part <- "part",
  output_name <- "o", Layouts <- {"apart", "inside", "around", "root"}, OutPath <- <<"d", "o">>, input_name <- "i", MaxRuns <- 2, output <- koutput, runs <- kruns,
  Names <- 1..3, Kinds <- {"file", "dir", "unknown"}, shown <- rshown,
  SpellTexts <- CheckedTexts, MaxLine <- 4, Initial <- 1, MaxWords <- 3, MaxFiles <- 2,
  text <- stext, rest <- srest, word <- sword, line <- sline

\* What a part may begin with is the same in the behaviours of all others.
AllInit ==
  /\ part \in Parts
  /\ CipherInit /\ (part # "cipher" => text = CHOOSE t \in Texts : TRUE)
  /\ (part # "cipher" => key = 1)
  /\ Wrd!Init /\ (part # "words" => wprogram = "match")
  /\ Lin!Init
  /\ Fil!Init /\ (part # "cipherfile" => input = f1 /\ fkey = k1 /\ \A n \in DOMAIN disk : disk[n] = NoFile)
  /\ DownloadInit /\ BarInit /\ (part # "progress" => bars = "loop")
  /\ Tre!TreeInit /\ (part # "wordtree" => reader = "tree") /\ Tre!NamesInit
  /\ Tls!TInit /\ (part # "tools" => \A p \in DOMAIN content : content[p] = <<>>)
  /\ Tls!KInit /\ (part # "skipcopy" => layout = "apart" /\ koutput = <<>> /\ exists)
  /\ Tls!RInit /\ (part # "dirsort" => entries = <<>>)
  /\ Tls!SpInit

Only(which, Step) == part = which /\ UNCHANGED part /\ Step

AllNext ==
  \/ Only("cipher", CipherNext) /\ UNCHANGED <<cipherfile, downloadvars, barvars, text_programs, file_programs>>
  \/ Only("words", Wrd!Next) /\ UNCHANGED <<cipherVars, cipherfile, downloadvars, barvars, lineheap, wordtree, names, file_programs>>
  \/ Only("lineheap", Lin!Next) /\ UNCHANGED <<cipherVars, cipherfile, downloadvars, barvars, words, wordtree, names, file_programs>>
  \/ Only("cipherfile", Fil!Next) /\ UNCHANGED <<cipherVars, downloadvars, barvars, text_programs, file_programs>>
  \/ Only("download", DownloadNext) /\ UNCHANGED <<cipherVars, cipherfile, barvars, text_programs, file_programs>>
  \/ Only("progress", BarNext) /\ UNCHANGED <<cipherVars, cipherfile, downloadvars, text_programs, file_programs>>
  \/ Only("wordtree", Tre!TreeNext) /\ UNCHANGED <<cipherVars, cipherfile, downloadvars, barvars, words, lineheap, names, file_programs>>
  \/ Only("names", Tre!NamesNext) /\ UNCHANGED <<cipherVars, cipherfile, downloadvars, barvars, words, lineheap, wordtree, file_programs>>
  \/ Only("tools", Tls!TNext) /\ UNCHANGED <<cipherVars, cipherfile, downloadvars, barvars, text_programs, skipcopy, dirsort, spelling>>
  \/ Only("skipcopy", Tls!KNext) /\ UNCHANGED <<cipherVars, cipherfile, downloadvars, barvars, text_programs, tools, dirsort, spelling>>
  \/ Only("dirsort", Tls!RNext) /\ UNCHANGED <<cipherVars, cipherfile, downloadvars, barvars, text_programs, tools, skipcopy, spelling>>
  \/ Only("spelling", Tls!SpNext) /\ UNCHANGED <<cipherVars, cipherfile, downloadvars, barvars, text_programs, tools, skipcopy, dirsort>>

AllSpec ==
  AllInit /\ [][AllNext]_<<part, cipherVars, cipherfile, downloadvars, barvars, text_programs, file_programs>>

\* Words, lines and names of files come out once, with their counts and in their order,
\* wherever blocks end and whatever fails, and what holds them is freed.
WordsRight == Wrd!CountsRight /\ Lin!LinesRight /\ Tre!TreeRight /\ Tre!NamesRight

\* The blocks of the examples become what the standard says they become under their keys.
AsTheStandard ==
  \A e \in DOMAIN Examples : (pc = "cipher" /\ key = e /\ text = Examples[e].text) => target = Examples[e].cipher

\* The cipher is the one of the standard, and deciphering a file that was enciphered with the
\* same key gives its text back.
EncryptRight == AsTheStandard /\ Fil!FileRestored

\* The tools on files and directories do their work where nobody disturbs them, destroy nothing
\* that was there, and say nothing is done that is not.
FilesRight == Tls!ToolsInv /\ Tls!SkipInv /\ Tls!DirSortInv /\ Tls!SpellingInv
=============================================================================
