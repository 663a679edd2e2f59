------------------------------- MODULE Huffman -------------------------------
(***************************************************************************)
(* The compressor of compression/: the Huffman code of one block, and the  *)
(* program that writes and reads files of such blocks.                     *)
(***************************************************************************)
EXTENDS Naturals, SequencesExt, FiniteSetsExt

(***************************************************************************)
(* huffman_compress and huffman_decompress of src/compression/huffman.c on *)
(* one block.  Both build the tree from the table of frequencies, with the *)
(* heap; the second has the table from the header of the block, so that it *)
(* must break every tie the way the first did.  Memory may run out at each *)
(* allocation.                                                             *)
(*                                                                         *)
(* A code is the sequence of bits on the way from the root to its leaf.    *)
(* The header is a record; the widths of its fields are left out, as a     *)
(* block has 65536 bytes at most (main.c:8).                               *)
(***************************************************************************)
CONSTANTS
  Bytes,     \* numbers from 1 up
  Blocks,    \* the blocks looked at
  MaxDepth   \* 32: deeper leaves get no code

\* A leaf at depth d takes at least as many bytes as the (d + 2)nd Fibonacci number.
Fibonacci == LET f[n \in Nat] == IF n <= 2 THEN 1 ELSE f[n-1] + f[n-2] IN f
BlocksAssumption ==
  /\ MaxDepth \in Nat /\ Bytes \subseteq Nat \ {0}
  /\ \A b \in Blocks : b \in Seq(Bytes) /\ Len(b) \in 1..(Fibonacci[MaxDepth + 3] - 1)

VARIABLES
  pc,        \* "idle", "build", "packed", "decode", "done", "nomem" or "corrupt"
  side,      \* "compress" or "decompress"
  block, freqs,
  node,      \* the tree nodes allocated, by number; children before parents
  heap,      \* of build_huff_tree
  packed,    \* what huffman_compress returns
  root, current, bit, out   \* of huffman_decompress

codecvars == <<pc, side, block, freqs, node, heap, packed, root, current, bit, out>>
result == <<root, current, bit, out>>

NoTree == [n \in {} |-> 0]
NoFreqs == [s \in {} |-> 0]
Unpacked == [size |-> 0, freqs |-> NoFreqs, bits |-> <<>>]

CodecInit ==
  /\ pc = "idle" /\ side = "compress"
  /\ block = <<>> /\ freqs = NoFreqs
  /\ node = NoTree /\ heap = <<>>
  /\ packed = Unpacked
  /\ root = 0 /\ current = 0 /\ bit = 0 /\ out = <<>>

\* huff_compare: the lighter tree is above.
Lighter(a, b) == a.freq < b.freq
LOCAL H == INSTANCE HeapOps WITH Before <- Lighter

Inner(n) == node[n].left # 0
Subtree(n) ==
  LET below[m \in DOMAIN node] ==
        {m} \cup (IF Inner(m) THEN below[node[m].left] \cup below[node[m].right] ELSE {})
  IN  below[n]

\* destroy_tree on each of these trees.
Destroy(roots) ==
  node' = [n \in DOMAIN node \ UNION {Subtree(r) : r \in roots} |-> node[n]]
InHeap == {heap[i].id : i \in DOMAIN heap}

-----------------------------------------------------------------------------
(***************************************************************************)
(* The tree: build_huff_tree.                                              *)
(***************************************************************************)
Count(b) == [s \in ToSet(b) |-> Cardinality({i \in DOMAIN b : b[i] = s})]

Compress ==
  /\ pc = "idle"
  /\ pc' = "build"
  /\ block' \in Blocks /\ freqs' = Count(block')
  /\ UNCHANGED <<side, node, heap, packed, result>>

\* Symbols that have no leaf yet.
Pending == DOMAIN freqs \ {node[n].sym : n \in DOMAIN node}
Fresh == Cardinality(DOMAIN node) + 1

\* createNode, and heap_insert into what is left of the heap.
Create(h, sym, freq, left, right) ==
  /\ node' = [n \in DOMAIN node \cup {Fresh} |->
                IF n = Fresh THEN [sym |-> sym, freq |-> freq, left |-> left, right |-> right]
                ELSE node[n]]
  /\ heap' = H!Inserted(h, [id |-> Fresh, freq |-> freq])

AddLeaf ==
  /\ pc = "build" /\ Pending # {}
  /\ LET s == Min(Pending) IN Create(heap, s, freqs[s], 0, 0)
  /\ UNCHANGED <<pc, side, block, freqs, packed, result>>

\* The two lightest trees, and the heap without them.
Left == heap[1]
Right == H!Extracted(heap)[1]
Others == H!Extracted(H!Extracted(heap))

Merge ==
  /\ pc = "build" /\ Pending = {} /\ Len(heap) > 1
  /\ Create(Others, 0, Left.freq + Right.freq, Left.id, Right.id)
  /\ UNCHANGED <<pc, side, block, freqs, packed, result>>

\* What the program frees when an allocation fails: the two trees it has taken out, if
\* it is at a merge, and the heap.
FreeOthers == IF Pending = {} THEN {Others[i].id : i \in DOMAIN Others} ELSE InHeap
FreeAll == InHeap

BuildFails ==
  /\ pc = "build" /\ (Pending # {} \/ Len(heap) > 1)
  /\ pc' = "nomem"
  /\ Destroy(FreeAll)
  /\ heap' = <<>>
  /\ UNCHANGED <<side, block, freqs, packed, result>>

Built == pc = "build" /\ Pending = {} /\ Len(heap) = 1
Top == heap[1].id

-----------------------------------------------------------------------------
(***************************************************************************)
(* Writing: huffman_compress.                                              *)
(***************************************************************************)
\* build_codes: for every symbol the way to its leaf, or no code at all.
Way ==
  LET way[n \in DOMAIN node] ==
        IF n = Top THEN <<>>
        ELSE LET p == CHOOSE q \in DOMAIN node : n \in {node[q].left, node[q].right}
             IN  Append(way[p], IF node[p].left = n THEN 0 ELSE 1)
  IN  way

CodesAlone == [s \in DOMAIN freqs |-> <<0>>]
CodesOfTree ==
  [s \in DOMAIN freqs |->
     LET w == Way[CHOOSE n \in DOMAIN node : node[n].sym = s]
     IN  IF Len(w) <= MaxDepth THEN w ELSE <<>>]
Codes == IF Cardinality(DOMAIN freqs) = 1 THEN CodesAlone ELSE CodesOfTree

Write ==
  /\ Built /\ side = "compress"
  /\ pc' = "packed"
  /\ packed' = [size |-> Len(block), freqs |-> freqs,
                bits |-> LET codes == Codes
                         IN  FlattenSeq([i \in DOMAIN block |-> codes[block[i]]])]
  /\ Destroy({Top}) /\ heap' = <<>>
  /\ UNCHANGED <<side, block, freqs, result>>

\* calloc, or on the other side malloc, of the result fails.
ResultFails ==
  /\ Built
  /\ pc' = "nomem"
  /\ Destroy({Top}) /\ heap' = <<>>
  /\ UNCHANGED <<side, block, freqs, packed, result>>

-----------------------------------------------------------------------------
(***************************************************************************)
(* Reading: huffman_decompress.                                            *)
(***************************************************************************)
Decompress ==
  /\ pc = "packed"
  /\ pc' = "build" /\ side' = "decompress"
  /\ freqs' = packed.freqs
  /\ UNCHANGED <<block, node, heap, packed, result>>

FillAlone ==
  /\ Built /\ side = "decompress" /\ ~Inner(Top)
  /\ pc' = "done"
  /\ out' = [i \in 1..packed.size |-> node[Top].sym]
  /\ Destroy({Top}) /\ heap' = <<>>
  /\ UNCHANGED <<side, block, freqs, packed, root, current, bit>>

StartDecode ==
  /\ Built /\ side = "decompress" /\ Inner(Top)
  /\ pc' = "decode"
  /\ root' = Top /\ current' = Top /\ heap' = <<>>
  /\ bit' = 0 /\ out' = <<>>
  /\ UNCHANGED <<side, block, freqs, node, packed>>

\* A child is never null: inner nodes have two.
Child == IF packed.bits[bit + 1] = 0 THEN node[current].left ELSE node[current].right
Sought == Len(out) < packed.size

DecodeBit ==
  /\ pc = "decode" /\ Sought /\ bit < Len(packed.bits)
  /\ bit' = bit + 1
  /\ out' = IF Inner(Child) THEN out ELSE Append(out, node[Child].sym)
  /\ current' = IF Inner(Child) THEN Child ELSE root
  /\ UNCHANGED <<pc, side, block, freqs, node, heap, packed, root>>

EndDecode ==
  /\ pc = "decode" /\ ~(Sought /\ bit < Len(packed.bits))
  /\ pc' = IF Len(out) = packed.size THEN "done" ELSE "corrupt"
  /\ Destroy({root})
  /\ UNCHANGED <<side, block, freqs, heap, packed, result>>

CodecNext ==
  \/ Compress \/ AddLeaf \/ Merge \/ BuildFails \/ Write \/ ResultFails
  \/ Decompress \/ FillAlone \/ StartDecode \/ DecodeBit \/ EndDecode

CodecSpec == CodecInit /\ [][CodecNext]_codecvars

-----------------------------------------------------------------------------
(***************************************************************************)
(* Properties.                                                             *)
(***************************************************************************)
IsTable(f) == DOMAIN f \subseteq Bytes /\ f \in [DOMAIN f -> Nat \ {0}]

\* Every variable stays in its range.
CodecTypeOK ==
  /\ pc \in {"idle", "build", "packed", "decode", "done", "nomem", "corrupt"}
  /\ side \in {"compress", "decompress"}
  /\ block \in Seq(Bytes) /\ IsTable(freqs)
  /\ \A n \in DOMAIN node :
       node[n] \in [sym : Bytes \cup {0}, freq : Nat, left : 0..(n-1), right : 0..(n-1)]
  /\ heap \in Seq([id : DOMAIN node, freq : Nat])
  /\ packed.size \in Nat /\ IsTable(packed.freqs) /\ packed.bits \in Seq({0, 1})
  /\ bit \in 0..Len(packed.bits) /\ out \in Seq(Bytes)
  /\ pc = "decode" => {root, current} \subseteq DOMAIN node

\* Nothing leaks: the nodes allocated are those of the trees in the heap or, while it
\* decodes, of the one tree; none when the calls have returned, with whatever result.
NoLeak ==
  DOMAIN node = UNION {Subtree(r) : r \in InHeap \cup (IF pc = "decode" THEN {root} ELSE {})}

\* The least number of bits any binary code needs, from its definition: the symbols are
\* split in two in the best way, at one bit for each occurrence.
LeastBits ==
  LET Weight(S) == FoldSet(LAMBDA s, sum : sum + freqs[s], 0, S)
      least[S \in SUBSET DOMAIN freqs] ==
        IF Cardinality(S) <= 1 THEN 0
        ELSE Weight(S) + Min({least[T] + least[S \ T] : T \in {U \in SUBSET S : Max(S) \in U /\ U # S}})
  IN  least[DOMAIN freqs]

\* Every byte of the block has a code, within MaxDepth: a Huffman tree of depth d needs
\* as many bytes as the (d+2)nd Fibonacci number, so the return at huffman.c:64 is never
\* taken with blocks of 65536 bytes.  No other code makes the block shorter.
BestCodes ==
  Built =>
    LET codes == Codes
        bits == FoldSet(LAMBDA s, sum : sum + freqs[s] * Len(codes[s]), 0, DOMAIN freqs)
    IN  /\ \A s \in DOMAIN freqs : codes[s] # <<>>
        /\ bits = IF Cardinality(DOMAIN freqs) = 1 THEN Len(block) ELSE LeastBits

\* What holds of the trees.
HuffInv == CodecTypeOK /\ NoLeak /\ BestCodes

\* huffman_decompress gives back the block that huffman_compress was given, ties between
\* frequencies and blocks of a single symbol included; it takes no block for corrupt.
RoundTrip ==
  /\ pc = "done" => out = block
  /\ pc # "corrupt"

\* What holds of the codec at every step.
CodecRight == HuffInv /\ RoundTrip

(***************************************************************************)
(* The program of src/compression/main.c, run again and again on a few     *)
(* files: it reads a file in blocks, writes a temporary file, and renames  *)
(* it to the output at the end.  Any call may fail and the process may be  *)
(* killed between any two.                                                 *)
(*                                                                         *)
(* A file is a sequence of items: bytes, the packed blocks that Huffman    *)
(* says how to make and to unpack, and the mark (four zero bytes) behind   *)
(* the last block.  The program is only given a packed file to decompress  *)
(* and a plain one to compress.                                            *)
(***************************************************************************)
CONSTANTS
  Names,     \* of files
  Plain,     \* contents a user has: sequences of bytes
  Block,     \* CHUNK_SIZE
  NoFile,
  MaxRuns    \* bound on the runs of the program

VARIABLES
  fpc,       \* "shell", "open", "loop", "close" or "rename"
  mode, input, output,
  rest,     \* what the open input has left
  failed,   \* fread has met an error
  ok,
  disk,     \* what each file holds; disk[Tmp(n)] is n.tmp
  before,   \* for the properties: the disk when the program started
  exit,     \* "none", "success", "failure" or "killed"
  lost,     \* buffered output was lost in fclose, whose result is not looked at
  runs

command == <<mode, input, output>>
filevars == <<fpc, command, rest, failed, ok, disk, before, exit, lost, runs>>

Tmp(n) == <<n, "tmp">>
Places == Names \cup {Tmp(n) : n \in Names}

Symbols == UNION {ToSet(d) : d \in Plain}
Items == [kind : {"byte", "block", "end"}, of : Seq(Symbols)]

\* A name of a file is none of a temporary one.
FilesAssumption ==
  /\ Plain \subseteq Seq(Bytes) /\ NoFile \notin Seq(Items)
  /\ \A n \in Names : Tmp(n) \notin Names
  /\ Block \in Nat \ {0} /\ MaxRuns \in Nat

Byte(b) == [kind |-> "byte", of |-> <<b>>]
Packed(bytes) == [kind |-> "block", of |-> bytes]
End == [kind |-> "end", of |-> <<>>]
Raw(d) == [i \in DOMAIN d |-> Byte(d[i])]

Text(file) == FlattenSeq([i \in DOMAIN file |-> file[i].of])
IsPlain(file) == file # NoFile /\ \A i \in DOMAIN file : file[i].kind = "byte"
IsPacked(file) == file # NoFile /\ file # <<>> /\ file[Len(file)] = End

FilesInit ==
  /\ fpc = "shell"
  /\ mode = "c" /\ input = NoFile /\ output = NoFile
  /\ rest = <<>> /\ failed = FALSE /\ ok = FALSE
  /\ \E had \in [Names -> Plain \cup {NoFile}] :
       disk = [p \in Places |->
                 IF p \in Names /\ had[p] # NoFile THEN Raw(had[p]) ELSE NoFile]
  /\ before = disk
  /\ exit = "none" /\ lost = FALSE /\ runs = 0

\* The user starts the program with -c or -d, -i and -o.
Run(m, i, o) ==
  /\ fpc = "shell" /\ runs < MaxRuns
  /\ disk[i] # NoFile => IF m = "c" THEN IsPlain(disk[i]) ELSE IsPacked(disk[i])
  /\ fpc' = "open"
  /\ mode' = m /\ input' = i /\ output' = o
  /\ before' = disk
  /\ exit' = "none" /\ lost' = FALSE /\ runs' = runs + 1
  /\ UNCHANGED <<rest, failed, ok, disk>>

Exit(how) == fpc' = "shell" /\ exit' = how

\* One of the two files cannot be opened.
OpenFails ==
  /\ fpc = "open"
  /\ Exit("failure")
  /\ UNCHANGED <<command, rest, failed, ok, disk, before, lost, runs>>

Target == Tmp(output)

Open ==
  /\ fpc = "open" /\ disk[input] # NoFile
  /\ fpc' = "loop"
  /\ rest' = disk[input]
  /\ disk' = [disk EXCEPT ![Target] = <<>>]
  /\ failed' = FALSE /\ ok' = FALSE
  /\ UNCHANGED <<command, before, exit, lost, runs>>

Emit(items) == disk' = [disk EXCEPT ![Target] = @ \o items]

\* The loop ends, with this result.
Finish(good) == fpc' = "close" /\ ok' = good

-----------------------------------------------------------------------------
(***************************************************************************)
(* compress_file and decompress_file.                                      *)
(***************************************************************************)
Least(m, n) == IF m < n THEN m ELSE n

\* fread returns n bytes; fewer than there are means an error, which stays noted.
Fread(n) ==
  /\ n \in 0..Least(Block, Len(rest))
  /\ rest' = SubSeq(rest, n + 1, Len(rest))
  /\ failed' = (failed \/ n < Least(Block, Len(rest)))

\* A write that fails may have written some of it; what came before stays.
WriteFails == Finish(FALSE) /\ UNCHANGED disk

CompressBlock ==
  /\ fpc = "loop" /\ mode = "c"
  /\ \E n \in 1..Block :
       /\ Fread(n)
       /\ \/ Emit(<<Packed(Text(SubSeq(rest, 1, n)))>>) /\ UNCHANGED <<fpc, ok>>
          \/ WriteFails
  /\ UNCHANGED <<command, before, exit, lost, runs>>

EndTrusting == TRUE
EndOk == ~failed'

CompressEnd ==
  /\ fpc = "loop" /\ mode = "c"
  /\ Fread(0)
  /\ \/ Emit(<<End>>) /\ Finish(EndOk)
     \/ WriteFails
  /\ UNCHANGED <<command, before, exit, lost, runs>>

\* The header of a block is 0 at the end.
DecompressTurn ==
  /\ fpc = "loop" /\ mode = "d"
  /\ rest' = Tail(rest)
  /\ \/ /\ Head(rest) # End
        /\ Emit(Raw(Head(rest).of))
        /\ UNCHANGED <<fpc, ok>>
     \/ /\ Head(rest) = End
        /\ Finish(TRUE)
        /\ UNCHANGED disk
     \/ WriteFails
  /\ UNCHANGED <<command, failed, before, exit, lost, runs>>

-----------------------------------------------------------------------------
(***************************************************************************)
(* The end of main.                                                        *)
(***************************************************************************)
\* fclose writes what is buffered.  When that fails nobody notices.
Close ==
  /\ fpc = "close"
  /\ fpc' = "rename"
  /\ \/ UNCHANGED <<disk, lost>>
     \/ /\ disk[Target] # <<>>
        /\ disk' = [disk EXCEPT ![Target] = Front(@)]
        /\ lost' = TRUE
  /\ UNCHANGED <<command, rest, failed, ok, before, exit, runs>>

Rename ==
  /\ fpc = "rename" /\ ok
  /\ Exit("success")
  /\ disk' = [disk EXCEPT ![output] = disk[Target], ![Tmp(output)] = NoFile]
  /\ UNCHANGED <<command, rest, failed, ok, before, lost, runs>>

\* After a failure, of rename as well, the temporary file is removed.
GiveUp ==
  /\ fpc = "rename"
  /\ Exit("failure")
  /\ disk' = [disk EXCEPT ![Target] = NoFile]
  /\ UNCHANGED <<command, rest, failed, ok, before, lost, runs>>

Kill ==
  /\ fpc # "shell"
  /\ Exit("killed")
  /\ UNCHANGED <<command, rest, failed, ok, disk, before, lost, runs>>

FilesNext ==
  \/ \E m \in {"c", "d"}, i \in Names, o \in Names : Run(m, i, o)
  \/ OpenFails \/ Open \/ CompressBlock \/ CompressEnd \/ DecompressTurn
  \/ Close \/ Rename \/ GiveUp \/ Kill

FilesSpec == FilesInit /\ [][FilesNext]_filevars

-----------------------------------------------------------------------------
(***************************************************************************)
(* Properties.                                                             *)
(***************************************************************************)
\* Every variable stays in its range.
FilesTypeOK ==
  /\ fpc \in {"shell", "open", "loop", "close", "rename"}
  /\ mode \in {"c", "d"} /\ {input, output} \subseteq Names \cup {NoFile}
  /\ rest \in Seq(Items)
  /\ {failed, ok, lost} \subseteq BOOLEAN
  /\ DOMAIN disk = Places
  /\ \A p \in Places : disk[p] = NoFile \/ disk[p] \in Seq(Items)
  /\ exit \in {"none", "success", "failure", "killed"}
  /\ runs \in 0..MaxRuns

\* What packing this text gives, from its definition: blocks of Block bytes, the last
\* one shorter, and the mark.
IsPackOf(file, text) ==
  /\ IsPacked(file) /\ Text(file) = text
  /\ \A i \in 1..(Len(file) - 1) :
       /\ file[i].kind = "block"
       /\ IF i < Len(file) - 1 THEN Len(file[i].of) = Block ELSE Len(file[i].of) \in 1..Block

\* While the program runs, and when it fails or is killed, no file but its temporary one
\* differs from what it was, and no temporary file is left by a run that fails.  When it
\* succeeds, the output is the input packed, or the text whose packed form the input is,
\* and nothing else has changed: a file compressed and decompressed is as it was.  Output
\* lost in fclose is the exception, which main does not notice.
FilesRight ==
  /\ FilesTypeOK
  /\ exit # "success" => \A n \in Names : disk[n] = before[n]
  /\ exit = "failure" =>
       \/ disk = before
       \/ disk[Tmp(output)] = NoFile
  /\ exit = "success" /\ ~lost =>
       /\ IF mode = "c" THEN IsPackOf(disk[output], Text(before[input]))
          ELSE IsPlain(disk[output]) /\ IsPackOf(before[input], Text(disk[output]))
       /\ disk[Tmp(output)] = NoFile
       /\ \A n \in Names \ {output} : disk[n] = before[n]
=============================================================================
