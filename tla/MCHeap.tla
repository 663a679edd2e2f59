-------------------------------- MODULE MCHeap --------------------------------
(***************************************************************************)
(* The heap and four parts that use it or stand beside the programs that   *)
(* do, for TLC: each behaviour is one of the heap, of the Huffman codec,   *)
(* of the program around it, of a sort, or of a search for paths.          *)
(***************************************************************************)
EXTENDS Heap, Sequences, TLC

CONSTANTS o1, o2, o3, o4, o5, o6, o7

\* Seven objects fill three levels; two pairs of them compare equal.
MCRank == o1 :> 1 @@ o2 :> 2 @@ o3 :> 2 @@ o4 :> 3 @@ o5 :> 4 @@ o6 :> 4 @@ o7 :> 5

CONSTANTS a, b, NoFile, Parts, Blocks, Plain, Arrays, Graphs, Infinite

VARIABLES
  part,
  hpc, side, block, freqs, node, hheap, packed, root, current, bit, hout,
  fpc, mode, input, output, rest, failed, ok, disk, before, exit, lost, runs,
  spc, sort, arr, given, todo, lo, hi, pivot, temp, sheap, nomem,
  ppc, program, graph, dist, prev, pheap, visited, u, edge

codec == <<hpc, side, block, freqs, node, hheap, packed, root, current, bit, hout>>
files == <<fpc, mode, input, output, rest, failed, ok, disk, before, exit, lost, runs>>
sorts == <<spc, sort, arr, given, todo, lo, hi, pivot, temp, sheap, nomem>>
paths == <<ppc, program, graph, dist, prev, pheap, visited, u, edge>>

Upto(m, k) == UNION {[1..l -> 1..k] : l \in 1..m}

\* All short blocks, and one for each table of frequencies of up to five symbols in up
\* to seven bytes; eight bytes would be needed for a code of four bits.
Rises(s) == \A i \in 1..(Len(s)-1) : s[i] <= s[i+1]
MCBlocks == Upto(4, 4) \cup Upto(5, 3) \cup {s \in Upto(7, 5) : Rises(s)}
MCPlain == {<<>>, <<1, 2>>, <<1, 2, 2>>}
Huff == INSTANCE Huffman WITH
  Bytes <- 1..5, MaxDepth <- 3, pc <- hpc, heap <- hheap, out <- hout,
  Names <- {a, b}, Block <- 2, MaxRuns <- 3

MCArrays == {<<>>} \cup Upto(5, 3)
Srt == INSTANCE Sorting WITH
  Sorts <- {"insertion", "quick", "merge", "count", "heap", "heap_ex", "bubble", "list", "search"},
  Targets <- 0..4,
  MaxCalls <- 5, pc <- spc, heap <- sheap

\* Graphs of four vertices: edges forward only, in the order of their targets, or both
\* ways and in the opposite order.
Vertices == 0..3
Forward == {e \in Vertices \X Vertices : e[1] < e[2]}
Weight(w, both, from, to) ==
  IF from < to THEN w[<<from, to>>] ELSE IF both /\ to < from THEN w[<<to, from>>] ELSE 0
SE == INSTANCE SequencesExt
List(w, both) ==
  [v \in Vertices |->
     LET row == SE!SetToSortSeq({t \in Vertices : Weight(w, both, v, t) # 0},
                                LAMBDA i, j : IF both THEN i > j ELSE i < j)
     IN  [i \in DOMAIN row |-> [target |-> row[i], weight |-> Weight(w, both, v, row[i])]]]
MCGraphs == {List(w, both) : w \in [Forward -> {0, 1, 2, 4}], both \in BOOLEAN}
Pth == INSTANCE Paths WITH
  pc <- ppc, heap <- pheap, Size <- 3, NextWeights <- {1, 4}, OtherWeights <- {2}, MoreEdges <- 1..2,
  MoreCalls <- 0..2

ASSUME Huff!BlocksAssumption /\ Huff!FilesAssumption

AllInit ==
  /\ Init /\ Huff!CodecInit /\ Huff!FilesInit /\ Srt!Init /\ Pth!Init
  /\ part \in Parts
  /\ part # "files" => \A p \in DOMAIN disk : disk[p] = NoFile

Only(which, Step) == part = which /\ UNCHANGED part /\ Step

AllNext ==
  \/ Only("heap", Next) /\ UNCHANGED <<codec, files, sorts, paths>>
  \/ Only("codec", Huff!CodecNext) /\ UNCHANGED <<vars, files, sorts, paths>>
  \/ Only("files", Huff!FilesNext) /\ UNCHANGED <<vars, codec, sorts, paths>>
  \/ Only("sorts", Srt!Next) /\ UNCHANGED <<vars, codec, files, paths>>
  \/ Only("paths", Pth!Next) /\ UNCHANGED <<vars, codec, files, sorts>>

AllSpec == AllInit /\ [][AllNext]_<<part, vars, codec, files, sorts, paths>>

\* A block decodes to what was encoded with no node leaked, and the program around it replaces
\* a file by a complete result or not at all, whatever fails and whenever it is killed.
CompressorRight == Huff!CodecRight /\ Huff!FilesRight

\* The sorts sort and the search finds, within the array; the paths found are shortest.
AlgorithmsRight == Srt!SortInv /\ Pth!PathsInv
=============================================================================
