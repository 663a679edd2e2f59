SPECIFICATION AllSpec
CONSTANTS
  o1 = o1
  o2 = o2
  o3 = o3
  o4 = o4
  o5 = o5
  o6 = o6
  o7 = o7
  Objects = {o1, o2, o3, o4, o5, o6, o7}
  Rank <- MCRank
  Null = Null
  InitCap = 2
  a = a
  b = b
  NoFile = NoFile
  Blocks <- MCBlocks
  Plain <- MCPlain
  Arrays <- MCArrays
  Graphs <- MCGraphs
  Infinite = 99
  Parts = {"heap", "codec", "files", "sorts", "paths"}
INVARIANTS HeapInv CompressorRight AlgorithmsRight
PROPERTY QueueSpec
CHECK_DEADLOCK FALSE
