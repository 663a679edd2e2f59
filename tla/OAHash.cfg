SPECIFICATION Spec
CONSTANTS
  Keys = {6, 14, 22, 7}
  Values = {v1, v2}
  Code <- OwnCode
  Null = Null
  Empty = Empty
  Tomb = Tomb
  Absent = Absent
  InitialSizes = {1, 3}
SYMMETRY Renamings
INVARIANTS HashInv Room Ownership
PROPERTY MapSpec
CHECK_DEADLOCK FALSE
