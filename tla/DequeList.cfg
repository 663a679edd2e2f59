SPECIFICATION Spec
CONSTANTS
  Nodes = {n1, n2, n3, n4}
  Null = Null
  Values = {1, 2}
  Size <- OwnSize
  Rooms = {0, 1, 2}
SYMMETRY Symmetry
INVARIANTS ListInv
PROPERTY DequeSpec
CHECK_DEADLOCK FALSE
