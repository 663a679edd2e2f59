SPECIFICATION Spec
CONSTANTS
  Items = {x, y, z}
  Handles = {p, q, r}
  MaxCount = 2
SYMMETRY Renamings
INVARIANTS SetsRight
CHECK_DEADLOCK FALSE
