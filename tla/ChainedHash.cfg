SPECIFICATION Spec
CONSTANTS
  k1 = k1
  k2 = k2
  k3 = k3
  t1 = t1
  t2 = t2
  Keys = {k1, k2, k3}
  Code <- MCCode
  Handles = {t1, t2}
  Temp = Temp
  Nodes = {n1, n2, n3, n4, n5}
  Bufs = {b1, b2, b3, b4}
  Null = Null
  Uses <- MCUses
  SetBytes = {0}
  MaxCount = 1
SYMMETRY Renamings
INVARIANTS TablesInv MergesRight
PROPERTY OthersKeep
