CONSTANTS
  Node = {k1, k2, k3}
  Value = {v1, v2}
  List = {"active", "inactive"}
  Null = Null
  SizeMod = 64
  max_size = 4
  FCACHE_BALANCE_INTERVAL = 2
  Size = {0, 1, 3}
  MaxResized = 1
SPECIFICATION Spec
SYMMETRY Interchangeable
CHECK_DEADLOCK FALSE
INVARIANT Linked
INVARIANT Owned
INVARIANT Bounded
INVARIANT UpdatedLast
PROPERTY OldestFirst
