CONSTANTS
  k1 = k1
  k2 = k2
  k3 = k3
  Key = {k1, k2, k3}
  Value = {v1, v2}
  Iter = {i1, i2}
  Null = Null
  Hash <- MCHash
  InitSize = 1
  auto_rehash = TRUE
  UINT32_MAX = 3
  AUTO_REHASH_THRESHOLD = 1
SPECIFICATION Spec
INVARIANT TypeOK
INVARIANT CountersRight
INVARIANT OnePlace
PROPERTY ImplementsMap
SYMMETRY Interchangeable
