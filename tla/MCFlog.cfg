CONSTANTS
  User = {u1, u2}
  File = {f1, f2}
  NoUser = NoUser
  BufSize = 3
  MaxLen = 2
  TmpLen = 1
  Lens = {1, 2, 3}
  MaxMsgs = 3
SPECIFICATION Spec
SYMMETRY Interchangeable
CHECK_DEADLOCK FALSE
INVARIANT Sequential
INVARIANT NoneLost
INVARIANT NoDangling
INVARIANT NothingStuck
INVARIANT NoCircle
