CONSTANTS
  User = {u1, u2}
  File = {f1, f2}
  NoUser = NoUser
  BufSize = 3
  MaxLen = 2
  TmpLen = 1
  Lens = {1, 3}
  MaxMsgs = 2
SPECIFICATION FairSpec
CHECK_DEADLOCK FALSE
PROPERTY Delivered
PROPERTY Released
