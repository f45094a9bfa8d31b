CONSTANTS
  Timer = {c1, c2}
  NoTimer = NoTimer
  NS_PER_MS = 1
  MS_PER_SECOND = 1
  Delays = {1, 2}
  Intervals = {0}
  MaxClock = 3
  MaxDepth = 1
  FD = {f1, f2}
SPECIFICATION CFairSpec
CHECK_DEADLOCK FALSE
INVARIANT Guarded
INVARIANT LateIsLast
INVARIANT GivenUp
PROPERTY Answered
