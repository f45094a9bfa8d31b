CONSTANTS
  Timer = {t1, t2}
  NoTimer = NoTimer
  NS_PER_MS = 2
  MS_PER_SECOND = 2
  Delays = {0, 1, 2}
  Intervals = {0, 1}
  MaxClock = 5
  MaxDepth = 2
SPECIFICATION Spec
SYMMETRY Interchangeable
CHECK_DEADLOCK FALSE
INVARIANT OnePlace
INVARIANT NotEarly
INVARIANT PassComplete
INVARIANT TopIsFirst
