CONSTANTS
  max_ev_size = 2
  Handlers <- MCHandlers
SPECIFICATION FairSpec
CHECK_DEADLOCK FALSE
INVARIANT FiredExactly
INVARIANT InterestAgrees
INVARIANT NoStaleCall
PROPERTY NotStarved
