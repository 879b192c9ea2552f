SPECIFICATION Spec
CONSTANTS
  Timers = {t1, t2}
  Clients = {c1, c2}
  Dispatcher = dispatcher
  NoTimer = none
  RingSize = 1
  Delays <- MCDelays
  Intervals = {0, 1}
  MaxLag = 1
INVARIANT SelfDisarmNeverBlocks
CHECK_DEADLOCK FALSE
