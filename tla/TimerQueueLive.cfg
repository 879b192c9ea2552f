SPECIFICATION FairSpec
CONSTANTS
  Timers = {t1, t2}
  Clients = {c1}
  Dispatcher = dispatcher
  NoTimer = none
  RingSize = 1
  Delays <- MCDelays
  Intervals = {0, 1}
  MaxLag = 1
PROPERTIES
  EventuallyRuns
  WaitersWake
  ShutdownJoins
CHECK_DEADLOCK FALSE
