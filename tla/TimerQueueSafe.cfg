SPECIFICATION Spec
CONSTANTS
  Timers = {t1, t2}
  Clients = {c1, c2}
  Dispatcher = dispatcher
  NoTimer = none
  RingSize = 1
  Delays <- MCDelays
  Intervals = {0, 1}
  MaxLag = 1
INVARIANTS
  TypeOK
  NoCallbackAfterDisarm
  PoppedIsIdleOrDisarmed
  ArmedHeldOnce
PROPERTIES
  ImplementsTimerService
CHECK_DEADLOCK FALSE
