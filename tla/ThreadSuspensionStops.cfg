SPECIFICATION Spec
CONSTANTS
  Callers = {c1, c2}
  Creator = c1
  Target = t
  Nobody = nobody
  CountModulus = 3
  MaxSuspends = 1
INVARIANT SuspendedIsStopped
CHECK_DEADLOCK FALSE
