SPECIFICATION Spec
CONSTANTS
  NumContexts = 1
  Guests = {g1, g2}
  NoGuest = none
  Sharing = TRUE
  Pausing = FALSE
INVARIANT LockExcludesDecode
CHECK_DEADLOCK FALSE
