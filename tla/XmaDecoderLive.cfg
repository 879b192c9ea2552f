SPECIFICATION FairSpec
CONSTANTS
  NumContexts = 2
  Guests = {g1}
  NoGuest = none
  Sharing = FALSE
  Pausing = TRUE
INVARIANTS
  PausedIsParked
  LockExcludesDecode
PROPERTIES
  KickAnswered
  PauseCompletes
  WorkerExits
CHECK_DEADLOCK FALSE
