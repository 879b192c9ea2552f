SPECIFICATION FairSpec
CONSTANTS
  Ops = {o1, o2}
  WithEvent = {o1}
  WithRoutine = {o2}
  Dispatcher = dispatcher
  Guest = guest
  Posters = {dispatcher, guest, other}
  Blocks = {b1, b2}
  GuestApcs = {k}
  Arguments = {o1, o2, x}
  None = none
  MaxPosts = 1
  MaxSubmits = 2
INVARIANTS
  TypeOK
  BlocksAccounted
  WakeUpPending
  CompletionIsFinal
PROPERTIES
  OperationCompletes
  DispatchJoins
CHECK_DEADLOCK FALSE
