SPECIFICATION Spec
CONSTANTS
  NumContexts = 2
  Guests = {g1, g2}
  NoGuest = none
  Sharing = TRUE
  Pausing = FALSE
INVARIANTS
  TypeOK
  OneOwner
PROPERTIES
  KickSeesItsDecode
CHECK_DEADLOCK FALSE
SYMMETRY GuestSymmetry
