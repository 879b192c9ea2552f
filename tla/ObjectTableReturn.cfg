SPECIFICATION Spec
CONSTANTS
  Guests = {g1, g2}
  Objects = {o1, o2}
  NumSlots = 2
  Names = {n1}
  NoObject = none
  NoName = unnamed
  MaxRefs = 2
  MaxMishaps = 0
INVARIANTS
  ReturnedIsRetained
CHECK_DEADLOCK FALSE
