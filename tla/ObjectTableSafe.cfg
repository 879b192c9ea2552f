SPECIFICATION Spec
CONSTANTS
  Guests = {g1, g2, g3}
  Objects = {o1, o2}
  NumSlots = 3
  Names = {n1}
  NoObject = none
  NoName = unnamed
  MaxRefs = 3
  MaxMishaps = 0
INVARIANTS
  TypeOK
  PointersExact
  HandlesExact
  CountsExact
  NamesAreLive
  CrashNeedsMishap
CHECK_DEADLOCK FALSE
SYMMETRY Symmetry
