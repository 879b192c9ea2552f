SPECIFICATION FairSpec
CONSTANTS
  Callers = {c1, c2}
  Creator = c1
  Target = t
  Nobody = nobody
  CountModulus = 3
  MaxSuspends = 2
INVARIANTS
  TypeOK
  TokensBalance
  CountsAgree
PROPERTIES
  ResumedRuns
  
CHECK_DEADLOCK FALSE
