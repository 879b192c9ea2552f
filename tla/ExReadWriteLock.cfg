SPECIFICATION FairSpec
CONSTANTS
  Threads = {t1, t2, t3, t4, t5, t6}
  Modulus = 8
INVARIANTS
  TypeOK
  CountersExact
  StalledOnlyIfWedged
PROPERTIES
  ImplementsReadWriteLock
  WedgedOnlyByWriters
  WritersAdmitted
  ReadersAdmitted
CHECK_DEADLOCK FALSE
