\* Two threads, one seed entry each, any number of batches, and a malloc that
\* returns a freed block as soon as it can.
SPECIFICATION FairSpec
CONSTANTS
  NumThreads = 2
  Seed = 1
  Batch = 1
  Size = 2
  ProgTime = 1
  MaxCount = 2
  Entry = {e1, e2, e3, e4}
  Info = {m1, m2, m3, m4}
  NULL = NULL
ACTION_CONSTRAINT FirstFit
INVARIANTS
  TypeOK
  SingleOwner
  WorkingSet
  CleanExit
PROPERTIES
  ImplementsWorkList
  Termination
