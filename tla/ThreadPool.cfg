\* Up to four threads (a tree of depth two), no work, and more and less work than
\* there are threads; every call returns under fairness.
SPECIFICATION FairSpec
CONSTANTS
  MaxThreads = 4
  WorkCounts = {0, 3}
  NULL = NULL
INVARIANTS
  TypeOK
  ReduceOnce
  PoolStates
PROPERTIES
  FieldsStable
  ImplementsTaskPool
  CallsReturn
