\* Three workers, a round of items and one more, a queue that may overflow.  The library may hang:
\* in hypre_work_wait when the items do not go round, and when it is destroyed
\* without a wait.
SPECIFICATION FairSpec
CONSTANTS
  hypre_NumThreads = 3
  MAX_QUEUE = 3
  MaxItems = 4
  Allocs = 2
  NULL = NULL
INVARIANTS
  TypeOK
  InRounds
PROPERTIES
  WaitMeansDone
  LibraryReturns
CHECK_DEADLOCK FALSE
