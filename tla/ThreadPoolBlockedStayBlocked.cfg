\* What TPI.h says and TPI.c does not do: see the README.
SPECIFICATION Spec
CONSTANTS
  MaxThreads = 3
  WorkCounts = {0, 2, 4}
  NULL = NULL
INVARIANTS
  BlockedStayBlocked
