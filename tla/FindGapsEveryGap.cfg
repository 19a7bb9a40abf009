\* A gap below the lowest range is missed: see the README.
SPECIFICATION Spec
CONSTANTS
  MaxAddr = 3
  Entry = {1}
  MaxSymbols = 1
  MaxInput = 2
  NULL = NULL
INVARIANTS
  EveryGapFound
