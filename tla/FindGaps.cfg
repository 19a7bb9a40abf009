\* Up to two symbols that may overlap, be empty or start together, and as many
\* blocks of two functions as make four with them.
SPECIFICATION FairSpec
CONSTANTS
  MaxAddr = 4
  Entry = {1, 2}
  MaxSymbols = 2
  MaxInput = 4
  NULL = NULL
INVARIANTS
  RangesExact
  GapsExact
  PrintedTrue
PROPERTIES
  Termination
