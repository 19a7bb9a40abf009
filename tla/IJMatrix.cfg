\* Three processes and five rows; matrices assembled twice or three times.
SPECIFICATION FairSpec
CONSTANTS
  NumProcs = 3
  NumRows = 5
  Programs <- Twice
  MaxAssemblies = 3
INVARIANTS
  AssembledTrue
PROPERTIES
  AssembliesReturn
