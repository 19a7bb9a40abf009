\* What an addition does after two assemblies: see the README.
SPECIFICATION Spec
CONSTANTS
  NumProcs = 3
  NumRows = 5
  Programs <- Thrice
  MaxAssemblies = 3
INVARIANTS
  AddedOnce
