\* Three processes and seven rows; two matrices, each multiplied as it is and transposed.
SPECIFICATION FairSpec
CONSTANTS
  NumProcs = 3
  NumRows = 7
  Programs <- Sequences
  NumRounds = 2
  Jobs <- TwoJobs
INVARIANTS
  PartitionTrue
  SameAsStandard
  ProductTrue
PROPERTIES
  AllDone
