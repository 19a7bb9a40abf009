\* Both programs with three threads; in rwlock-test two of them are readers.
SPECIFICATION FairSpec
CONSTANTS
  NumReaders = 2
  NumWriters = 1
  MaxOps = 1
INVARIANTS
  NoOdds
  TotalIsSum
  StartTogether
PROPERTIES
  AllTestsEnd
