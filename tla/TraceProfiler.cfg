\* As the Makefile builds it, with one allocator over which the process may
\* hang, and with an allocator of its own, as the README of cplus asks for.
SPECIFICATION FairSpec
CONSTANTS
  MinSamples = 2
  MaxSamples = 4
  Period = 2
  MaxTime = 12
  Builds = {TRUE, FALSE}
INVARIANTS
  TypeOK
  NoReentry
  SpansTheRun
  MakesRoom
  TotalTrue
PROPERTIES
  AppEnds
