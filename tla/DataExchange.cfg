\* Four processes, a tree of depth two, two calls.
SPECIFICATION FairSpec
CONSTANTS
  NumProcs = 4
  Rnums <- TwoCalls
  ContactLists <- Lists
  MaxContacts = 2
  Verbose = {3}
INVARIANTS
  AnsweredRightly
  NothingLeftBehind
PROPERTIES
  AllReturn
  ImplementsExchange
