CONSTANTS
  Queries = {q1}
  Messages = {m1}
  Packages = {p1}
  MaxCalls = 2
  MaxAnswers = 1
  MaxChannel = 1
SPECIFICATION FairSpec
INVARIANTS
  TypeOK
  NeverStranded
  ConnectionsTimeOut
PROPERTIES
  KeepsPromise
  EveryFutureEnds
CHECK_DEADLOCK FALSE
