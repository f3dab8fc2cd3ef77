SPECIFICATION Spec
CONSTANTS
  Threads = {t1, t2, t3}
  Tags = {1, 2, 3}
  LastSequence = 2
  MaxOpens = 5
INVARIANTS
  HandleNamesOneClient
  RunsOnLiveEngine
  EngineHasAnOwner
PROPERTY CloseReturns
CHECK_DEADLOCK FALSE
