CONSTANTS
  Documents = {1, 2}
  Ids = {c1, c2}
  NoId = NoId
  Batch = 1
SPECIFICATION Spec
INVARIANTS
  EndMeansAll
  InsertOkMeansStored
PROPERTIES
  CursorsReclaimed
CHECK_DEADLOCK FALSE
