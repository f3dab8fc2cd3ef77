CONSTANTS
  U32Max = 6
  MaxCacheMebibytes = 3
  MinJournalKibibytes = 2
  MaxJournalKibibytes = 4
  MaxCount = 3
  DefaultCount = 2
  Threads = {t1, t2}
  Opener = opener
  Mebibytes = {0, 1, 2}
  BytesPerMebibyte = 4
  OwnIndexBuild = 3
  OwnQuerySpilling = 13
  Collections = {c1, c2}
  Views = {v1}
  EnvValues = {"on", "off"}
  Vectors <- MCVectors
  Policies <- MCPolicies
SPECIFICATION Spec
SYMMETRY Symmetry
INVARIANTS
  FloorAsDecided
  ReportsWholePairs
  MarkerMeansVisited
  NothingMovesSilently
  OpenGivesWhatWasAsked
