\* One lookup of two tokens whose only batch comes back without data.
CONSTANTS
  ID = {1, 2}
  TTL = 1
  None = None
  k1 = k1
  k2 = k2
  Key = {k1, k2}
  Run = {r1}
  Requests <- RemappedKeys
  Kinds = {"lookup"}
  Answers <- CoverageById
  BatchLimit = 2
  MissTTL = 1
  Failing = {}
  Budget = 1
  MaxTime = 1
SPECIFICATION Spec
PROPERTY NothingStartsAfterCancel
