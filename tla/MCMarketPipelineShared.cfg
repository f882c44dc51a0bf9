\* The enrichment and the comparison lookup share the market tables.
CONSTANTS
  ID = {1, 2}
  TTL = 1
  None = None
  k1 = k1
  k2 = k2
  Key = {k1, k2}
  Run = {r1}
  Requests <- RemappedKeys
  Kinds = {"lookup", "enrich"}
  Answers <- CoverageById
  BatchLimit = 2
  MissTTL = 1
  Failing = {}
  Budget = 1
  MaxTime = 1
SPECIFICATION Spec
INVARIANT OnlyRenderableStored
