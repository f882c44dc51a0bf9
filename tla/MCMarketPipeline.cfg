\* One lookup after another over two tokens; most calls may fail on a live ctx, all on a finished one.
CONSTANTS
  ID = {1, 2}
  TTL = 1
  None = None
  k1 = k1
  k2 = k2
  Key = {k1, k2}
  Run = {r1}
  Requests <- RemappedKeys
  Kinds = {"lookup", "enrich"}
  Answers <- CoverageById
  BatchLimit = 1
  MissTTL = 1
  Failing = {"loadStore", "promote", "loadMisses", "fetch", "saveMisses", "saveStore", "saveCache"}
  Budget = 1
  MaxTime = 1
SPECIFICATION FairSpec
INVARIANT TypeOK
INVARIANT ServedRecords
INVARIANT OnlyDatalessKeysAreMissed
PROPERTY CancelStopsTheRun
PROPERTY FailuresOnlyDegrade
PROPERTY EveryRunEnds
