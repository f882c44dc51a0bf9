\* Two overlapping checks; on a live ctx Moralis and the save of the row may fail, on a
\* finished one every call may.
CONSTANTS
  c1 = c1
  c2 = c2
  Check = {c1, c2}
  None = None
  Recheck = 2
  RedisTTL = 1
  Failing = {"moralis", "saveRow"}
  Budget = 1
  MaxTime = 4
SPECIFICATION FairSpec
INVARIANT TypeOK
INVARIANT OldVerdictsNeedAnOutage
INVARIANT KnownContractsAnswered
PROPERTY AskedOnlyWhenDue
PROPERTY RowNearlyInOrder
PROPERTY EveryCheckEnds
CHECK_DEADLOCK FALSE
