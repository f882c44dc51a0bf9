\* Two overlapping checks and nothing fails: Moralis is asked twice.
CONSTANTS
  c1 = c1
  c2 = c2
  Check = {c1, c2}
  None = None
  Recheck = 2
  RedisTTL = 1
  Failing = {}
  Budget = 1
  MaxTime = 2
SPECIFICATION Spec
CHECK_DEADLOCK FALSE
PROPERTY AskedOnceARecheck
