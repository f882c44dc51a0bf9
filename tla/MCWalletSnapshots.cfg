\* Two overlapping requests, both routes, every call may fail.
CONSTANTS
  native = native
  usdc = usdc
  dai = dai
  Token = {native, usdc, dai}
  Request = {r1, r2}
  Routes = {"tokens", "markets"}
  Portfolios <- OverlappingOrNot
  TTL = 1
  None = None
  MaxTime = 3
SPECIFICATION FairSpec
INVARIANT TypeOK
INVARIANT SnapshotIsWhole
PROPERTY SavesAreAtomic
PROPERTY EveryRequestEnds
