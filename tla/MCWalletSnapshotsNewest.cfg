\* NewestSnapshotKept is broken by overlapping requests even when native is always held.
CONSTANTS
  native = native
  usdc = usdc
  dai = dai
  Token = {native, usdc, dai}
  Request = {r1, r2}
  Routes = {"tokens", "markets"}
  Portfolios <- AlwaysNative
  TTL = 1
  None = None
  MaxTime = 4
SPECIFICATION FairSpec
PROPERTY NewestSnapshotKept
