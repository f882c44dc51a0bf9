SPECIFICATION Spec
CONSTANTS
  Fetcher = {w1, w2}
  MarketKey = "key"
  NoEnvelope = NoEnvelope
  Leftovers <- MCLeftovers
  Instants <- MCInstants
  MaxTries = 4
  Request = {r1, r2}
  Chains <- MCChains
  Limit = 2
  NoPage = NoPage
  t1 = t1
  t2 = t2
  Token = {t1, t2}
  Live = Live
  None = None
INVARIANT PageKeyPages
