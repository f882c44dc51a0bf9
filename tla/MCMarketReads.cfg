\* Two concurrent lookups of one token.  PostgreSQL reads fail, and so does what a
\* deadline cuts off; saves that are tried succeed, and a lookup takes less than
\* half the TTL.
CONSTANTS
  ID = {1, 2}
  TTL = 3
  None = None
  k1 = k1
  Key = {k1}
  Run = {r1, r2}
  Requests <- RemappedKey
  Kinds = {"lookup"}
  Answers <- AlwaysPriced
  BatchLimit = 1
  MissTTL = 1
  Failing = {"loadStore"}
  Budget = 1
  MaxTime = 4
SYMMETRY RunSymmetry
SPECIFICATION ReadsSpec
INVARIANT ReadsNeverGoBack
INVARIANT CacheNeverAheadOfStore
PROPERTY StoresOnlyMoveForward
