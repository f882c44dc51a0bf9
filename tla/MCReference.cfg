SPECIFICATION Spec
CONSTANTS
  Coin = {1, 2, 3, 4}
  Usable = {1, 3, 4}
  ContractOf <- MCContractOf
  SymbolOf <- MCSymbolOf
  Native = Native
  NoSymbol = NoSymbol
  NativeIDs = {4}
  FirstLists <- MCFirstLists
  NoCatalog = NoCatalog
  NoCoin = 0
  PageLimit = 2
  Lookup = {q1}
  TokenLists <- MCTokenLists
  MaxAttempts = 3
  MaxChanges = 2
  cx = cx
  cy = cy
  symA = symA
  symB = symB
  Address = {n, ta, tb}
  NativeAddress = n
  NoAddress = NoAddress
  Lists <- MCLists
  Portfolios <- MCPortfolios
  ValidDecimals = {0, 3}
  NoList = NoList
  Dropped = Dropped
  Filter = {f1}
  MaxFetches = 3
  ta = ta
  tb = tb
INVARIANT CatalogTypeOK
INVARIANT NeverGoesBack
INVARIANT NothingListedIsLost
INVARIANT NeverGuessed
INVARIANT NothingKnownIsSkipped
INVARIANT ListTypeOK
INVARIANT ServesSavedList
INVARIANT ShownWhenListedOrValid
INVARIANT BalanceFitsDecimals
PROPERTY EveryRefreshEnds
PROPERTY EveryRequestIsAnswered
CHECK_DEADLOCK FALSE
