SPECIFICATION Spec
CONSTANTS
  i1 = i1
  i2 = i2
  p1 = p1
  k1 = k1
  Imports <- MCImports
  Providers <- MCProviders
  Keys <- MCKeys
  ProviderOf <- MCProviderOf
  File <- MCFile
  CurrencyOf <- MCCurrencyOf
  LevelOf <- MCLevelOf
  Ids = {1, 2}
  Limit = 1
CONSTRAINT ReadsBound
INVARIANTS
  StoreTypeOK
  CountsBalance
  AcceptedMatchesRows
  RejectedMatchesRows
  UniqueTransactions
  RowsComeFromTheirLines
  PagesAscend
  OldRejectionsAreSeen
  PagesHaveNoGaps
  SummaryIsNotBehind
PROPERTY FirstWriteWins
