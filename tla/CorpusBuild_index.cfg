SPECIFICATION Spec
CONSTANTS
  Ratio <- EightyTenTen
  NDocs = 5
  NStrata = 2
  Strata <- SomeStrata
  Lengths = {1, 3, 4}
  MaxDocTokens = 3
  ShardTokens = 4
  NCtx = 4
  MaxStratum = 40
  Subsample = 3
  Unset = Unset
INVARIANT IndexAscendsInCorpusOrder
CHECK_DEADLOCK FALSE
