\* Two pairs to settle, three markets.
SPECIFICATION CommandsSpec
CONSTANTS
  Pairs = {p1, p2}
  SameAccount = TRUE
  MaxExchanges = 1
  MaxLost = 1
  MaxOthers = 1
  MaxStops = 1
  MaxBlocks = 1
  Markets = {m1, m2, m3}
  FetchSize = 2
  ChunkSize = 1
  CreatedDuring = FALSE
  MaxStopped = 1
CHECK_DEADLOCK FALSE
INVARIANTS OnlyNewMarketsRemain
PROPERTIES DueIsSettled SourceBecomesEmpty
