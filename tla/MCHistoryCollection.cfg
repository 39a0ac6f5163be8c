CONSTANTS
  NumCandles = 5
  c1 = c1
  c2 = c2
  Collectors = {c1, c2}
  Savers = {c1, c2}
  Window = 3
  PageSize = 2
  BatchSize = 2
  MaxRetries = 2
  Listed = 3
  FirstNow = 3
SPECIFICATION HistorySpec
INVARIANTS
  HistoryTypeOK
  NothingFetchedIsDropped
  PagesMeet
PROPERTY CollectionEnds
CHECK_DEADLOCK FALSE
