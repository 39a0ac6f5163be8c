CONSTANTS
  NumCandles = 2
  Sockets <- MCSockets
  Savers <- MCSavers
  MaxListeners = 1
  MaxMemory = 2
  MaxInFlight = 1
  MaxRestarts = 1
  c1 = c1
  Collectors = {c1}
  Window = 2
  PageSize = 1
  BatchSize = 2
  MaxRetries = 1
  Listed = 1
  FirstNow = 1
SPECIFICATION SystemSpec
PROPERTY FinalRowsStay
CHECK_DEADLOCK FALSE
