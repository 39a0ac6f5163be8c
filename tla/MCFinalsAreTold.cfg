CONSTANTS
  NumCandles = 2
  Sockets <- TwoSockets
  Savers <- MCSavers
  MaxListeners = 1
  MaxMemory = 2
  MaxInFlight = 2
  MaxRestarts = 1
SPECIFICATION Spec
PROPERTIES
  FinalsAreTold
  OnlyOvertakingUnsorts
CHECK_DEADLOCK FALSE
