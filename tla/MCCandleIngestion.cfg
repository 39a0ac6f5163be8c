CONSTANTS
  NumCandles = 3
  Sockets <- OneSocket
  Savers <- MCSavers
  MaxListeners = 2
  MaxMemory = 2
  MaxInFlight = 2
  MaxRestarts = 1
SPECIFICATION Spec
INVARIANTS
  IngestionTypeOK
  AnnouncedIsStored
  EveryFinalIsTold
CHECK_DEADLOCK FALSE
