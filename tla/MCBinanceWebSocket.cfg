CONSTANTS
  trade = trade
  kline = kline
  Streams = {trade, kline}
  KlineStreams = {kline}
  w1 = w1
  w2 = w2
  w3 = w3
  Sockets = {w1, w2, w3}
  NoSocket = NoSocket
  MaxAttempts = 2
SPECIFICATION Spec
INVARIANTS
  WebSocketTypeOK
  ConnectionIsAlive
  GivesUpLate
PROPERTY SubscribedReconnects
CHECK_DEADLOCK FALSE
