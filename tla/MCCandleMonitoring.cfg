CONSTANTS
  trade = trade
  k1 = k1
  k2 = k2
  Streams = {trade, k1, k2}
  KlineStreams = {k1, k2}
  w1 = w1
  Sockets = {w1}
  NoSocket = NoSocket
  MaxAttempts = 1
  Defaults = {k1, k2}
  c1 = c1
  Checks = {c1}
SPECIFICATION MonitoringSpec
PROPERTIES
  SilentIsReported
  ReconnectHeals
CHECK_DEADLOCK FALSE
