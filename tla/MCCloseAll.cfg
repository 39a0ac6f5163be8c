CONSTANTS
  Symbols = {s1}
  Calls = {c1, c2}
  MaxQty = 2
  Leverages = {5}
  SignalLeverage = 3
  Holdings <- FlatOrLong
  Liquidatable = {}
  MaxRequests = 2
  MaxRestarts = 0
SPECIFICATION SystemSpec
PROPERTY CloseAllNeverFlips
CHECK_DEADLOCK FALSE
