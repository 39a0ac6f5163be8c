CONSTANTS
  Symbols = {s1}
  Calls = {c1, c2}
  MaxQty = 1
  Leverages = {5}
  SignalLeverage = 3
  Holdings <- MCHoldings
  Liquidatable = {s1}
  MaxRequests = 3
  MaxRestarts = 1
SPECIFICATION SystemSpec
INVARIANTS
  SystemTypeOK
  FreshOrdersKeepPromises
  LeverageHonoured
  BooksBalance
  UnseenOnlyInFlight
  TradeStreamFollowsReferences
PROPERTY ReduceOnlyNeverFlips
SYMMETRY CallSymmetry
CHECK_DEADLOCK FALSE
