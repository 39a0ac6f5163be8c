CONSTANTS
  Coins = {btc, eth}
  USDT = usdt
  Bitcoin = btc
  Calls = {c1, c2}
  Prices <- MCPrices
  MaxAsk = 2
  MinNotional = 2
  Funds <- MCFunds
  MaxOrders = 2
  MaxRequests = 2
  MaxRestarts = 1
SPECIFICATION SystemSpec
INVARIANTS
  FreshOrdersAreCovered
  RowsFollowEachOther
PROPERTY KeepsTheJournal
CHECK_DEADLOCK FALSE
