CONSTANTS
  Symbols = {s1}
  Calls = {c1, c2}
  MaxQty = 2
  Leverages = {5}
  SignalLeverage = 3
  Holdings <- MCHoldings
  Liquidatable = {s1}
  MaxRequests = 2
  MaxRestarts = 1
  Handlers = {h1}
  Analyses <- MCAnalyses
  Balances = {0, 2}
  PositionSizePercent = 100
  EnvMultiplier <- MCEnvMultiplier
  Settings <- MCSettings
  Atrs = {10}
  Ttl = 1
  MaxAnalyses = 1
  MaxChanges = 1
SPECIFICATION AutoSpec
INVARIANTS
  AddsOnlyWhenTwiceBlind
  PercentagesBracketTheEntry
PROPERTY StopsAreCurrent
SYMMETRY CallSymmetry
CHECK_DEADLOCK FALSE
