CONSTANTS
  e1 = e1
  e2 = e2
  Analyses = {e1, e2}
  NumCandles = 3
  MinAtr = 2
  MinSummary = 2
  BasicVotes <- MCBasicVotes
  AdvancedVotes <- MCAdvancedVotes
  MaxMinutes = 1
  MaxRestarts = 1
SPECIFICATION Spec
INVARIANTS
  AnalysisTypeOK
  SentTwiceOnlyTogether
  SuppressedWasTold
  ToldIsPriced
PROPERTY EveryCandleIsAnalysed
CHECK_DEADLOCK FALSE
