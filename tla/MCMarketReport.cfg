CONSTANTS
  Candles <- MCCandles
  MaxCandles = 7
  LongLimit = 6
  ShortLimit = 5
  DayPeriod = 2
  ShortPeriod = 3
  LongPeriod = 4
  RsiPeriod = 2
  BandPeriod = 4
  BandWidth = 1
  VolumePeriod = 3
  FastPeriod = 2
  SlowPeriod = 3
  SignalPeriod = 2
  SummaryLimit = 6
  SummaryPeriod = 5
SPECIFICATION Spec
INVARIANTS
  MacdComparesTheSameCandle
  IndicatorsStayInRange
  MirroredMarketMirrorsSignals
  ScreeningIsPerSymbol
  ReportAgreesWithTheSummary
PROPERTIES
  CrossingIsSignalled
  FallNeverTurnsOverbought
CHECK_DEADLOCK FALSE
