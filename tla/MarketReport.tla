---------------------------- MODULE MarketReport ----------------------------
(* What TechnicalAnalysisService answers about several symbols, and the       *)
(* words of the report the user reads: the summary of the indicators, the     *)
(* fields of analysis.completed, those NotificationService hands on and the   *)
(* judgements TelegramClient derives from them. A market is a function from   *)
(* symbols to tables of candles.                                              *)
EXTENDS StrategySignals

CONSTANTS
  SummaryLimit,   \* rows the summary reads (20000 in the code)
  SummaryPeriod   \* its longest average (200)

ASSUME ReportAssumption ==
  /\ {SummaryLimit, SummaryPeriod} \subseteq Nat
  /\ SummaryPeriod >= LongPeriod /\ SummaryPeriod > RsiPeriod
  /\ SummaryPeriod >= SlowPeriod + SignalPeriod
  /\ SummaryPeriod >= VolumePeriod /\ SummaryLimit >= SummaryPeriod

----------------------------------------------------------------------------
(* The ten strategies in the order they are executed. *)
StrategyTypes ==
  << "MA_CROSSOVER", "BOLLINGER_REVERSAL", "MACD_CROSSOVER", "PIVOT_REVERSAL",
     "TRIPLE_CONFIRMATION", "SMART_MONEY_FLOW", "MULTI_TIMEFRAME_TREND",
     "PATTERN_RECOGNITION", "ELLIOTT_WAVE", "DAY_TRADING_STRATEGY" >>

(* What those that did not throw gave, with their names. *)
AllResults(signals) ==
  LET upTo[n \in 0..Len(signals)] ==
        IF n = 0 THEN << >>
        ELSE IF signals[n] = Threw THEN upTo[n - 1]
        ELSE Append(upTo[n - 1], [strategy |-> StrategyTypes[n], signal |-> signals[n]])
  IN upTo[Len(signals)]

(* Every symbol is analysed by itself: a batch of five runs in parallel, and  *)
(* analyzeSymbol passes the strategies and timeframes it is given on to       *)
(* nobody but the first timeframe.                                            *)
screenMultipleSymbols(market) == [s \in DOMAIN market |-> analyzeSymbol(market[s])]

findStrongBuySignals(screening) ==
  {s \in DOMAIN screening : screening[s].overallSignal \in {"STRONG_BUY", "BUY"}}

(* Variant: the results are taken to be in the order of the strategies. *)
scanStrategyByPosition(strategy, resultsOf) ==
  [s \in DOMAIN resultsOf |->
     LET position == CHOOSE i \in DOMAIN StrategyTypes : StrategyTypes[i] = strategy
     IN resultsOf[s][IF position <= Len(resultsOf[s]) THEN position ELSE 1]]

(* Given AllResults of each symbol, find(strategy) || allResults[0]: the      *)
(* first result stands in for a strategy that threw or is none of the ten.    *)
scanStrategyAcrossSymbols(strategy, resultsOf) ==
  [s \in DOMAIN resultsOf |->
     LET results == resultsOf[s]
         matching == {k \in DOMAIN results : results[k].strategy = strategy}
     IN results[IF matching = {} THEN 1 ELSE Min(matching)]]

(* The symbols alerted; a vote is never STRONG, so no sale is. *)
monitorMarket(screening) ==
  {s \in DOMAIN screening :
     screening[s].overallSignal \in {"STRONG_BUY", "BUY", "STRONG_SELL"}}

----------------------------------------------------------------------------
CanSummarise(table) == Len(findLatestCandles(table, SummaryLimit)) >= SummaryPeriod

(* Throws unless CanSummarise. *)
getIndicatorSummary(table) ==
  LET t == findLatestCandles(table, SummaryLimit)
      xs == Closes(t)
      average == Last(calculateSMA(xs, SummaryPeriod))
      rsi == Last(calculateRSI(xs, RsiPeriod))
      macd == Last(calculateMACD(xs, FastPeriod, SlowPeriod, SignalPeriod))
      volume == Last(calculateVolumeAnalysis(t, VolumePeriod))
  IN [price |-> [num |-> Last(xs), den |-> 1],
      ma200 |-> [num |-> average, den |-> SummaryPeriod],
      above200MA |-> SummaryPeriod * Last(xs) > average,
      rsi |-> rsi, isOverbought |-> ~RsiBelow(rsi, 70), isOversold |-> ~RsiAbove(rsi, 30),
      isGoldenCross |-> macd.macdLine > macd.signalLine,
      volumeRatio |-> [num |-> volume.num, den |-> volume.den],
      isSurge |-> AtLeast(volume, 20)]

(* A figure of the report is the set of the numbers its field parses to, in   *)
(* hundredths: none for a word, for a field that is missing, and for 0 and    *)
(* NaN, which || replaces by null and then by 'N/A'.                          *)
Missing == {}

Figure(v) ==
  IF v.num = 0 \/ v.den = 0 THEN Missing
  ELSE {(200 * v.num + v.den) \div (2 * v.den)}

(* parseFloat(...) || default. *)
OrElse(figure, default) ==
  IF figure \subseteq {0} THEN default ELSE CHOOSE x \in figure : TRUE

(* The MACD is told by a word, its interpretation. *)
performComprehensiveAnalysis(result, summary) ==
  [overallSignal |-> result.overallSignal,
   currentPrice |-> Figure(summary.price), SMA200 |-> Figure(summary.ma200),
   RSI |-> Figure(summary.rsi), MACD |-> Missing,
   Volume |-> Figure(summary.volumeRatio), AvgVolume |-> {100}]

(* Only these fields are handed on; the signal line of the MACD, the bands,   *)
(* the OBV and the previous price are not among them.                         *)
sendTelegramNotification(analysis) ==
  [signal |-> analysis.overallSignal, price |-> analysis.currentPrice,
   SMA200 |-> analysis.SMA200, RSI |-> analysis.RSI, MACD |-> analysis.MACD,
   MACDSignal |-> Missing, Volume |-> analysis.Volume, AvgVolume |-> analysis.AvgVolume]

(* Variant: the wider zone is tested first. *)
RsiStatusWideFirst(rsi) ==
  IF rsi >= 6000 THEN "strong" ELSE IF rsi >= 7000 THEN "overbought"
  ELSE IF rsi <= 3000 THEN "oversold" ELSE IF rsi <= 4000 THEN "weak" ELSE "neutral"

RsiStatus(rsi) ==
  IF rsi >= 7000 THEN "overbought" ELSE IF rsi <= 3000 THEN "oversold"
  ELSE IF rsi >= 6000 THEN "strong" ELSE IF rsi <= 4000 THEN "weak" ELSE "neutral"

(* The judgements of the report. *)
sendObjectiveAnalysisResult(result) ==
  LET price == OrElse(result.price, 0)
      rsi == OrElse(result.RSI, 5000)
      volume == OrElse(result.Volume, 0)
      macdLine == OrElse(result.MACD, 0)
      macdSignal == OrElse(result.MACDSignal, 0)
  IN [rsiStatus |-> RsiStatus(rsi),
      volume |-> IF volume >= 2 * OrElse(result.AvgVolume, 100) THEN "surge" ELSE "normal",
      shortTerm |-> IF rsi >= 7000 THEN "overbought"
                    ELSE IF result.signal = "BUY" THEN "strong"
                    ELSE IF result.signal = "SELL" THEN "weak" ELSE "neutral",
      mediumTerm |-> IF macdLine > macdSignal THEN "golden cross" ELSE "dead cross",
      longTerm |-> IF price > OrElse(result.SMA200, price) THEN "above" ELSE "below"]

Report(result, summary) ==
  sendObjectiveAnalysisResult(
    sendTelegramNotification(performComprehensiveAnalysis(result, summary)))

----------------------------------------------------------------------------
SameSymbols(screening) == monitorMarket(screening) = findStrongBuySignals(screening)

ScanTellsOwnSignals(signals) ==
  LET resultsOf == [s \in DOMAIN signals |-> AllResults(signals[s])]
  IN \A i \in DOMAIN StrategyTypes :
       LET scan == scanStrategyAcrossSymbols(StrategyTypes[i], resultsOf)
       IN \A s \in DOMAIN signals :
            signals[s][i] # Threw =>
              scan[s] = [strategy |-> StrategyTypes[i], signal |-> signals[s][i]]

(* A scan tells of every symbol what the strategy itself gives there, however *)
(* many others threw before it in the list of results, unless it threw; and a *)
(* symbol is alerted exactly if the search for buy signals finds it. The      *)
(* second symbol was listed one candle ago.                                   *)
ScreeningIsPerSymbol ==
  LET listed == IF candles = <<>> THEN candles ELSE <<Last(candles)>>
  IN /\ ScanTellsOwnSignals(<<AllSignals(candles), AllSignals(listed)>>)
     /\ SameSymbols(screenMultipleSymbols(<<candles, listed>>))

Agrees(summary, report) ==
  /\ summary.isOverbought =>
       report.rsiStatus = "overbought" /\ report.shortTerm = "overbought"
  /\ summary.isOversold =>
       report.rsiStatus = IF Figure(summary.rsi) \subseteq {0} THEN "neutral" ELSE "oversold"
  /\ summary.isSurge => report.volume = "surge"
  /\ report.longTerm = "above" => summary.above200MA

(* The words of the report agree with the flags of the summary it was made    *)
(* from, two roundings and four hand-overs later: overbought and oversold     *)
(* markets and volume surges are called so, and a price that is called above  *)
(* its long average is. The exception is an RSI that rounds to 0: || takes it *)
(* for missing and the report puts 50.                                        *)
ReportAgreesWithTheSummary ==
  CanSummarise(candles) =>
    Agrees(getIndicatorSummary(candles), Report(analyzeSymbol(candles), getIndicatorSummary(candles)))
=============================================================================
