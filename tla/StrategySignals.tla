-------------------------- MODULE StrategySignals --------------------------
(* BasicStrategyService, AdvancedStrategyService and the vote of             *)
(* TechnicalAnalysisService.analyzeSymbol, over the table of 15-minute        *)
(* candles. A strategy is an operator from the table it reads to a signal;    *)
(* the table grows by one candle per step.                                    *)
EXTENDS TechnicalIndicators, SequencesExt

CONSTANTS
  Candles,       \* the candles that may be stored: [high, low, close, volume]
  MaxCandles,    \* bound: candles stored
  LongLimit,     \* rows read by most strategies (100 in the code)
  ShortLimit,    \* rows read by the two reversal strategies (50)
  DayPeriod,     \* SMA of the day-trading strategy (10)
  ShortPeriod,   \* short SMA (20)
  LongPeriod,    \* long SMA (50)
  RsiPeriod,     \* 14
  BandPeriod,    \* 20
  BandWidth,     \* standard deviations of a band (2)
  VolumePeriod,  \* 20
  FastPeriod, SlowPeriod, SignalPeriod  \* MACD (12, 26, 9)

(* What the strategies read of a row of the table; its open only bounds    *)
(* the high and the low. *)
Candle15M == [high : Int, low : Int, close : Int, volume : Int]

ASSUME StrategyAssumption ==
  /\ {MaxCandles, LongLimit, ShortLimit, LongPeriod, SlowPeriod} \subseteq Nat
  /\ DayPeriod \in 1..ShortPeriod
  /\ ShortPeriod \in 1..(LongPeriod - 1)
  /\ FastPeriod \in 1..(SlowPeriod - 1)
  /\ {BandPeriod, BandWidth, VolumePeriod, SignalPeriod} \subseteq Nat \ {0}
  /\ RsiPeriod \in Nat /\ RsiPeriod > 1  \* one change alone is no average
  /\ LongLimit > LongPeriod /\ LongLimit >= SlowPeriod + SignalPeriod
  /\ ShortLimit > RsiPeriod /\ ShortLimit >= BandPeriod
  /\ Candles \subseteq Candle15M

VARIABLE candles   \* the FUTURES rows of one symbol, oldest first

(* What a strategy gives when an indicator lacks candles or a row is missing. *)
Threw == "threw"

(* Variant: the oldest rows are taken. *)
findOldestCandles(table, limit) ==
  SubSeq(table, 1, IF Len(table) < limit THEN Len(table) ELSE limit)

(* The newest rows, oldest first. *)
findLatestCandles(table, limit) ==
  SubSeq(table, Len(table) - (IF Len(table) < limit THEN Len(table) ELSE limit) + 1,
         Len(table))

----------------------------------------------------------------------------
(* Comparisons of an indicator with a threshold. Dividing by zero gives NaN,  *)
(* which compares as false with everything: den = 0 only where num = 0.       *)
IsAbove(v, tenths) == 10 * v.num > tenths * v.den

IsBelow(v, tenths) == 10 * v.num < tenths * v.den

AtLeast(v, tenths) == v.den # 0 /\ ~IsBelow(v, tenths)

AtMost(v, tenths) == v.den # 0 /\ ~IsAbove(v, tenths)

RsiAbove(v, bound) == IsAbove(v, 10 * bound)

RsiBelow(v, bound) == IsBelow(v, 10 * bound)

(* Keeps the sign: distances compare as the squares they are kept with. *)
SignedSquare(x) == IF x < 0 THEN -(x * x) ELSE x * x

TouchesUpper(band) == SignedSquare(band.offset) >= band.reach

TouchesLower(band) == SignedSquare(band.offset) <= -band.reach

(* percentB = 1/2 + offset / (2 * half width): NaN, so false, for a flat band. *)
PercentBAbove(band, tenths) ==
  25 * SignedSquare(band.offset) > SignedSquare(tenths - 5) * band.reach

PercentBBelow(band, tenths) ==
  25 * SignedSquare(band.offset) < SignedSquare(tenths - 5) * band.reach

(* How many of a sequence of conditions hold. *)
Score(conditions) == Len(SelectSeq(conditions, LAMBDA c : c))

CrossesUp(before, now) == before < 0 /\ now > 0

(* Variant: leaving a tie downwards counts as crossing. *)
CrossesDownFromATie(before, now) == before >= 0 /\ now < 0

CrossesDown(before, now) == before > 0 /\ now < 0

(* The short average minus the long one, back candles ago. *)
AverageGap(xs, short, long, back) ==
  LET quick == calculateSMA(xs, short)
      calm == calculateSMA(xs, long)
  IN quick[Len(quick) - back] * long - calm[Len(calm) - back] * short

----------------------------------------------------------------------------
(* A missing previous average is undefined and no crossing. *)
executeMovingAverageCrossoverStrategy(table) ==
  LET xs == Closes(findLatestCandles(table, LongLimit))
      now == AverageGap(xs, ShortPeriod, LongPeriod, 0)
      before == IF Len(xs) > LongPeriod
                  THEN AverageGap(xs, ShortPeriod, LongPeriod, 1) ELSE 0
  IN IF Len(xs) < LongPeriod THEN Threw
     ELSE IF CrossesUp(before, now) THEN "STRONG_BUY"
     ELSE IF CrossesDown(before, now) THEN "STRONG_SELL"
     ELSE IF now > 0 THEN "WEAK_BUY"
     ELSE "WEAK_SELL"

executeBollingerBandsReversalStrategy(table) ==
  LET xs == Closes(findLatestCandles(table, ShortLimit))
      band == Last(calculateBollingerBands(xs, BandPeriod, BandWidth))
      rsi == Last(calculateRSI(xs, RsiPeriod))
  IN IF Len(xs) < BandPeriod \/ Len(xs) < RsiPeriod + 1 THEN Threw
     ELSE IF TouchesUpper(band) /\ RsiAbove(rsi, 70) THEN "STRONG_SELL"
     ELSE IF TouchesLower(band) /\ RsiBelow(rsi, 30) THEN "STRONG_BUY"
     ELSE IF PercentBAbove(band, 8) THEN "WEAK_SELL"
     ELSE IF PercentBBelow(band, 2) THEN "WEAK_BUY"
     ELSE "NEUTRAL"

(* Two values are there whenever the MACD does not throw. *)
MacdSignal(macd) ==
  LET histogram(back) == LET m == macd[Len(macd) - back]
                         IN m.macdLine - m.signalLine
      line == Last(macd).macdLine
  IN IF CrossesUp(histogram(1), histogram(0))
       THEN IF line > 0 THEN "STRONG_BUY" ELSE "BUY"
     ELSE IF CrossesDown(histogram(1), histogram(0))
       THEN IF line < 0 THEN "STRONG_SELL" ELSE "SELL"
     ELSE IF histogram(0) > 0 THEN "WEAK_BUY"
     ELSE "WEAK_SELL"

executeMACDCrossoverStrategy(table) ==
  LET xs == Closes(findLatestCandles(table, LongLimit))
  IN IF Len(xs) < SlowPeriod + SignalPeriod THEN Threw
     ELSE MacdSignal(calculateMACD(xs, FastPeriod, SlowPeriod, SignalPeriod))

(* Levels of the previous candle, three times: a price within half a percent  *)
(* of a support or resistance touches it. The average volume divides by the    *)
(* whole period even when fewer candles are there.                            *)
executePivotReversalStrategy(table) ==
  LET t == findLatestCandles(table, ShortLimit)
      previous == t[Len(t) - 1]
      price == 3 * Last(t).close
      pp == previous.high + previous.low + previous.close
      r1 == 2 * pp - 3 * previous.low
      r2 == pp + 3 * (previous.high - previous.low)
      s1 == 2 * pp - 3 * previous.high
      s2 == pp - 3 * (previous.high - previous.low)
      rsi == Last(calculateRSI(Closes(t), RsiPeriod))
      ratio == [num |-> Last(t).volume * VolumePeriod,
                den |-> LET recent == Volumes(findLatestCandles(t, VolumePeriod))
                        IN SumOver(recent, 1, Len(recent))]
      surge == IsAbove(ratio, 15)
      atSupport == \E s \in {s1, s2} : 200 * price <= 201 * s
      atResistance == \E r \in {r1, r2} : 200 * price >= 199 * r
  IN IF Len(t) < RsiPeriod + 1 THEN Threw
     ELSE IF atSupport /\ RsiBelow(rsi, 30)
       THEN IF surge THEN "STRONG_BUY" ELSE "BUY"
     ELSE IF atResistance /\ RsiAbove(rsi, 70)
       THEN IF surge THEN "STRONG_SELL" ELSE "SELL"
     ELSE IF price > pp /\ price < r1 THEN "WEAK_BUY"
     ELSE IF price < pp /\ price > s1 THEN "WEAK_SELL"
     ELSE "NEUTRAL"

executeTripleConfirmationStrategy(table) ==
  LET t == findLatestCandles(table, LongLimit)
      above == AverageGap(Closes(t), 1, ShortPeriod, 0)
      rsi == Last(calculateRSI(Closes(t), RsiPeriod))
      volume == Last(calculateVolumeAnalysis(t, VolumePeriod))
      buyScore == Score(<<above > 0, ~RsiBelow(rsi, 30) /\ ~RsiAbove(rsi, 70),
                          AtLeast(volume, 12)>>)
      sellScore == Score(<<above < 0, ~RsiBelow(rsi, 70), AtMost(volume, 8)>>)
  IN IF Len(t) < ShortPeriod \/ Len(t) < RsiPeriod + 1 \/ Len(t) < VolumePeriod
       THEN Threw
     ELSE IF buyScore = 3 THEN "STRONG_BUY"
     ELSE IF sellScore = 3 THEN "STRONG_SELL"
     ELSE IF buyScore = 2 THEN "BUY"
     ELSE IF sellScore = 2 THEN "SELL"
     ELSE "NEUTRAL"

executeAllBasicStrategies(table) ==
  << executeMovingAverageCrossoverStrategy(table),
     executeBollingerBandsReversalStrategy(table),
     executeMACDCrossoverStrategy(table),
     executePivotReversalStrategy(table),
     executeTripleConfirmationStrategy(table) >>

----------------------------------------------------------------------------
(* The volume profile and the flows are constants in the code: institutions   *)
(* always accumulate with high volume at the support.                         *)
executeSmartMoneyFlowStrategy(table) == "BUY"

(* One table per timeframe read, each the same 15-minute candles. *)
executeMultiTimeframeTrendStrategy(reads) ==
  LET xs(r) == Closes(findLatestCandles(reads[r], LongLimit))
      bullish == Score([r \in DOMAIN reads |->
                   AverageGap(xs(r), ShortPeriod, LongPeriod, 0) > 0])
  IN IF \E r \in DOMAIN reads : Len(xs(r)) < LongPeriod THEN Threw
     ELSE IF bullish >= 3 THEN "STRONG_BUY"
     ELSE IF Len(reads) - bullish >= 3 THEN "STRONG_SELL"
     ELSE "NEUTRAL"

(* No pattern is ever detected. *)
executePatternRecognitionStrategy(table) == "NEUTRAL"

(* The wave is always the third. *)
executeElliottWaveStrategy(table) == "NEUTRAL"

executeDayTradingStrategy(table) ==
  LET t == findLatestCandles(table, LongLimit)
      xs == Closes(t)
      trend == AverageGap(xs, DayPeriod, ShortPeriod, 0)
      lead == AverageGap(xs, 1, DayPeriod, 0)
      rsi == Last(calculateRSI(xs, RsiPeriod))
      macd == Last(calculateMACD(xs, FastPeriod, SlowPeriod, SignalPeriod))
      band == Last(calculateBollingerBands(xs, BandPeriod, BandWidth))
      volume == Last(calculateVolumeAnalysis(t, VolumePeriod))
      enough == /\ Len(t) >= ShortPeriod /\ Len(t) >= RsiPeriod + 1
                /\ Len(t) >= SlowPeriod + SignalPeriod
                /\ Len(t) >= BandPeriod /\ Len(t) >= VolumePeriod
      risesInHealth ==
        /\ trend > 0 /\ lead > 0
        /\ RsiAbove(rsi, 45) /\ RsiBelow(rsi, 75)
        /\ macd.macdLine > macd.signalLine
        /\ IsAbove(volume, 11)
        /\ PercentBAbove(band, 3) /\ PercentBBelow(band, 8)
      fallsOverextended ==
        /\ trend < 0 /\ lead < 0
        /\ RsiAbove(rsi, 75) \/ RsiBelow(rsi, 30)
        /\ macd.macdLine < macd.signalLine
        /\ IsBelow(volume, 9)
  IN IF ~enough THEN Threw
     ELSE IF risesInHealth THEN "BUY"
     ELSE IF fallsOverextended THEN "SELL"
     ELSE "NEUTRAL"

executeAllAdvancedStrategies(table) ==
  << executeSmartMoneyFlowStrategy(table),
     executeMultiTimeframeTrendStrategy(<<table, table, table, table>>),
     executePatternRecognitionStrategy(table),
     executeElliottWaveStrategy(table),
     executeDayTradingStrategy(table) >>

(* Weak signals do not count; consensus is a share of the strategies. *)
Vote(results) ==
  LET votes(kind) == Score([i \in DOMAIN results |-> results[i] \in kind])
      buys == votes({"BUY", "STRONG_BUY"})
      sells == votes({"SELL", "STRONG_SELL"})
  IN [overallSignal |-> IF buys > sells THEN "BUY"
                        ELSE IF sells > buys THEN "SELL" ELSE "NEUTRAL",
      consensus |-> IF buys > sells THEN buys ELSE sells,
      strategies |-> results]

AllSignals(table) == executeAllBasicStrategies(table) \o executeAllAdvancedStrategies(table)

(* The strategies that did not throw vote. *)
analyzeSymbol(table) == Vote(SelectSeq(AllSignals(table), LAMBDA s : s # Threw))

----------------------------------------------------------------------------
Init == candles = <<>>

(* The entity refuses a row whose prices contradict each other, before it  *)
(* is inserted or updated.                                                 *)
validateBeforeInsert(c) ==
  0 < c.low /\ c.low <= c.close /\ c.close <= c.high /\ c.volume >= 0

NewCandle(c) ==
  /\ Len(candles) < MaxCandles
  /\ validateBeforeInsert(c)
  /\ candles' = Append(candles, c)

Next == \E c \in Candles : NewCandle(c)

Spec == Init /\ [][Next]_candles

----------------------------------------------------------------------------
(* executeMovingAverageCrossoverStrategy looks back within the rows it reads: *)
(* it gives a strong signal exactly when the averages of the table before the *)
(* new candle were on one side and those of the table with it are on the      *)
(* other, also once the rows read no longer reach back to the first candle.   *)
CrossingIsSignalled ==
  [][Len(candles) >= LongPeriod =>
       LET before == AverageGap(Closes(candles), ShortPeriod, LongPeriod, 0)
           now == AverageGap(Closes(candles'), ShortPeriod, LongPeriod, 0)
           signal == executeMovingAverageCrossoverStrategy(candles')
       IN /\ signal = "STRONG_BUY" <=> before < 0 /\ now > 0
          /\ signal = "STRONG_SELL" <=> before > 0 /\ now < 0]_candles

(* calculateRSI's smoothing: a candle that does not close higher never turns  *)
(* the RSI overbought, and one that does not close lower never oversold,      *)
(* as long as the first change stays in the window.                           *)
FallNeverTurnsOverbought ==
  [][Len(candles) > RsiPeriod =>
       LET rsi == Last(calculateRSI(Closes(candles), RsiPeriod))
           next == Last(calculateRSI(Closes(candles'), RsiPeriod))
       IN /\ Last(candles').close <= Last(candles).close =>
               (~RsiBelow(next, 70) => ~RsiBelow(rsi, 70))
          /\ Last(candles').close >= Last(candles).close =>
               (~RsiAbove(next, 30) => ~RsiAbove(rsi, 30))]_candles

(* An average in closed form: the first p values share what is left of the    *)
(* weight after every later value took its 2 / (p + 1). In units of           *)
(* 1/EmaUnit.                                                                 *)
WeightedAverage(xs, p) ==
  LET n == Len(xs)
      weighted == [i \in (p + 1)..n |->
                     2 * EmaUnit(i - 1, p) * Power(p - 1, n - i) * xs[i]]
  IN Power(p - 1, n - p) * SumOver(xs, 1, p) + SumOver(weighted, p + 1, n)

(* calculateMACD subtracts averages of the same candle: its last line is the  *)
(* fast closed-form average of all closes minus the slow one.                 *)
MacdComparesTheSameCandle ==
  LET xs == Closes(candles)
      n == Len(xs)
  IN n >= SlowPeriod + SignalPeriod =>
       Last(calculateMACD(xs, FastPeriod, SlowPeriod, SignalPeriod)).macdLine =
         EmaUnit(n - SlowPeriod + 1, SignalPeriod)
           * (WeightedAverage(xs, FastPeriod) * EmaUnit(n, SlowPeriod)
                - WeightedAverage(xs, SlowPeriod) * EmaUnit(n, FastPeriod))

(* What an indicator gives stays within what the candles span: an average     *)
(* between the lowest and the highest close, VWAP between the lowest low and  *)
(* the highest high once volume was traded; and an ATR counts the gaps, so    *)
(* that closes p candles apart differ by no more than p true ranges.          *)
IndicatorsStayInRange ==
  LET xs == Closes(candles)
      lowest == Min({xs[i] : i \in DOMAIN xs})
      highest == Max({xs[i] : i \in DOMAIN xs})
  IN /\ \A p \in {FastPeriod, SlowPeriod} :
          Len(xs) >= p =>
            \A k \in DOMAIN calculateEMA(xs, p) :
              LET ema == calculateEMA(xs, p)[k]
              IN /\ lowest * EmaUnit(Len(xs), p) <= ema
                 /\ ema <= highest * EmaUnit(Len(xs), p)
     /\ \A k \in DOMAIN candles :
          LET vwap == calculateVWAP(candles)[k]
          IN SumOver(Volumes(candles), 1, k) > 0 =>
               /\ Min({candles[i].low : i \in 1..k}) * vwap.den <= vwap.num
               /\ vwap.num <= Max({candles[i].high : i \in 1..k}) * vwap.den
     /\ \A p \in 1..(Len(candles) - 1) :
          Distance(Last(candles).close, candles[Len(candles) - p].close)
            <= calculateATR(candles, p)

----------------------------------------------------------------------------
(* The market seen upside down: prices reflected between the lowest and the   *)
(* highest of them, volumes kept.                                             *)
Mirrored(cs) ==
  LET top == Max({cs[i].high : i \in DOMAIN cs}) + Min({cs[i].low : i \in DOMAIN cs})
  IN [i \in DOMAIN cs |-> [high |-> top - cs[i].low, low |-> top - cs[i].high,
                           close |-> top - cs[i].close, volume |-> cs[i].volume]]

Opposite(signal) ==
  CASE signal = "STRONG_BUY" -> "STRONG_SELL" [] signal = "STRONG_SELL" -> "STRONG_BUY"
    [] signal = "BUY" -> "SELL" [] signal = "SELL" -> "BUY"
    [] signal = "WEAK_BUY" -> "WEAK_SELL" [] signal = "WEAK_SELL" -> "WEAK_BUY"
    [] OTHER -> signal

(* Buying and selling are judged alike: the crossover, band and MACD          *)
(* strategies answer the mirrored market with the opposite signal. Excepted   *)
(* are ties of the averages and of the MACD with its signal, which the code   *)
(* counts as falling, and an RSI without a fall, where it takes RS as 100.    *)
(* The on-balance volume changes its sign.                                    *)
MirroredMarketMirrorsSignals ==
  LET xs == Closes(findLatestCandles(candles, LongLimit))
      recent == Closes(findLatestCandles(candles, ShortLimit))
      mirror == Mirrored(candles)
      mirrors(signal, mirrored) == mirrored = Opposite(signal)
  IN /\ (Len(xs) >= LongPeriod => AverageGap(xs, ShortPeriod, LongPeriod, 0) # 0) =>
          mirrors(executeMovingAverageCrossoverStrategy(candles),
                  executeMovingAverageCrossoverStrategy(mirror))
     /\ (\E i, j \in 2..Len(recent) : recent[i] > recent[i - 1] /\ recent[j] < recent[j - 1]) =>
          mirrors(executeBollingerBandsReversalStrategy(candles),
                  executeBollingerBandsReversalStrategy(mirror))
     /\ Len(candles) >= VolumePeriod =>
          Last(calculateVolumeAnalysis(candles, VolumePeriod)).obv =
            -Last(calculateVolumeAnalysis(mirror, VolumePeriod)).obv
     /\ (Len(xs) >= SlowPeriod + SignalPeriod =>
           LET macd == Last(calculateMACD(xs, FastPeriod, SlowPeriod, SignalPeriod))
           IN macd.macdLine # macd.signalLine) =>
          mirrors(executeMACDCrossoverStrategy(candles),
                  executeMACDCrossoverStrategy(mirror))
=============================================================================
