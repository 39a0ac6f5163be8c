------------------------ MODULE TechnicalIndicators ------------------------
(* TechnicalIndicatorService: what each indicator computes from a sequence  *)
(* of candles, oldest first. Prices are integers and every result is exact: *)
(* a quotient is kept as its numerator in units the comment names, or as a   *)
(* record [num, den]. An indicator that lacks candles throws; its callers    *)
(* test the length each comment states.                                      *)
EXTENDS Integers, Sequences

AtLeastZero(x) == IF x > 0 THEN x ELSE 0

Distance(x, y) == IF x > y THEN x - y ELSE y - x

LargestOf(x, y, z) == IF x >= y /\ x >= z THEN x ELSE IF y >= z THEN y ELSE z

(* The loop the averages share: a value is kept times keep at every step and  *)
(* added[k] comes to it; entry k is the value after k steps.                  *)
Running(first, keep, added, n) ==
  LET value[k \in 0..n] ==
        IF k = 0 THEN first ELSE keep * value[k - 1] + added[k]
  IN value

(* The sum of xs[i] over from..to. *)
SumOver(xs, from, to) ==
  LET n == to - from + 1
  IN Running(0, 1, [k \in 1..n |-> xs[from + k - 1]], n)[n]

Power(b, n) == Running(1, b, [k \in 1..n |-> 0], n)[n]

Closes(cs) == [i \in DOMAIN cs |-> cs[i].close]

Volumes(cs) == [i \in DOMAIN cs |-> cs[i].volume]

----------------------------------------------------------------------------
(* Sums of the last p values, in units of 1/p; throws below p values. *)
calculateSMA(xs, p) ==
  [k \in 1..(Len(xs) - p + 1) |-> SumOver(xs, k, k + p - 1)]

(* The unit of an EMA of n values is 1/EmaUnit(n, p). *)
EmaUnit(n, p) == p * Power(p + 1, n - p)

(* The first average is simple, each next one is x * m + previous * (1 - m)   *)
(* with m = 2 / (p + 1); throws below p values. The running value is in the   *)
(* unit of its own length and brought to the unit of the whole sequence.      *)
calculateEMA(xs, p) ==
  LET later == Len(xs) - p
      running == Running(SumOver(xs, 1, p), p - 1,
                         [i \in 1..later |-> 2 * EmaUnit(p + i - 1, p) * xs[p + i]], later)
  IN [k \in 1..(later + 1) |-> running[k - 1] * Power(p + 1, later + 1 - k)]

(* Variant: the averages are matched by position instead of by candle. *)
calculateMACDByPosition(xs, fast, slow, signal) ==
  LET quick == calculateEMA(xs, fast)
      calm == calculateEMA(xs, slow)
      line == [k \in DOMAIN calm |->
                 quick[k] * EmaUnit(Len(xs), slow) - calm[k] * EmaUnit(Len(xs), fast)]
      smooth == calculateEMA(line, signal)
  IN [k \in DOMAIN smooth |->
        [macdLine |-> line[k + signal - 1] * EmaUnit(Len(line), signal),
         signalLine |-> smooth[k]]]

(* The averages of fast and slow candles meet at the slow one's first: the    *)
(* MACD line is their difference and the signal line its EMA, both in units   *)
(* of 1/(EmaUnit(fast) * EmaUnit(slow) * EmaUnit(signal)). Throws below       *)
(* slow + signal values.                                                      *)
calculateMACD(xs, fast, slow, signal) ==
  LET quick == calculateEMA(xs, fast)
      calm == calculateEMA(xs, slow)
      line == [k \in DOMAIN calm |->
                 quick[k + slow - fast] * EmaUnit(Len(xs), slow)
                   - calm[k] * EmaUnit(Len(xs), fast)]
      smooth == calculateEMA(line, signal)
  IN [k \in DOMAIN smooth |->
        [macdLine |-> line[k + signal - 1] * EmaUnit(Len(line), signal),
         signalLine |-> smooth[k]]]

Rises(xs) == [i \in 2..Len(xs) |-> AtLeastZero(xs[i] - xs[i - 1])]

Falls(xs) == [i \in 2..Len(xs) |-> AtLeastZero(xs[i - 1] - xs[i])]

(* Without a fall RS is taken as 100. *)
RelativeStrength(gain, loss) ==
  IF loss = 0 THEN [num |-> 100 * 100, den |-> 101]
  ELSE [num |-> 100 * gain, den |-> gain + loss]

(* Variant: a change smooths only its own side. *)
calculateRSIOneSided(xs, p) ==
  LET rise == Rises(xs)
      fall == Falls(xs)
      running[i \in (p + 1)..Len(xs)] ==
        IF i = p + 1
          THEN [gain |-> SumOver(rise, 2, i), loss |-> SumOver(fall, 2, i)]
        ELSE LET before == running[i - 1]
             IN IF rise[i] > 0
                THEN [gain |-> before.gain * (p - 1) + rise[i] * Power(p, i - p - 1),
                      loss |-> before.loss * p]
                ELSE [gain |-> before.gain * p,
                      loss |-> before.loss * (p - 1) + fall[i] * Power(p, i - p - 1)]
  IN [k \in 1..(Len(xs) - p) |->
        RelativeStrength(running[k + p].gain, running[k + p].loss)]

(* Wilder's average of n changes, the first p of them simple, each next       *)
(* entry after one more change. Entry j is in units of 1/p^(j + 1).           *)
Wilder(changes, p, n) ==
  Running(SumOver(changes, 2, p + 1), p - 1,
          [j \in 1..(n - p) |-> changes[p + 1 + j] * Power(p, j)], n - p)

(* From the averages of the rises and of the falls; throws below p + 1        *)
(* values.                                                                    *)
calculateRSI(xs, p) ==
  LET gains == Wilder(Rises(xs), p, Len(xs) - 1)
      losses == Wilder(Falls(xs), p, Len(xs) - 1)
  IN [k \in 1..(Len(xs) - p) |-> RelativeStrength(gains[k - 1], losses[k - 1])]

(* The close's distance from the middle line times p, and the square of the   *)
(* band's half width (width deviations) times p; throws below p values.       *)
calculateBollingerBands(xs, p, width) ==
  LET sums == calculateSMA(xs, p)
      squares == calculateSMA([i \in DOMAIN xs |-> xs[i] * xs[i]], p)
  IN [k \in DOMAIN sums |->
        [offset |-> p * xs[k + p - 1] - sums[k],
         reach |-> width * width * (p * squares[k] - sums[k] * sums[k])]]

(* The last candle's volume over the average of p volumes, as [num, den],     *)
(* and the on-balance volume from candle p on; throws below p candles.        *)
calculateVolumeAnalysis(cs, p) ==
  LET direction == [i \in 2..Len(cs) |->
                      IF cs[i].close > cs[i - 1].close THEN cs[i].volume
                      ELSE IF cs[i].close < cs[i - 1].close THEN -cs[i].volume
                      ELSE 0]
      sums == calculateSMA(Volumes(cs), p)
  IN [k \in DOMAIN sums |->
        [num |-> cs[k + p - 1].volume * p,
         den |-> sums[k],
         obv |-> SumOver(direction, IF p = 1 THEN 2 ELSE p, k + p - 1)]]

(* Amount over volume since the first candle; a typical price is a third of   *)
(* high + low + close. Zero while no volume was traded.                       *)
calculateVWAP(cs) ==
  LET amount == [i \in DOMAIN cs |->
                   (cs[i].high + cs[i].low + cs[i].close) * cs[i].volume]
  IN [k \in DOMAIN cs |->
        LET volume == SumOver(Volumes(cs), 1, k)
        IN IF volume = 0 THEN [num |-> 0, den |-> 1]
           ELSE [num |-> SumOver(amount, 1, k), den |-> 3 * volume]]

(* Variant: the gap to the previous close is not counted. *)
trueRangeOfTheCandle(candle, prevClose) == candle.high - candle.low

trueRange(candle, prevClose) ==
  LargestOf(candle.high - candle.low,
            Distance(candle.high, prevClose),
            Distance(candle.low, prevClose))

(* The sum of the last p true ranges, in units of 1/p; throws below p + 1. *)
calculateATR(cs, p) ==
  SumOver([i \in 2..Len(cs) |-> trueRange(cs[i], cs[i - 1].close)],
          Len(cs) - p + 1, Len(cs))
=============================================================================
