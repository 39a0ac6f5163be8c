---------------------------- MODULE MCAutoTrading ----------------------------
(* AutoTrading for TLC: one result that only sells, as the analysis service  *)
(* announces it, one with its levels that buys, and one that does neither.   *)
EXTENDS AutoTrading, TLC

MCHoldings == {0, 1}

Sells == [overallSignal |-> "SELL", currentPrice |-> 3000, supports |-> {0},
          resistances |-> {0}, rsi |-> 0, volumeRatio |-> 10]
Buys == [overallSignal |-> "STRONG_BUY", currentPrice |-> 3000, supports |-> {2990, 2900},
         resistances |-> {3100, 3200}, rsi |-> 29, volumeRatio |-> 15]
Waits == [overallSignal |-> "STRONG_BUY", currentPrice |-> 3000, supports |-> {2980, 2900},
          resistances |-> {3100, 3200}, rsi |-> 29, volumeRatio |-> 15]
MCAnalyses == {Sells, Buys, Waits}

MCEnvMultiplier == [k \in ConfigKeys |-> IF k = StopKey THEN 28 ELSE 13]

(* The stop alone, or both with a profit of 0, which `||` ignores. *)
MCSettings == {[k \in {StopKey} |-> 15], [k \in ConfigKeys |-> IF k = StopKey THEN 20 ELSE 0]}

CallSymmetry == Permutations(Calls)
=============================================================================
