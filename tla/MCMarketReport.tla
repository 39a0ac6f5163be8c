------------------------- MODULE MCMarketReport -------------------------
(* MarketReport for TLC: four candles, with a gap, a wick, no volume and a    *)
(* surge, and two that contradict themselves.                                 *)
EXTENDS MarketReport

MCCandles == { [high |-> 2, low |-> 1, close |-> 1, volume |-> 1],
               [high |-> 5, low |-> 2, close |-> 4, volume |-> 2],
               [high |-> 5, low |-> 5, close |-> 5, volume |-> 0],
               [high |-> 8, low |-> 6, close |-> 6, volume |-> 5],
               [high |-> 4, low |-> 2, close |-> 5, volume |-> 1],
               [high |-> 1, low |-> 0, close |-> 0, volume |-> 1] }
=============================================================================
