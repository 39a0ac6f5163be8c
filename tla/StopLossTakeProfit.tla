------------------------ MODULE StopLossTakeProfit ------------------------
(***************************************************************************)
(* StopLossTakeProfitCalculator: from the setting of a trader to the price *)
(* of a stop or a profit, with the defaults of TradingConfigService.       *)
(* Entry prices are whole, percentages are whole per cents, and prices     *)
(* computed or set are in thousandths.                                     *)
(***************************************************************************)
EXTENDS Integers

Type == {"PERCENT", "PRICE", "NONE"}

(* A value left out is 0. *)
Config(values) == [type : Type, value : values]

Null == 0

(* The setting is a per cent of the entry above or below it, or a price;   *)
(* a price is taken as it is, on whichever side of the entry it stands.    *)
PriceOf(entryPrice, config, direction) ==
  IF config.type = "NONE" \/ config.value = 0 THEN Null
  ELSE IF config.type = "PRICE" THEN config.value
  ELSE entryPrice * 10 * (100 + direction * config.value)

calculateStopLossPrice(entryPrice, stopLoss, side) ==
  PriceOf(entryPrice, stopLoss, IF side = "LONG" THEN -1 ELSE 1)

(* Variant: the profit of a SHORT above its entry, as of a LONG. *)
TakeProfitOfALong(entryPrice, takeProfit, side) == PriceOf(entryPrice, takeProfit, 1)

calculateTakeProfitPrice(entryPrice, takeProfit, side) ==
  PriceOf(entryPrice, takeProfit, IF side = "LONG" THEN 1 ELSE -1)

calculateFuturesStopLossTakeProfit(entryPrice, side, stopLoss, takeProfit) ==
  [stopLossPrice |-> calculateStopLossPrice(entryPrice, stopLoss, side),
   takeProfitPrice |-> calculateTakeProfitPrice(entryPrice, takeProfit, side)]

calculateSpotStopLossTakeProfit(entryPrice, stopLoss, takeProfit) ==
  calculateFuturesStopLossTakeProfit(entryPrice, "LONG", stopLoss, takeProfit)

(* The side is not looked at: any positive price is a valid stop. *)
IsValid(config) ==
  config.type # "NONE" =>
    /\ config.value > 0
    /\ config.type = "PERCENT" => config.value < 100

validateStopLossTakeProfit(stopLoss, takeProfit) == IsValid(stopLoss) /\ IsValid(takeProfit)

Percent(value) == [type |-> "PERCENT", value |-> value]

getSpotDefaultConfig == [stopLossPercent |-> 3, takeProfitPercent |-> 6]
getFuturesDefaultConfig == [stopLossPercent |-> 2, takeProfitPercent |-> 4]
=============================================================================
