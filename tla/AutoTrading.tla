---------------------------- MODULE AutoTrading ----------------------------
(***************************************************************************)
(* AutoTradingService between the analysis it is told of and the           *)
(* FuturesService it signals, with the cache its stops come from and the   *)
(* ATRController that changes them.                                        *)
(*                                                                         *)
(* The handler of 'analysis.completed' awaits twice, for the position and  *)
(* for the balance; everything else is synchronous, the emission of        *)
(* 'trading.signal' included, which runs FuturesService.handleTradingSignal*)
(* up to its own first await (SignalArrives).  At this commit the service  *)
(* listens on the application's emitter and the analyses are announced on  *)
(* another one, so what reaches it is external: Analyses.                  *)
(*                                                                         *)
(* A position read from the exchange has neither `quantity` nor `side`:    *)
(* any position counts as held and none as LONG or SHORT, so a held symbol *)
(* is never switched, and the switching code is not part of a behaviour.   *)
(***************************************************************************)
EXTENDS FuturesTrading

CONSTANTS
  Handlers,       \* analysis handlers in flight at once
  Analyses,       \* results announced: see AnalysisResult
  Balances,       \* available USDT the account may show
  PositionSizePercent,
  EnvMultiplier,  \* the multipliers of the environment, in tenths
  Settings,       \* what PUT auto-trading/atr/config may set
  Atrs,           \* values calculateATR may return
  Ttl,
  MaxAnalyses, MaxChanges   \* bounds: analyses; changes of the cache

VARIABLES
  apc,        \* handler: the await it is suspended at
  result,     \* handler: symbol and result of the analysis
  blind,      \* handler: its read of the position failed, or the position moved since
  carried,    \* call: `blind` of the handler that signalled it
  signal,     \* the last trading.signal
  cache,
  told,       \* audit: the value last put under a key, Absent after Ttl ticks
  analysed, changes

autoVars == <<apc, result, blind, signal, analysed>>
cacheVars == <<cache, told, changes>>
systemVars == <<vars, autoVars, carried, cacheVars>>

AtrKey(s) == <<"atr", s>>
StopKey == <<"config", "stopLossMultiplier">>
ProfitKey == <<"config", "takeProfitMultiplier">>
ConfigKeys == {StopKey, ProfitKey}
Keys == ConfigKeys \cup {AtrKey(s) : s \in Symbols}

Cache == INSTANCE CacheService WITH Values <- Nat
Stops == INSTANCE StopLossTakeProfit

(* Levels, RSI and volume ratio (in tenths) are 0 where the event carries  *)
(* none or 'N/A'; `||` gives those 0, 50 and 1.0.                          *)
AnalysisResult ==
  [overallSignal : {"STRONG_BUY", "BUY", "NEUTRAL", "SELL", "STRONG_SELL"},
   currentPrice : Nat \ {0}, supports : SUBSET Nat, resistances : SUBSET Nat,
   rsi : 0..100, volumeRatio : Nat]

ASSUME AutoTradingAssumption ==
  /\ Analyses \subseteq AnalysisResult /\ Analyses # {}
  /\ Balances \subseteq Nat /\ PositionSizePercent \in 1..100
  /\ EnvMultiplier \in [ConfigKeys -> Nat \ {0}]
  /\ \A f \in Settings : DOMAIN f \subseteq ConfigKeys /\ \A k \in DOMAIN f : f[k] \in Nat
  /\ Atrs \subseteq Nat /\ Ttl \in Nat \ {0}

-----------------------------------------------------------------------------
(* Touched within PIVOT_TOUCH_TOLERANCE (0.5%).  A missing level is 0, and *)
(* every price is above it: without levels a resistance is always touched. *)
TouchesSupport(r) == \E l \in r.supports : r.currentPrice * 1000 <= l * 1005
TouchesResistance(r) == \E l \in r.resistances : r.currentPrice * 1000 >= l * 995

IsRsiOversold(r) == r.rsi # 0 /\ r.rsi < 30
IsRsiOverbought(r) == r.rsi > 70
IsVolumeSurge(r) == r.volumeRatio > 15

AtLeastTwo(a, b, c) == (a /\ b) \/ (a /\ c) \/ (b /\ c)

CheckLongEntryConditions(r) ==
  AtLeastTwo(TouchesSupport(r), IsRsiOversold(r), IsVolumeSurge(r))
CheckShortEntryConditions(r) ==
  TouchesResistance(r) \/ IsRsiOverbought(r) \/ IsVolumeSurge(r)

(* The side handleNewPosition enters; BUY alone enters nothing. *)
Enters(r, side) ==
  \/ side = "LONG" /\ r.overallSignal = "STRONG_BUY" /\ CheckLongEntryConditions(r)
  \/ /\ side = "SHORT" /\ r.overallSignal \in {"STRONG_SELL", "SELL"}
     /\ CheckShortEntryConditions(r)

(* calculatePositionSize, in lots: the share of the balance, leveraged. *)
CalculatePositionSize(balance, price) ==
  (balance * PositionSizePercent * SignalLeverage * 1000) \div (100 * price)

DefaultPositionSize == 1

ASSUME SizesAreBounded ==
  \A b \in Balances, r \in Analyses : CalculatePositionSize(b, r.currentPrice) <= MaxQty

-----------------------------------------------------------------------------
Multiplier(k) == IF Cache!Get(k) # Cache!Absent THEN Cache!Get(k) ELSE EnvMultiplier[k]

(* Distances and prices of a signal are in thousandths.  Without an ATR    *)
(* (none cached, or 0) the defaults of TradingConfigService apply.         *)
AtrDistance(s, k) == Cache!Get(AtrKey(s)) * Multiplier(k) * 100
DefaultPercent ==
  LET config == Stops!getFuturesDefaultConfig
  IN  [k \in ConfigKeys |-> IF k = StopKey THEN config.stopLossPercent
                            ELSE config.takeProfitPercent]
Distance(s, price, k) ==
  IF Cache!Get(AtrKey(s)) # Cache!Absent THEN AtrDistance(s, k)
  ELSE price * 10 * DefaultPercent[k]

CalculateATRBasedStopLoss(s, price, side) ==
  IF side = "LONG" THEN price * 1000 - Distance(s, price, StopKey)
  ELSE price * 1000 + Distance(s, price, StopKey)
CalculateATRBasedTakeProfit(s, price, side) ==
  IF side = "LONG" THEN price * 1000 + Distance(s, price, ProfitKey)
  ELSE price * 1000 - Distance(s, price, ProfitKey)

-----------------------------------------------------------------------------
NoResult == [symbol |-> CHOOSE s \in Symbols : TRUE, analysis |-> CHOOSE r \in Analyses : TRUE]
NoSignal == [symbol |-> NoResult.symbol, side |-> "LONG", entryPrice |-> 0,
             stopLoss |-> 0, takeProfit |-> 0]
Forgotten == [value |-> Cache!Absent, age |-> Ttl + 1]

(* initializeATR: at start-up the ATR of every symbol with enough candles. *)
InitializeATR(entries, remembered) ==
  \E atr \in Atrs, known \in SUBSET Symbols :
    LET entry == [value |-> atr, age |-> 0]
        keys == {AtrKey(s) : s \in known}
    IN  /\ entries = [k \in keys |-> entry]
        /\ remembered = [k \in Keys |-> IF k \in keys THEN entry ELSE Forgotten]

AutoInit ==
  /\ Init
  /\ InitializeATR(cache, told)
  /\ apc = [a \in Handlers |-> "idle"]
  /\ result = [a \in Handlers |-> NoResult]
  /\ blind = [a \in Handlers |-> FALSE]
  /\ carried = [c \in Calls |-> FALSE]
  /\ signal = NoSignal
  /\ analysed = 0 /\ changes = 0

(* handleAnalysisCompleted runs to its read of the position. *)
AnalysisCompleted(a, s, r) ==
  /\ apc[a] = "idle" /\ analysed < MaxAnalyses
  /\ apc' = [apc EXCEPT ![a] = "position"]
  /\ result' = [result EXCEPT ![a] = [symbol |-> s, analysis |-> r]]
  /\ analysed' = analysed + 1
  /\ UNCHANGED <<vars, blind, signal, carried, cacheVars>>

HandlerEnds(a) ==
  /\ apc' = [apc EXCEPT ![a] = "idle"]
  /\ result' = [result EXCEPT ![a] = NoResult]
  /\ blind' = [blind EXCEPT ![a] = FALSE]

(* Variant: the position that was found is not looked at. *)
DecideOnAnalysisHeld(a, held, failed) ==
  /\ apc[a] = "position"
  /\ LET enters == \E side \in Side : Enters(result[a].analysis, side)
     IN  \/ enters /\ apc' = [apc EXCEPT ![a] = "balance"]
            /\ blind' = [blind EXCEPT ![a] = failed] /\ UNCHANGED result
         \/ ~enters /\ HandlerEnds(a)
  /\ UNCHANGED <<vars, signal, analysed, carried, cacheVars>>

(* Held: handlePositionManagement, which finds no side to switch from.     *)
(* Not held: handleNewPosition, up to the read of the balance.             *)
DecideOnAnalysis(a, held, failed) ==
  /\ apc[a] = "position"
  /\ LET enters == ~held /\ \E side \in Side : Enters(result[a].analysis, side)
     IN  \/ enters /\ apc' = [apc EXCEPT ![a] = "balance"]
            /\ blind' = [blind EXCEPT ![a] = failed] /\ UNCHANGED result
         \/ ~enters /\ HandlerEnds(a)
  /\ UNCHANGED <<vars, signal, analysed, carried, cacheVars>>

(* A read that fails is an empty list in getActivePositions: no position. *)
PositionRead(a) == DecideOnAnalysis(a, position[result[a].symbol] # 0, FALSE)
PositionReadFails(a) == DecideOnAnalysis(a, FALSE, TRUE)

(* trading.signal is emitted and reaches FuturesService in the same step.  *)
EmitSignal(a, c, quantity) ==
  /\ apc[a] = "balance"
  /\ \E side \in Side :
       LET s == result[a].symbol
           price == result[a].analysis.currentPrice
       IN  /\ Enters(result[a].analysis, side)
           /\ SignalArrives(c, s, side, quantity)
           /\ signal' = [symbol |-> s, side |-> side, entryPrice |-> price * 1000,
                         stopLoss |-> CalculateATRBasedStopLoss(s, price, side),
                         takeProfit |-> CalculateATRBasedTakeProfit(s, price, side)]
           /\ Cache!Read({AtrKey(s), StopKey, ProfitKey})
  /\ carried' = [carried EXCEPT ![c] = blind[a]]
  /\ HandlerEnds(a)
  /\ UNCHANGED <<analysed, told, changes>>

BalanceRead(a, c) ==
  \E b \in Balances \ {0} :
    EmitSignal(a, c, CalculatePositionSize(b, result[a].analysis.currentPrice))
BalanceReadFails(a, c) == EmitSignal(a, c, DefaultPositionSize)

(* No USDT, or none available: the entry is given up. *)
BalanceIsZero(a) ==
  /\ apc[a] = "balance" /\ 0 \in Balances
  /\ HandlerEnds(a)
  /\ UNCHANGED <<vars, signal, analysed, carried, cacheVars>>

-----------------------------------------------------------------------------
(* Values put in the cache, and what the audit remembers of them. *)
Put(values) ==
  /\ changes < MaxChanges
  /\ changes' = changes + 1
  /\ cache' = Cache!SetAll(values)
  /\ told' = [k \in Keys |->
                IF k \in DOMAIN values THEN [value |-> values[k], age |-> 0] ELSE told[k]]
  /\ UNCHANGED <<vars, autoVars, carried>>

UpdateATRConfig == \E f \in Settings : Put(f)
CalculateAndCacheATR(s) == \E atr \in Atrs : Put([k \in {AtrKey(s)} |-> atr])

(* Reads that only drop what has expired: getATRConfig,                    *)
(* getATRCacheStatus and the cleanup task.                                 *)
GetATRConfig == Cache!Read(ConfigKeys)
GetATRCacheStatus == Cache!Read(Keys)

CacheIsRead ==
  /\ GetATRConfig \/ GetATRCacheStatus \/ Cache!Cleanup
  /\ UNCHANGED <<vars, autoVars, carried, told, changes>>

TimePasses ==
  /\ Cache!TimePasses
  /\ told' = [k \in Keys |-> IF told[k].age >= Ttl THEN Forgotten
                             ELSE [told[k] EXCEPT !.age = @ + 1]]
  /\ UNCHANGED <<vars, autoVars, carried, changes>>

-----------------------------------------------------------------------------
(* A step of FuturesService or the exchange: a handler whose symbol moved  *)
(* knows the position no longer, nor does a call it has signalled.         *)
FuturesStep ==
  /\ \/ \E c \in Calls :
          \/ Progress(c) \/ Reply(c)
          \/ \E s \in Symbols :
               \/ CloseAllPosition(c, s)
               \/ \E side \in Side, lev \in Leverages : OpenPosition(c, s, side, 1, lev)
     \/ \E s \in Liquidatable : Liquidate(s)
  /\ LET moved(s) == position'[s] # position[s]
     IN  /\ blind' = [a \in Handlers |->
                        blind[a] \/ (apc[a] = "balance" /\ moved(result[a].symbol))]
         /\ carried' = [c \in Calls |->
                          pc'[c] # "idle" /\ (carried[c] \/ moved(job[c].symbol))]
  /\ UNCHANGED <<apc, result, signal, analysed, cacheVars>>

RestartAll ==
  /\ Restart
  /\ apc' = [a \in Handlers |-> "idle"]
  /\ result' = [a \in Handlers |-> NoResult]
  /\ blind' = [a \in Handlers |-> FALSE]
  /\ carried' = [c \in Calls |-> FALSE]
  /\ InitializeATR(cache', told')
  /\ UNCHANGED <<signal, analysed, changes>>

AutoNext ==
  \/ \E a \in Handlers :
       \/ \E s \in Symbols, r \in Analyses : AnalysisCompleted(a, s, r)
       \/ PositionRead(a) \/ PositionReadFails(a) \/ BalanceIsZero(a)
       \/ \E c \in Calls : BalanceRead(a, c) \/ BalanceReadFails(a, c)
  \/ UpdateATRConfig
  \/ \E s \in Symbols : CalculateAndCacheATR(s)
  \/ CacheIsRead \/ TimePasses
  \/ FuturesStep
  \/ RestartAll

AutoSpec == AutoInit /\ [][AutoNext]_systemVars

-----------------------------------------------------------------------------
(* Two reads guard an automatic entry, AutoTradingService's and            *)
(* FuturesService's, and each takes a failed read for "no position".  An   *)
(* entry about to add to a position is blind twice: each read failed or    *)
(* the position moved after it.  One failure alone never doubles one.      *)
AddsOnlyWhenTwiceBlind ==
  \A c \in Calls :
    pc[c] = "placing" /\ job[c].op = "signal" /\ position[job[c].symbol] # 0
      => carried[c] /\ (~job[c].sure \/ "position" \in stale[c])

(* The stops of a signal stand on their sides of the entry, at the         *)
(* distance the settings and the ATR of the last hour give: what the       *)
(* operator set holds for its hour, whatever is read, cleaned up or        *)
(* computed meanwhile, and nothing older is ever used.  Without an ATR     *)
(* they are what StopLossTakeProfitCalculator makes of the defaults.       *)
StopsAreCurrent ==
  [][\A a \in Handlers :
       apc[a] = "balance" /\ apc'[a] = "idle" /\ started' # started =>
         LET s == signal'.symbol
             current(k) == IF told[k].value # 0 THEN told[k].value ELSE EnvMultiplier[k]
             atr == told[AtrKey(s)].value
             sign == IF signal'.side = "LONG" THEN 1 ELSE -1
             defaults == Stops!getFuturesDefaultConfig
         IN  /\ s = result[a].symbol
             /\ atr # 0 =>
                  /\ sign * (signal'.entryPrice - signal'.stopLoss) = atr * current(StopKey) * 100
                  /\ sign * (signal'.takeProfit - signal'.entryPrice) = atr * current(ProfitKey) * 100
             /\ atr = 0 =>
                  [stopLossPrice |-> signal'.stopLoss, takeProfitPrice |-> signal'.takeProfit] =
                    Stops!calculateFuturesStopLossTakeProfit(
                      signal'.entryPrice \div 1000, signal'.side,
                      Stops!Percent(defaults.stopLossPercent),
                      Stops!Percent(defaults.takeProfitPercent))]_systemVars

(* What a trader may ask for at the price of the last signal: percentages  *)
(* that pass the validation put a positive stop and profit on their sides  *)
(* of the entry; the stop of one side is the profit of the other; and a    *)
(* price computed and sent back as a price setting is itself valid and     *)
(* comes back unchanged.                                                   *)
PercentagesBracketTheEntry ==
  LET entry == signal.entryPrice \div 1000
      settings == {c \in Stops!Config({0, 1, 99, 100}) : c.type = "PERCENT" /\ Stops!IsValid(c)}
      price(value) == [type |-> "PRICE", value |-> value]
  IN  entry > 0 =>
        \A stop, profit \in settings :
          LET long == Stops!calculateSpotStopLossTakeProfit(entry, stop, profit)
              short == Stops!calculateFuturesStopLossTakeProfit(entry, "SHORT", profit, stop)
          IN  /\ 0 < long.stopLossPrice /\ long.stopLossPrice < signal.entryPrice
              /\ signal.entryPrice < long.takeProfitPrice
              /\ short.takeProfitPrice = long.stopLossPrice
              /\ short.stopLossPrice = long.takeProfitPrice
              /\ LET again == Stops!calculateFuturesStopLossTakeProfit(entry, "LONG",
                                price(long.stopLossPrice), price(long.takeProfitPrice))
                 IN  /\ again = long
                     /\ Stops!validateStopLossTakeProfit(price(long.stopLossPrice),
                                                         price(long.takeProfitPrice))
=============================================================================
