# Quant-Backend in TLA+

Quant-Backend is a NestJS trading backend. It streams 15-minute candles from
Binance into a table, analyses them with technical indicators, turns the
analyses into signals and notifications, and moves a futures and a spot account.
It is one Node process: code between two `await`s runs alone, and everything
hard about it happens *at* the awaits: two handlers of the same symbol suspended
at once, a reply that never comes, a reconnect that overtakes a close, a restart
that forgets the memory and keeps the tables and the accounts.

This directory holds TLA+ modules of the parts with state that can go wrong, the
TLC configurations that check them on small instances, and TLAPS proofs of the
safety properties for every instance. `PROJECT.json` lists components, runs, mutants,
findings, hazards and theorems, and maps every definition to the source lines it
models.

Contents: [1 the system](#1-the-system) · [2 the modules](#2-the-modules) ·
[3 the runs](#3-the-runs) · [4 fairness](#4-fairness) ·
[5 where code and documents disagree](#5-where-code-and-documents-disagree) ·
[6 what is proved](#6-what-is-proved) · [7 assumptions](#7-assumptions-about-what-is-outside) ·
[8 not modelled](#8-what-is-not-modelled) · [9 plan](#9-plan)

Run with `tlc -config MCFuturesSystem.cfg MCFuturesSystem` (each cfg names its
module in `PROJECT.json`) and with `tlapm SpotSystem_proofs.tla`, and so for each of
the eight modules `*_proofs` of section 2.

## 1. The system

```
   Binance streams                      Binance REST
        |                                   |
  BinanceWebSocketClient            BinanceHistoryDataService
        | klines                            | pages of candles
  Candle15MService  ---- saveCandle --->  Candle15MRepository (table)
        | candle.saved                      ^ reads
  TechnicalAnalysisEventService --> strategies, indicators, analyzeSymbol
        | analysis.completed
        +--> NotificationService --> Telegram
        :
  AutoTradingService  -- trading.signal -->  FuturesService --> futures account
     ^ ATR, settings                           | trade.executed
  CacheService <-- ATRController               | futures.position.opened/closed
                                               |        +--> PositionMonitoringService
  OrderService --> spot account                |                 --> streams
        | trade.executed                       |
        +--> TransactionService <--------------+
                --> spot / futures / bitcoin tables
```

Components interact by direct awaited calls, by synchronous events on the
application's EventEmitter2, by callbacks from sockets and timers, and through
shared stores: the candle table, the accounts at the exchange and the cache.
The paths below are relative to `src/src/`.

| Component | State | Operations | What makes it correct |
|---|---|---|---|
| `futures/service/FuturesService` | none of its own: the account at the exchange, and the locals of suspended calls | open, close, closeAll, switch, add, reduce, the `trading.signal` handler, setLeverage, transferFunds, setMarginType | an order does what its operation promises, at the leverage asked for; every executed order is reported; a protective order never opens a position |
| `futures/service/PositionMonitoringService` | `subscriptions` map with a reference count | handlers of `futures.position.opened/closed` | the trade stream is subscribed exactly while referenced (the kline streams are never dropped, section 5); references are neither invented nor negative |
| `market-data/.../Candle15MService` | `memoryCandles`, `latestCandles`, `MONITORED_SYMBOLS`, connection status, registered listeners | kline handler, subscribe, unsubscribe, initial load, health check, restart | memory bounded, and sorted as long as no message is overtaken on another socket; each completed candle stored and announced, or reported as failed; a symbol nobody streams is reported |
| `market-data/.../Candle15MRepository` | table `candles_15m` (unique per symbol, market, open time) | saveCandle, reads | saving twice leaves one row, with the newest knowledge of the candle |
| `market-data/.../BinanceHistoryDataService` | the locals of a running collection | collectHistoricalData, collectDataInRange | pages meet, nothing fetched is dropped, a failing page does not end the call, every call ends |
| `common/binance/BinanceWebSocketClient` | subscriptions, connections, attempts, per connection key | subscribe, unsubscribe, open/close/error, reconnect timer | subscribed streams get a live socket, or the client has given up after all attempts |
| `technical-analysis/.../TechnicalIndicatorService` | none | SMA, EMA, MACD, RSI, bands, volume, VWAP, ATR | exact definitions: the right window, the right candle |
| `technical-analysis/.../BasicStrategyService`, `AdvancedStrategyService`, `TechnicalAnalysisService` | none (read the table) | ten strategies, `analyzeSymbol`, screening and scanning of several symbols, the summary | a crossing is signalled by the candle that makes it; buying and selling judged alike; what is told of a symbol is that symbol's |
| `technical-analysis/.../TechnicalAnalysisEventService` | an EventEmitter of its own, the cached ATR | handler of `candle.saved` | every `candle.saved` taken up ends in `analysis.completed`; a failed analysis is not told as a signal |
| `notification/NotificationService`, `TelegramClient` | set of sent keys | handler of `analysis.completed`, the report, send | no message twice, none suppressed that was never sent; the report's words agree with its figures |
| `auto-trading/AutoTradingService` | none (reads the cache and the account) | handler of `analysis.completed`, long/short entries | no entry on top of a position; stops on their sides of the entry, from the settings of the hour |
| `common/cache/CacheService`, `ATRController` | expiring map | set, get, has, pattern reads, cleanup; settings | an expired entry is never used, a fresh one never lost |
| `common/utils/StopLossTakeProfitCalculator`, `TradingConfigService` | none | prices of stops and profits, validation, defaults | stop and profit on the right sides; what validation lets through is meaningful |
| `order/OrderService` | the spot account at the exchange | market and limit buy/sell, cancel | an order only on a balance that covers it |
| `transaction/TransactionService` | three tables | handler of `trade.executed` | every executed trade comes to exactly one end; the tables agree |
| `StrategyRepository`, `common/binance/BinanceRestClient`, `Candle15MGateway`, `BinanceCandle15MStream` | | | dead code at this commit: injected or provided nowhere |
| `ExchangeRateService`, controllers, test module, configuration, migrations | none that outlives a call | | results in range; input validated |

Hard behaviours, by kind (each one at its line under `hazards`): two futures
calls interleaved at their reads; an order executed whose reply is lost; a read
that fails and is taken for "no position"; a balance read one await before the
order; a trade saved in one table and not in the other; two handlers of one
kline; the collector and the stream saving the same candle with different
knowledge of it; the unique-index race of two inserts; reconnect timers, late
close events and new subscriptions in any order; a restart between any two steps;
paging boundaries with retries and failing saves; strategy thresholds, ties and
divisions by zero; figures rounded and defaulted on their way to the report;
overlapping analyses and notifications; expiring settings.

## 2. The modules

| Module | Models | Composes |
|---|---|---|
| `FuturesTrading` | FuturesService, BinanceFuturesClient orders, the account | |
| `PositionMonitoring` | PositionMonitoringService | |
| `FuturesSystem` | the two behind the event bus | FuturesTrading, `INSTANCE PositionMonitoring` |
| `FuturesTrading_proofs`, `FuturesSystem_proofs` | theorems | FuturesTrading, FuturesSystem |
| `AutoTrading` | AutoTradingService, ATRController, the ATR job | FuturesTrading, `INSTANCE` of `CacheService` and `StopLossTakeProfit` |
| `AutoTrading_proofs` | theorems | AutoTrading, FuturesTrading_proofs |
| `CacheService` | CacheService | |
| `StopLossTakeProfit` | StopLossTakeProfitCalculator, TradingConfigService's defaults | |
| `SpotTrading` | OrderService, the spot account, transferFunds | |
| `TradeRecords` | TransactionService's listener and tables | |
| `TradeJournal` | *abstract*: what keeping a journal of trades means | |
| `SpotSystem` | orders and records behind the event bus | SpotTrading, `INSTANCE TradeRecords`, refines TradeJournal |
| `SpotSystem_proofs` | theorems | SpotSystem |
| `CandleStore` | Candle15MRepository: table and `saveCandle` | |
| `CandleIngestion` | Candle15MService: klines | CandleStore |
| `HistoryCollection` | BinanceHistoryDataService | CandleStore |
| `CandleSystem` | stream and collector over one table | CandleIngestion, HistoryCollection |
| `CandleSystem_proofs` | theorems, of CandleIngestion, CandleStore and HistoryCollection, alone and composed | CandleSystem |
| `BinanceWebSocket` | BinanceWebSocketClient, one connection key | |
| `CandleMonitoring` | Candle15MService: subscriptions and health check | BinanceWebSocket |
| `CandleMonitoring_proofs` | theorems, also of BinanceWebSocket | CandleMonitoring |
| `TechnicalIndicators` | TechnicalIndicatorService | |
| `StrategySignals` | basic and advanced strategies, analyzeSymbol | TechnicalIndicators |
| `MarketReport` | screening, summary, report | StrategySignals |
| `MarketReport_proofs` | theorems, also of TechnicalIndicators and StrategySignals | MarketReport |
| `AnalysisPipeline` | TechnicalAnalysisEventService, NotificationService, the Telegram post | |
| `AnalysisPipeline_proofs` | theorems | AnalysisPipeline |
| `MC*` | constants for TLC | |

The convention throughout: **a step is the code from one await to the next.** A
variable `pc` (or a field `pc`) says at which await a handler is suspended, a
record (`job`, `save`, `handler`) holds its locals, and the guard of the next
step is the code that runs when the await returns. A read takes effect and is
acted on in the same step, which is the latest moment it can be true; what
happens between that read and the *effect* of the handler's next statement is
where the interleavings are. Definitions called "Variant" in a comment are
plausible mistakes in the code; `PROJECT.json` puts each in the place of the
real definition and TLC then refutes the property it is paired with.

**FuturesTrading.** `position` and `leverage` are the account. A call goes
`SignalArrives / OpenPosition / ClosePosition / ...` (arguments validated, first
await) to the reads (`SignalRead`, `SetLeverage`, `PassChecks`,
`ReadForCloseAll`, `ReadForClose`, `ReadForChange`), then `Execute` (the exchange
executes its order) and `Reply` (the HTTP reply arrives and the events are
emitted). `Execute` and `Reply` are apart because events are emitted in the
order of replies, not of executions. `Fail` is an exception at any await,
`SetLeverageReplyLost` and `ReplyLost` an effect whose reply is lost,
`SetLeverageRequest` the request that only sets the leverage, `Liquidate`
the exchange, `Restart` the process. Four audit variables, which no guard reads,
let properties speak about what calls did not know: `ledger` (what the
`trade.executed` events add up to), `unseen` (what moved and is not reported
yet), `stale` (what others changed since the call read it), `raced` and `missed`
(whether a symbol saw a stale order, or a movement nobody will report).
Quantities are whole lots of 0.001, the smallest quantity the service accepts.

**PositionMonitoring, FuturesSystem.** The two handlers run synchronously inside
the emit of a reply, so `ReplyAndNotify` joins them into one step; a restart
empties the map while the position stays. `subscribed` is what the client holds
of the symbol's streams, with `Unsubscribed` for what its `unsubscribe` finds, the
same as in `BinanceWebSocket`.

**AutoTrading.** The handler of `analysis.completed` awaits the position and the
balance (`PositionRead`, `BalanceRead`), and the emission of `trading.signal`
runs FuturesService's handler up to its own read of the position, so `EmitSignal`
begins a call of `FuturesTrading` in the same step. Each of the two services reads
the position and takes a failed read for none: `blind` and `carried` (audit)
record for a handler, and for the call it signalled, that its read failed or
became untrue. The cache is an instance of `CacheService`: an entry has an age,
and an expired one stays in the map until a read of its key or the cleanup meets
it. `told` (audit) is what the operator and the ATR job last put there and when.
Stops are computed in thousandths by exact integer arithmetic.

**StopLossTakeProfit.** Pure operators with the code's names. Only the test
endpoints call the calculator, with any prices and settings, so
`PercentagesBracketTheEntry` states what a trader may rely on.

**SpotTrading, TradeRecords, SpotSystem.** A spot call checks its arguments,
awaits the balances (`DecideOnBalance`), then the order, which the exchange
numbers and executes (`ExecuteMarketOrder`) or rests (`RestLimitOrder`) before its
reply arrives; `Fill` is the market reaching a resting order, which nobody hears
of. `TransferFunds` of FuturesService takes from the same balances. The reply of a
market order emits `trade.executed`, whose handler (`TradeRecords`) inserts into
the spot table, the futures table and, for bitcoin, a third one; the emitter does
not wait for it, an insert may fail or land without its answer, and nothing is
retried. Every event goes to both trade tables. The closing half of a futures
switch has an order number with `_close` behind it, which the bigint column
refuses: kind `closeLeg`.

**TradeJournal** is the abstract specification: a trade is executed once and comes
to exactly one end, recorded, told to have failed, or lost. `SpotSystem` maps
each order number to its fate (`FateOf`: an order is *executed* from the
exchange's step until the handler of its event is over, *recorded* in both
tables, *told* with `transaction.trade.save.failed`, *lost* with a reply or the
process) and `KeepsTheJournal` checks that the services implement it, fairness
included.

**CandleStore.** `row[t]` is what the table has of candle `t`: absent, in
progress, or final. A save is `find`, `write`, and after a unique violation
`reread`; a statement may fail, or take effect and lose its reply (`SaveThrows`).

**CandleIngestion.** Each kline message reaches every registered listener
(`Deliver`), so a handler is a triple of socket, message, listener. It updates
`memory` at once, awaits `findByOpenTime` if the cached row is not newer
(`ReadLatest`), and for a final kline starts a save it does not await; the save's
promise ends the handler (`Announce`). `isNew` is computed before the await and
used after the save. Unsubscribing forgets the symbol but not the listener;
subscribing adds one and loads the table into memory in two awaits.

**HistoryCollection.** `collectHistoricalData` from the last stored row, or from
the window's start, in pages, with retries, batches and saves through
`CandleStore`. `fetched`, `unsaved` and `skipped` are audit fields of a call.

**CandleSystem.** Both over one table, with the exchange's clock: a candle the
collector fetches while it lasts is a candle in progress.

**BinanceWebSocket.** One key with its stream set, sockets as external objects
which report opening, failing and closing later than they are asked, and the
timers. A socket carries the streams in its URL, those of the moment it was made.

**CandleMonitoring.** What Candle15MService knows of its symbols over that client:
the monitored set, the symbols start-up has still to come to, listeners, the
connection status and the time since the last kline, counted in steps of five
minutes because the health check asks for ten. `PerformHealthCheck` looks at the
symbols and awaits the database before it emits what it found (`HealthReported`).
Positions subscribe and unsubscribe streams on the same key (`ClientStep`).

**TechnicalIndicators, StrategySignals.** The code computes floating-point
quotients; the modules keep numerators in a unit given at each operator, so
every comparison is exact and a property cannot fail or hold by rounding. A
division by zero is a fraction with denominator 0, which compares false as NaN
does. The strategies are operators from the table to a signal; the only action,
`NewCandle`, grows the table by a candle that passes the entity's
`validateBeforeInsert`, because what matters over time is which rows a
strategy takes (`findLatestCandles`) and what the next candle changes. The loops
over the candles that the averages share (`for ... sum += ...`, `ema = ... + ema *
...`, Wilder's smoothing) are one function, `Running`: a value kept times a factor,
to which each step adds something.

**MarketReport.** Operators over several tables: `screenMultipleSymbols`,
`findStrongBuySignals`, `scanStrategyAcrossSymbols`, `monitorMarket`, and the way of
the figures to the user: `getIndicatorSummary`, the fields of `analysis.completed`,
those NotificationService hands on, and the judgements of TelegramClient's report.
A figure is the set of numbers its field parses to, in hundredths, empty for a
word, a missing field, 0 and NaN: `toFixed`, `|| 'N/A'` and `parseFloat(...) ||
default` are modelled by what they do.

**AnalysisPipeline.** One symbol. An analysis is one `candle.saved` event that
announces a new candle (updates are ignored), from the query for the ATR through
the indicator summary, the votes of the basic and the advanced strategies and the
exchange rate to `analysis.completed`, whose listener runs inside the emit until
it awaits the post. Nothing queues the events, so analyses overlap. A table is
known by its number of candles and each query reads the table of its moment; the
two vote groups are given as functions of the table (`BasicVotes`,
`AdvancedVotes`; what strategies compute is StrategySignals' subject), or 0 when
their queries fail. Below 200 candles the summary throws and the analysis is the
default, `HOLD` at price 0. The strategies executed before the summary leave no
trace: their results are dropped by the emit. A message's key is its signal and
minute; symbol and type are the same for all, the time frame is missing in the
notification's data. Keys are recorded with the life of the process, since the
map of sent messages is in memory. `delivered`, `refused` and `doubled` are audit
variables. `analysis.error` is unreachable here: every callee of the handler
catches its own exceptions.

Facts of the code worth knowing when reading the indicators and strategies: `smart money
flow`, `pattern recognition` and `Elliott wave` call helpers that return
constants, so `analyzeSymbol` votes BUY on a symbol with no candles at all;
`multi-timeframe trend` reads the same 15-minute rows four times; a market
without a fall has RSI 99 because the relative strength is then set to 100; a tie
of two averages counts as falling, and a crossing that passes through an exact
tie is signalled by neither candle.

## 3. The runs

All passing runs switch the deadlock check off because requests, messages, and
candles are bounded: when they are used up the system really has nothing to do.

| Run | Module / cfg | Shows |
|---|---|---|
| `futures_core` | MCFuturesSystem | `FreshOrdersKeepPromises`, `LeverageHonoured`, `BooksBalance`, `UnseenOnlyInFlight`, `TradeStreamFollowsReferences`, `ReduceOnlyNeverFlips`, types |
| `close_all_flip` | MCFuturesSystem / MCCloseAll | violation of `CloseAllNeverFlips` |
| `auto_trading` | MCAutoTrading | `AddsOnlyWhenTwiceBlind`, `StopsAreCurrent`, `PercentagesBracketTheEntry` |
| `spot_journal` | MCSpotSystem | `FreshOrdersAreCovered`, `RowsFollowEachOther`, `KeepsTheJournal` (refinement, with liveness) |
| `candle_ingestion` | MCCandleIngestion | `AnnouncedIsStored`, `EveryFinalIsTold`, types |
| `finals_are_told` | MCCandleIngestion / MCFinalsAreTold | `OnlyOvertakingUnsorts`, `FinalsAreTold` (liveness) |
| `history` | MCHistoryCollection | `NothingFetchedIsDropped`, `PagesMeet`, `CollectionEnds` (liveness), types |
| `stale_partial` | MCCandleSystem / MCStalePartial | violation of `FinalRowsStay` |
| `websocket` | BinanceWebSocket / MCBinanceWebSocket | `ConnectionIsAlive`, `GivesUpLate`, `SubscribedReconnects` (liveness), types |
| `candle_monitoring` | CandleMonitoring / MCCandleMonitoring | `ReconnectHeals`, `SilentIsReported` (liveness) |
| `indicators` | MCMarketReport | `MacdComparesTheSameCandle`, `IndicatorsStayInRange`, `MirroredMarketMirrorsSignals`, `CrossingIsSignalled`, `FallNeverTurnsOverbought`, `ScreeningIsPerSymbol`, `ReportAgreesWithTheSummary` |
| `analysis` | MCAnalysisPipeline | `SentTwiceOnlyTogether`, `SuppressedWasTold`, `ToldIsPriced`, `EveryCandleIsAnalysed` (liveness), types |

The type invariants of the modules without one in this table (`SpotSystemTypeOK`,
`CacheTypeOK`, `MonitoringTypeOK`) are stated beside the properties. They hold on
the same instances and are not part of the runs; the first and the last are proved
(section 6).

Bounds, and why they are enough:

- **futures_core**: one symbol, because calls on different symbols share nothing
  but the event bus (the proofs cover any set of symbols); two call slots, since
  every hazard is one call acting on what another changed; three requests, a
  request for the leverage among them, so a pair can overlap on a position a third
  one made; quantities 0 and 1, where 0 is "everything"; positions at start of 0,
  1 and -2, so a close can be partial or refused and both sides occur; one
  liquidation-prone symbol and one restart. The call slots are symmetric: no
  action, invariant or bound distinguishes them, and no liveness property is
  checked in this run.
- **close_all_flip**: the smallest instance with the counterexample; `MaxQty` is 2 so
  that a partial close exists.
- **auto_trading**: one symbol, one analysis and two calls, of which a signal takes
  one and a manual open or close the other; both begin with the position flat or
  held. At either service the read can fail, and the manual call or a liquidation can
  move the position before it, after it, or between the two reads. The three results are one that sells without
  levels (as the event of this commit carries none), one that buys by touching its
  support, and one that just misses every condition. One change of the settings or
  the ATR, a lifetime of one tick and any number of ticks: values are fresh,
  expired and still present, and dropped. Sizes are bounded by an ASSUME. Call
  slots are symmetric, the handler is one.
- **spot_journal**: two calls and two requests (transfers and cancellations count),
  two order numbers, two coins of which one is bitcoin, one price, a restart. Two
  handlers of `trade.executed` interleave, and a second request may spend or move
  what the first one counted on. No symmetry: the run has a temporal property.
- **candle_ingestion**: three candles (the memory holds two, so trimming
  happens), two listeners, two handlers in flight, one restart. Two listeners in
  flight is what one unsubscribe/subscribe pair makes, and one message to both
  fills the two places. One socket.
- **finals_are_told**: two sockets of the stream, which the client may have open at
  once (section 5), so that messages are overtaken and two handlers of one candle
  overlap at any distance; two candles, one listener per socket, two handlers in
  flight, one restart, which reloads the memory from the table. The load of a
  resubscription, without two sockets, is in `candle_ingestion`; the theorem of
  section 6 has both.
- **history**: five candles of which the first two precede the listing; a window
  of three, pages of two and batches of two, so a page straddles a batch and the
  last page is partial; two tries per page in place of three; two collectors
  overlap, as two REST requests do.
- **stale_partial**: one collector beside the stream, two candles.
- **websocket**: three sockets alive or due at once, two attempts, one stream
  with an underscore in its name and one without, because `unsubscribe` treats
  them differently.
- **candle_monitoring**: two symbols and one position stream on a key with one
  socket and one reconnect attempt, after which the client has given up: the
  symbols then stay silent, which is the case to report. One health check is in
  flight while klines, subscriptions and closes go on; steps of five minutes up to
  the first that counts as silent. Several sockets at once are `websocket`'s
  subject.
- **indicators**: every sequence of up to seven out of six candles, two of which the
  entity refuses for contradicting themselves. Each limit
  and period is scaled down with its relation kept (short < long < limit, slow +
  signal ≤ limit, the reversal strategies read fewer rows, the summary needs the
  longest average); the table outgrows the limit, so the window slides. The other
  four candles contain a gap, a wick, a candle without volume and a volume surge.
- **analysis**: two analyses, because every hazard is one analysis (or message)
  overlapping another, or following it; three candles with thresholds of two, so
  an analysis can start below, at and above them and a candle can be saved between
  any two of its queries; votes that agree, cancel and outvote each other; one
  change of minute and one restart.

## 4. Fairness

Safety properties need none, also in the runs whose specification states some.
The six liveness properties assume only what the code's scheduling gives:

- `FinalsAreTold`: each statement sent to the database is answered, well or badly
  (`WF` of `Answer(h)` for each handler). The driver settles every promise, and
  the handler's continuation then runs. A restart ends a handler and is excepted
  by name.
- `CollectionEnds`: each request of a collection is answered (`WF` of
  `Progress(c)`). That every page, good, empty or failing, moves the loop on is
  what the property shows.
- `SubscribedReconnects`: timers fire, a socket asked to close reports the close,
  and a socket aborted while connecting reports its error. No fairness is
  assumed of opening: connecting may last forever, which counts as alive here.
- `SilentIsReported`: time passes, the interval of the health check fires and the
  database answers its `checkHealth`, well or badly. Nothing is assumed of sockets,
  timers or requests: the claim is that their failing is noticed.
- `EveryCandleIsAnalysed`: each query and each post of an analysis is answered, well
  or badly (`WF` of `Step(e)`); axios and the driver settle their promises. A
  restart ends an analysis and is excepted by name.
- `KeepsTheJournal`: an order's reply arrives or is given up, and each insert of a
  handler is answered, well or badly. Under that the abstract journal's own
  fairness holds: no executed market trade stays without its end.

## 5. Where code and documents disagree

Each is a run that TLC must find violated; `findings` quotes both sides.

1. `close_all_flip`: `closeAllPosition` promises to prevent closing too much, but
   passes the size it read as a plain quantity, which is not reduce-only. Two
   overlapping closes turn the position to the other side. (A close *without*
   quantity is reduce-only and safe: `ReduceOnlyNeverFlips`, proved.)
2. `stale_partial`: a candle fetched in progress is saved after the stream's
   final one and overwrites it.

Noted while modelling, without a run.

*Futures and automatic trading*

- `closePosition` announces a partial close like a full one (`FuturesService` 301),
  so the trade stream of a position that is still open is dropped, against
  PositionMonitoringService's line 19.
- PositionMonitoringService (141, 164) means to unsubscribe all three streams with the
  last position. `BinanceWebSocketClient.unsubscribe` (215) splits the key at `_` and keeps
  two parts, so `futures_x@kline_1m` names `x@kline`, which is in no set: the 1m and 5m
  streams stay subscribed and are in the URL of every later socket, as
  `TradeStreamFollowsReferences` states. Nothing removes the listeners either, so each
  reopening adds three.
- Two overlapping signals (`handleTradingSignal` is not awaited) both read "no position"
  and both open (1170); leverage set between `setLeverage` and the order of another call
  (112) is the one it opens at; a trade whose reply is lost is looked for by nobody
  (206). The properties excuse these cases by name, and say that there are no others.
- The closing half of a switch is reported under `<n>_close` (834), which the bigint
  column of TransactionService's tables refuses: it is never recorded.
- AutoTradingService listens to `analysis.completed` on the application's bus while
  TechnicalAnalysisEventService emits it on an emitter of its own (360): at this
  commit no analysis reaches it. `AutoTrading` models what it does with one.
- A position read from the exchange has neither `side` nor `quantity`, so a held
  symbol is never switched. Analysis events carry no pivot levels; the missing
  resistance defaults to 0 and is always "touched", so every SELL enters. A BUY
  enters nothing, only STRONG_BUY does, which the vote never gives.
  `checkShortToLongSwitch` reads `support1` for `support2` (459).
- The stops of a signal are never placed as orders; `stopLoss` and `takeProfit` of a
  request are ignored by the services. A PRICE setting is not checked against the
  side of the position.
- A size computed from the full balance is refused by the exchange when the price
  moved meanwhile.

*Spot and records*

- OrderService passes the price where `calculateMaxSellableQuantity` expects a fee
  rate (459): a limit buy is refused although the balance covers it. What passes is
  covered (`FreshOrdersAreCovered`).
- Limit fills are never reported; `trade.closed` is emitted by nobody; a market sell
  has no smallest notional; each event is stored in both the spot and the futures
  table; the statistics use unquoted aliases and give 0.

*Candles*

- Unsubscribing leaves the listener: after resubscribing, one candle is announced
  twice (`Candle15MService` 992, 688). A late kline of an unsubscribed symbol
  recreates its status.
- The collector stores the candle in progress; if a kline then caches this row as the
  latest one, the completed candle passes for a duplicate (1268, against
  line 48): it is stored, but no analysis follows.
- A subscription between the loss of a socket and its reconnect timer opens a socket, and
  the timer another (`BinanceWebSocketClient` 313, 401): both then deliver every kline. The
  slower one appends a candle to `memoryCandles` that is older than its last, because
  `updateMemoryCache` compares with the last only, although the array is documented as
  sorted (`Candle15MService` 70). `OnlyOvertakingUnsorts` says that there is no other way;
  TLC finds `[]Ascending(memory)` violated in five states of `finals_are_told`'s instance.
- A second symbol subscribed on a connected key is not carried by the open socket
  (`BinanceWebSocketClient` 313; `market-data/README.md` 10 says it is streamed).
  `ReconnectHeals` and `SilentIsReported` say what remains of it.
- An empty first page ends a collection (`BinanceHistoryDataService` 241); a save that
  throws is only logged and leaves a hole (495), which later calls, resuming after
  the newest row, do not fill.
- `BinanceWebSocketClient` emits `'error'` without a listener (368), which ends the
  process. `scheduleReconnect` of Candle15MService is unreachable.

*Analysis and report*

- The report's MACD is a word and the signal line is not handed on, so its medium
  term is always "dead cross" (`TelegramClient` 734-778, against
  `docs/15분봉_기술적분석_지표_전략_정리.md` 87). Its bands, OBV and the change over 15 minutes are
  constants for the same reason. An RSI of 0 becomes 50.
- A scan gives another strategy's result when the wanted one threw, and throws itself
  on an empty list. `monitorMarket` never alerts a plain SELL and ignores the
  strategies and time frames it is given.
- Each strategy reads the table again after its own await (`TechnicalAnalysisService`
  118), so a vote may be split over two tables. A motionless market has RSI 99.
- TelegramClient swallows a failed post, so NotificationService marks the message
  SENT, and its equals of the same minute are suppressed; its own FAILED branch is
  hardly reachable. `SuppressedWasTold` therefore allows a refused message. The test
  endpoint's messages use up keys of real ones, and its test candle writes memory
  under a key of its own spelling. The map of sent messages is never cleaned.
- `initializeATR` and overlapping analyses write the cached ATR in the order their
  queries return, so a younger value may be replaced by an older one.

## 6. What is proved

Eight modules of theorems, each beside the module it is about: 42 theorems. Every
safety invariant and action property of the passing runs is proved for every value
of the constants: any set of symbols, calls, sockets, collectors and so on, any
candles, periods and limits, any bounds. What is left to TLC is liveness (at the
end of this section).

**Futures** (`FuturesTrading_proofs`, `FuturesSystem_proofs`)

| Theorem | Says |
|---|---|
| `TypeCorrect`, `SystemTypeCorrect` | `Spec => []TypeOK`, `SystemSpec => []SystemTypeOK` |
| `OrdersKeepPromises` | `Spec => []FreshOrdersKeepPromises` |
| `LeverageIsHonoured` | `Spec => []LeverageHonoured` |
| `BooksAlwaysBalance` | `Spec => []BooksBalance` |
| `ReduceOnlyProtects` | `Spec => ReduceOnlyNeverFlips` |
| `NothingGoesUnreported` | `Spec => []UnseenOnlyInFlight` |
| `SystemImplementsTrading` | `SystemSpec => Spec` |
| `TradeStreamFollows` | `SystemSpec => []StreamsFollowReferences` |

None of the safety properties of `FuturesTrading` is inductive: they speak of an
order about to be executed, and whether it is right depends on what its call read
some awaits ago. The inductive invariant `IInv` adds, for every call, what it has
to remember: `OpsMatch` (at this await only these operations are suspended),
`Knows` (what the call's locals say of the position, as long as nobody moved it),
`Reports` (the trades it is going to report are those its order makes, while
fresh; once placed, those that were executed) and `Honours` (the leverage),
together with `TypeOK` and `BooksBalance`. `BooksBalance` needs `Reports` because
the ledger is increased by what a call *decided* and the position moved by what
the exchange *executed*, two steps apart. `NextIInv` has one step per action, split
by which call's facts the action can disturb: its own, or those of others through
`Outdate`. The action property needs in addition that only `Execute` takes a call
from placing to placed (`OnlyExecutePlaces`) and a fact about `Executed`
(`ReduceOnlyShrinks`).

`UnseenOnlyInFlight` says that what moved unseen is the sum of `filled` over the
calls in flight. The sum over a finite set is a fold, about which nothing can be
proved without induction; `Tally` says the same of a *listing* of the calls with
its partial sums, and three lemmas (none, one more, one less) are all the actions
need.

`SystemImplementsTrading` shows that a step of the composition with
PositionMonitoringService is a step of FuturesService, or none; the theorems above
therefore hold of what the run checks. `TradeStreamFollowsReferences` is inductive
together with the types of the monitor's maps (`MonitoringInv`), which only a
reply with a notice and a restart touch. It says of the kline streams what
`unsubscribe` does of them, which is nothing (`HeldFacts`).

**Automatic trading** (`AutoTrading_proofs`)

| Theorem | Says |
|---|---|
| `AutoImplementsTrading` | `AutoSpec => Spec` of `FuturesTrading` |
| `EntriesAddOnlyBlindly` | `AutoSpec => []AddsOnlyWhenTwiceBlind` |
| `PercentagesAlwaysBracket` | `AutoSpec => []PercentagesBracketTheEntry` |
| `StopsAreAlwaysCurrent` | `AutoSpec => StopsAreCurrent` |

The first makes AutoTradingService one more caller of FuturesService, whose `IInv`
it then borrows. `BlindInv` says what a handler, and the call it signalled, know
of the position unless their read failed or was overtaken. `CacheInv` relates the
map, in which an expired entry stays until somebody meets it, to what the audit
`told` remembers of the last hour; with it, what a signal reads is what was last
set (`CurrentMultipliers`) and the prices follow (`SignalStops`). The bracketing
is arithmetic over any entry price and percentage (`Brackets`), of which
`PercentagesBracketTheEntry` is the instance at the price of the last signal.

**Spot and records** (`SpotSystem_proofs`)

| Theorem | Says |
|---|---|
| `AccountsAreTyped` | `SystemSpec => []SpotSystemTypeOK`: no balance below zero |
| `OrdersAreCovered` | `SystemSpec => []FreshOrdersAreCovered` |
| `RowsAlwaysFollow` | `SystemSpec => []RowsFollowEachOther` |
| `ServicesKeepAJournal` | `SystemSpec => Journal!JournalSafety` |

`FreshOrdersAreCovered` is inductive with the types: the two lemmas on whole
quantities (`QuotientFits`, `PricedQuantityFits`) show that what passes the check
of the balance is covered, also the quantity that line 459 of OrderService
divides by the wrong argument, and every other step that takes from an asset marks
the calls it outran. For the records `JournalInv` gives every number at most one
placed call (`OwnNumbers`) and every handler the rows its stage implies (`RowInv`).
The refinement follows from it action by action: a step moves the fate of one
trade by one step of the journal (`OneTradeMoves`) or of none
(`QuietIsJournalStep`), and a restart loses all that were executed and unfinished
(`RestartLosesTrades`). `JournalSafety` is the journal without its fairness.

**Candles** (`CandleSystem_proofs`)

| Theorem | Says |
|---|---|
| `IngestionIsTyped` | `Spec => []IngestionTypeOK` |
| `AnnouncedIsAlwaysStored` | `Spec => []AnnouncedIsStored` |
| `EveryFinalIsAlwaysTold` | `Spec => []EveryFinalIsTold` |
| `OnlyOvertakingUnsortsMemory` | `Spec => OnlyOvertakingUnsorts` |
| `HistoryIsTyped` | `HistorySpec => []HistoryTypeOK` |
| `NothingIsEverDropped` | `HistorySpec => []NothingFetchedIsDropped` |
| `PagesAlwaysMeet` | `HistorySpec => []PagesMeet` |
| `CallsKeepTheirPromises` | the last three of `SystemSpec`, beside the stream |
| `AnnouncedAlwaysHasARow` | `SystemSpec => [](IngestionTypeOK /\ AnnouncedHasARow)` |

`IngestionInv` follows a candle from the kline to the row: a handler is of a
message already sent (`SlotsInv`), the save it holds is of its own candle
(`SavesInv`, `HandlersInv`), a row is final and some handler told or will tell of
it (`RowsInv`), and so for the row in `latestCandles` (`CachedInv`), which is what
makes a quiet duplicate harmless. `OnlyOvertakingUnsorts` needs that every candle in
the memory was reached by some connection (`MemoryInv`), because
`updateMemoryCache` compares only with its last element: rows loaded from the table
were (`RowsAreReached`), since somebody told of them. A message that unsorts the
memory is older than a candle in it, hence than what that candle's connection has
come to. With one connection there is no such message and the memory is always
sorted; with two it need not be (section 5), so the theorem states the step that
unsorts it and assumes nothing of the number of connections.

`HistoryInv` says of each call that what it fetched is with it, in the table or
failed (`Kept`, `Owned`), that a call which gave no page up has every candle from
its start to `currentTime` (`Paged`), and where it stands in the loop (`Placed`);
`Looped` and `Broken`, the two ways a page ends, each have a lemma. The two system
theorems show which of the promises survive the composition over one table: those of
the collector all of them (a save of the other side removes no row), of the
stream's the weaker `AnnouncedHasARow`, since the run `stale_partial` refutes the
stronger one. They assume `Collectors \cap Handlers = {}`: a call of the collector
is not a handler of a kline.

**WebSocket and monitoring** (`CandleMonitoring_proofs`)

| Theorem | Says |
|---|---|
| `ClientIsTyped` | `Spec => []WebSocketTypeOK` |
| `MapHoldsTheLiving` | `Spec => []ConnectionIsAlive` |
| `ClientGivesUpLate` | `Spec => []GivesUpLate` |
| `MonitoringIsTyped` | `MonitoringSpec => []MonitoringTypeOK` |
| `ReconnectsAlwaysHeal` | `MonitoringSpec => ReconnectHeals` |

`WSInv` adds to the three that a timer has room for its socket (`RoomInv`, a
statement about the cardinality of the sockets in use) and that attempts and
losses agree (`AttemptsInv`). The monitoring takes only steps of the client
(`MonitoringStepIsAClientStep`), which hands `WSInv` over, and adds that whoever
is monitored is subscribed (`HeardInv`): a new socket carries all subscriptions.

**Analysis and notification** (`AnalysisPipeline_proofs`)

| Theorem | Says |
|---|---|
| `AnalysesAreTyped` | `Spec => []AnalysisTypeOK` |
| `DuplicatesOverlap` | `Spec => []SentTwiceOnlyTogether` |
| `SuppressedWasAlwaysTold` | `Spec => []SuppressedWasTold` |
| `ToldIsAlwaysPriced` | `Spec => []ToldIsPriced` |

`LocalsInv` says at each await what the locals of an analysis are worth: from the
summary on, a signal other than `HOLD` was priced over a table with its candle.
`MessagesInv` adds to the two properties about duplicates that a marked key was
delivered or refused in this life of the process (`SentInv`), whose messages were
delivered (`DeliveredInv`), and that two messages in flight with one key are known
as doubled (`SendInv`): that is the await between the check and the mark.

**Indicators, strategies and report** (`MarketReport_proofs`)

| Theorem | Says |
|---|---|
| `MacdSameCandle` | `Spec => []MacdComparesTheSameCandle` |
| `RangesKept` | `Spec => []IndicatorsStayInRange` |
| `CrossingSignalled` | `Spec => CrossingIsSignalled` |
| `FallsCoolTheRsi` | `Spec => FallNeverTurnsOverbought` |
| `MirrorsSignals` | `Spec => []MirroredMarketMirrorsSignals` |
| `ReportAgrees` | `Spec => []ReportAgreesWithTheSummary` |
| `ScreeningPerSymbol` | `Spec => []ScreeningIsPerSymbol` |

The inductive invariant is short: `TableInv` says that every row passed
`validateBeforeInsert` (the low is positive and no higher than the close, the close no
higher than the high, the volume is not negative). All the rest is what the
operators compute from such a table, of any length.

The loops are recursive functions, and the library's induction theorems take a
predicate as a parameter, which the provers cannot instantiate. `Counting` gets
induction as a fact about a *set* (0 is in it, and with k also k + 1) from the
library's well-founded order on the naturals, and `RunningEquations` that a loop
satisfies its equations. From these follow the lemmas the theorems share: the sum
of combined values is the combination of the sums (`SumLinear`), smaller values have
smaller sums (`SumMonotone`), exponents add (`PowerSum`), and an exponential average
of values moved and stretched is the average moved and stretched (`EmaStretched`).

- `MacdSameCandle`: every entry of `calculateEMA` in closed form (`EmaIsWeighted`),
  and which entries `calculateMACD` subtracts (`MacdEntries`).
- `RangesKept`: the average stays above what its values stay above (`EmaAbove`,
  and `EmaBelow` as its reflection), the amount lies between lowest and highest price
  times the volume term by term (`VwapInRange`), and one true range bridges one gap
  (`AtrCountsGaps`, by `Counting` over the number of candles).
- `CrossingSignalled`: the rows a strategy reads are the end of the table
  (`LatestRows`), a gap of averages depends on nothing before its window
  (`GapOfLatest`), and the previous gap of the new table is the last one of the old
  (`GapBefore`).
- `FallsCoolTheRsi`: a candle scales both averages alike and adds to one side only
  (`RsiNext`), so the ratio moves with it.
- `MirrorsSignals`: closes reflected at a middle price turn the sign of every gap
  (`FacingGap`), of the MACD (`MacdOpposed`) and of a band's offset, but not its
  spread (`FacingSpread`), and swap rises with falls (`FacingChanges`). The band's two
  sides exclude each other because the spread is not negative (`SpreadType`, the
  inequality between the square of a sum and the sum of squares), and an RSI is not
  in its special case once there was a rise and a fall (`WilderPositive`).
- `ReportAgrees`: a figure rounded to hundredths stays on its side of every whole
  hundredth (`FigureIs`), so the zero of `||` is the only value the report mistakes
  (`RsiIsCalled`, `SurgeIsCalled`, `PriceIsCalled`).
- `ScreeningPerSymbol`: the list of results has an entry of every strategy that did
  not throw, and no other (`ResultsOfAll`), and names are unique (`TenNames`). It needs
  no invariant.

**From which assumptions.** Only the named `ASSUME`s of the modules, which TLC
evaluates on every run: sets that are finite or nonempty where the code has them
so, positive limits and periods, leverages within 1..125, integer holdings and
balances, the settings' keys. One says something of the model rather than of the
code: `SizesAreBounded`, by which an automatic size stays within `MaxQty` (the
bound of a quantity in `FuturesTrading`, any number). `StrategyAssumption` asks for
an RSI of at least two changes (the code has 14): with one, the smoothing forgets
every earlier change, a candle that does not move has neither rise nor fall, its RSI
is 99, and `FallNeverTurnsOverbought` fails.

**Only model-checked.**

- Liveness: `FinalsAreTold`, `CollectionEnds`, `SubscribedReconnects`,
  `SilentIsReported`, `EveryCandleIsAnalysed`, and the fairness half of
  `KeepsTheJournal`. The provers have neither ENABLED nor rules for fairness.
- The violations of `close_all_flip` and `stale_partial` are single behaviours, which
  TLC shows.

## 7. Assumptions about what is outside

- A reduce-only order never takes the position past zero; without a quantity it
  closes what is there. The account is in one-way mode, one net position per
  symbol.
- The spot exchange executes an order it can cover at a price of the moment, numbers
  orders in sequence, locks what a resting order needs, and refuses to cancel what
  is gone. Fees are left out.
- The socket that replaces a lost one goes on after the messages lost. The theorems
  about candles hold for any number of sockets of the stream.
- A socket delivers klines in order; messages sent while it is down are lost. Per
  candle the model's stream has one kline in progress and the final one: more of
  the former repeat the same handler.
- The exchange answers a page that precedes the listing with an empty one.
- PostgreSQL refuses the second insert of a unique key and a text in a bigint column,
  and executes statements one at a time.
- Node throws on an `'error'` event without a listener; `BinanceWebSocketClient`
  emits one and nobody registers, so `Failed` restarts the client's state.

Bounds of the models, each a CONSTANT or a conjunct of a guard: `MaxRequests`,
`MaxRestarts`, `MaxQty` (futures); in addition `MaxAnalyses`, `MaxChanges`, `Handlers`
(automatic trading); `MaxRequests`, `MaxRestarts`, `MaxAsk`, `MaxOrders`, `Calls`
(spot); `NumCandles`, `MaxListeners`, `MaxInFlight`,
`MaxRestarts`, one load at a time (ingestion); `NumCandles` as the clock's end
(history); `Sockets` against `Load` (websocket); `Checks` (monitoring); `MaxCandles`
(strategies, report); `NumCandles`, `MaxMinutes`, `MaxRestarts`, the set `Analyses`
(analysis). `MaxMemory`, `MaxAttempts`, `MaxRetries`, `PageSize`, `BatchSize`, `Ttl`,
the window, limits and periods are not bounds but the code's own constants, scaled.

## 8. What is not modelled

In modelled components: `setMarginType` (what it sets is read by nothing in the
program); read-only queries, statistics and status reports; `cleanupOldCandles`, the
websocket client's `unsubscribeAll` and `disconnect` (no callers);
`collectDataInRange` (the same loop with explicit dates); Candle15MService's two test
entry points; the switching half of AutoTradingService (unreachable, section 5);
`handleTradeClosed` of TransactionService (its event is never emitted);
`executeAdvancedStrategies` and `generateAndSendComprehensiveReport` (no callers); the
threshold detector and the indicators no strategy uses (candle patterns,
divergences, Fibonacci).

The notifications of individual, advanced and practical strategies: no code emits
`individual.signal`, and `analysis.completed` is built without the two lists, so
their handlers never run; other channels are stubs. The layout of messages.

Components left out for good:

- `ExchangeRateService`: a stateless sequence of HTTP sources with a default.
- Dead code: `StrategyRepository` (its reads sort the stored list in place, newest
  first, so the next save over the limit would drop the newest), `BinanceRestClient`
  (its waiters would each reset the window's counter), `Candle15MGateway`,
  `BinanceCandle15MStream` and its manager.
- Controllers and DTOs beyond the checks that guard the actions, the test module,
  bootstrap, configuration and migrations.

## 9. Plan

Done, in this order of importance: what moves money (FuturesTrading, AutoTrading,
SpotTrading), what records and monitors it (TradeRecords against TradeJournal,
PositionMonitoring), what feeds the analyses (candles, history, sockets, health
check), what decides (indicators, strategies), what tells the user (MarketReport,
AnalysisPipeline); then the proofs of every safety property of the runs. What could
follow:

1. **CacheService**: that an expired entry is never read, for any users of the cache;
   so far it is part of `CacheInv`, with AutoTradingService as the user.
2. **CandleMonitoring beside CandleIngestion**: the two models of Candle15MService meet
   in the monitored set only, which each keeps for itself.
3. **StrategySignals**: the pivot and triple-confirmation strategies under the mirror of
   `MirroredMarketMirrorsSignals`: their thresholds (half a percent of a level, 1.2 and
   0.8 times a volume) are not symmetric, so the property would have to say which
   signals they favour.
