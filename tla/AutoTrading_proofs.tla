------------------------- MODULE AutoTrading_proofs -------------------------
(***************************************************************************)
(* What the automatic entries guarantee for any number of handlers, calls  *)
(* and symbols, any analyses, settings and lifetimes of the cache.         *)
(*                                                                         *)
(* AutoTradingService drives FuturesService as any caller may: AutoSpec    *)
(* implements Spec, so what FuturesTrading_proofs shows of a call holds of *)
(* the calls it signals.  BlindInv says what a handler and its call still  *)
(* know of the position; CacheInv, that the cache answers what the audit   *)
(* remembers of the last hour, expired entries still in the Map or not.    *)
(***************************************************************************)
EXTENDS AutoTrading, FuturesTrading_proofs

AutoTypes ==
  /\ apc \in [Handlers -> {"idle", "position", "balance"}]
  /\ result \in [Handlers -> [symbol : Symbols, analysis : Analyses]]
  /\ blind \in [Handlers -> BOOLEAN]
  /\ carried \in [Calls -> BOOLEAN]

(* What a handler read of the position, or its call was signalled on,      *)
(* unless the read failed or the position moved since.                     *)
HandlerKnows(a) == apc[a] = "balance" /\ ~blind[a] => position[result[a].symbol] = 0
CallKnows(c) ==
  pc[c] # "idle" /\ job[c].op = "signal" /\ ~carried[c] => position[job[c].symbol] = 0
BlindInv == (\A a \in Handlers : HandlerKnows(a)) /\ (\A c \in Calls : CallKnows(c))

Unexpired(k) == k \in DOMAIN cache /\ cache[k].age <= Ttl
Remembered(k) == told[k] = IF Unexpired(k) THEN cache[k] ELSE Forgotten
CacheInv ==
  /\ DOMAIN cache \subseteq Keys
  /\ \A k \in DOMAIN cache : cache[k] \in [value : Nat, age : 0..Ttl + 1]
  /\ cache = [k \in DOMAIN cache |-> cache[k]]
  /\ told \in [Keys -> [value : Nat, age : 0..Ttl + 1]]
  /\ \A k \in Keys : Remembered(k)

-----------------------------------------------------------------------------
(* A handler's result is one that was announced. *)
LEMMA NoResultTypes == NoResult \in [symbol : Symbols, analysis : Analyses]
  <1>1. (CHOOSE s \in Symbols : TRUE) \in Symbols
    <2>1. \E s \in Symbols : TRUE
      BY FuturesAssumption
    <2> QED
      BY <2>1, Zenon
  <1>2. (CHOOSE r \in Analyses : TRUE) \in Analyses
    <2>1. \E r \in Analyses : TRUE
      BY AutoTradingAssumption
    <2> QED
      BY <2>1, Zenon
  <1> QED
    BY <1>1, <1>2 DEF NoResult

LEMMA HandlerEndsTypes ==
  ASSUME AutoTypes, NEW a \in Handlers, HandlerEnds(a)
  PROVE  /\ apc' \in [Handlers -> {"idle", "position", "balance"}]
         /\ result' \in [Handlers -> [symbol : Symbols, analysis : Analyses]]
         /\ blind' \in [Handlers -> BOOLEAN]
         /\ apc'[a] = "idle"
         /\ \A b \in Handlers \ {a} : /\ apc'[b] = apc[b] /\ result'[b] = result[b]
                                      /\ blind'[b] = blind[b]
  BY NoResultTypes DEF AutoTypes, HandlerEnds

(* The two reads of the position are one decision. *)
LEMMA PositionDecision ==
  ASSUME NEW a \in Handlers, PositionRead(a) \/ PositionReadFails(a)
  PROVE  \E held \in BOOLEAN, failed \in BOOLEAN :
           /\ DecideOnAnalysis(a, held, failed)
           /\ ~failed => (held <=> position[result[a].symbol] # 0)
  <1>1. CASE PositionRead(a)
    <2>1. /\ (position[result[a].symbol] # 0) \in BOOLEAN /\ FALSE \in BOOLEAN
          /\ DecideOnAnalysis(a, position[result[a].symbol] # 0, FALSE)
      BY <1>1 DEF PositionRead
    <2> QED
      BY <2>1
  <1>2. CASE PositionReadFails(a)
    <2>1. DecideOnAnalysis(a, FALSE, TRUE)
      BY <1>2 DEF PositionReadFails
    <2> QED
      BY <2>1
  <1> QED
    BY <1>1, <1>2

(* ... and so are the two reads of the balance, with a size in range.      *)
LEMMA NatProduct ==
  ASSUME NEW x \in Nat, NEW y \in Nat
  PROVE  x * y \in Nat
  OBVIOUS

LEMMA NatQuotient ==
  ASSUME NEW x \in Nat, NEW y \in Nat \ {0}
  PROVE  x \div y \in Nat
  OBVIOUS

LEMMA SizesAreSizes ==
  ASSUME NEW b \in Balances, NEW r \in Analyses
  PROVE  CalculatePositionSize(b, r.currentPrice) \in 0..MaxQty
  <1>1. b \in Nat /\ PositionSizePercent \in Nat /\ SignalLeverage \in Nat
    BY AutoTradingAssumption, FuturesAssumption
  <1>2. r.currentPrice \in Nat \ {0}
    BY AutoTradingAssumption DEF AnalysisResult
  <1>3. b * PositionSizePercent * SignalLeverage * 1000 \in Nat
    <2>1. b * PositionSizePercent \in Nat
      BY <1>1, NatProduct
    <2>2. b * PositionSizePercent * SignalLeverage \in Nat
      BY <1>1, <2>1, NatProduct
    <2> QED
      BY <2>2, NatProduct
  <1>4. 100 * r.currentPrice \in Nat \ {0}
    BY <1>2
  <1>5. CalculatePositionSize(b, r.currentPrice) \in Nat
    BY <1>3, <1>4, NatQuotient DEF CalculatePositionSize
  <1>6. CalculatePositionSize(b, r.currentPrice) <= MaxQty
    BY SizesAreBounded
  <1> QED
    BY <1>5, <1>6, FuturesAssumption

LEMMA Emission ==
  ASSUME AutoTypes, NEW a \in Handlers, NEW c \in Calls,
         BalanceRead(a, c) \/ BalanceReadFails(a, c)
  PROVE  \E q \in 0..MaxQty : EmitSignal(a, c, q)
  <1>1. CASE BalanceRead(a, c)
    <2>1. PICK b \in Balances \ {0} :
            EmitSignal(a, c, CalculatePositionSize(b, result[a].analysis.currentPrice))
      BY <1>1 DEF BalanceRead
    <2>2. PICK r \in Analyses : r = result[a].analysis
      BY DEF AutoTypes
    <2>3. CalculatePositionSize(b, r.currentPrice) \in 0..MaxQty
      BY SizesAreSizes
    <2> QED
      BY <2>1, <2>2, <2>3
  <1>2. CASE BalanceReadFails(a, c)
    <2>1. EmitSignal(a, c, 1) /\ 1 \in 0..MaxQty
      BY <1>2, FuturesAssumption DEF BalanceReadFails, DefaultPositionSize
    <2> QED
      BY <2>1
  <1> QED
    BY <1>1, <1>2

LEMMA NextAutoTypes == AutoTypes /\ [AutoNext]_systemVars => AutoTypes'
  <1> SUFFICES ASSUME AutoTypes, [AutoNext]_systemVars PROVE AutoTypes'
    OBVIOUS
  <1>1. ASSUME NEW a \in Handlers, NEW s \in Symbols, NEW r \in Analyses,
               AnalysisCompleted(a, s, r)
        PROVE  AutoTypes'
    BY <1>1 DEF AutoTypes, AnalysisCompleted
  <1>2. ASSUME NEW a \in Handlers, PositionRead(a) \/ PositionReadFails(a)
        PROVE  AutoTypes'
    <2>1. PICK held \in BOOLEAN, failed \in BOOLEAN : DecideOnAnalysis(a, held, failed)
      BY <1>2, PositionDecision
    <2>2. CASE HandlerEnds(a)
      BY <2>1, <2>2, HandlerEndsTypes DEF AutoTypes, DecideOnAnalysis
    <2>3. CASE /\ apc' = [apc EXCEPT ![a] = "balance"]
               /\ blind' = [blind EXCEPT ![a] = failed] /\ UNCHANGED result
      BY <2>1, <2>3 DEF AutoTypes, DecideOnAnalysis
    <2> QED
      BY <2>1, <2>2, <2>3 DEF DecideOnAnalysis
  <1>3. ASSUME NEW a \in Handlers, BalanceIsZero(a) PROVE AutoTypes'
    BY <1>3, HandlerEndsTypes DEF AutoTypes, BalanceIsZero
  <1>4. ASSUME NEW a \in Handlers, NEW c \in Calls, BalanceRead(a, c) \/ BalanceReadFails(a, c)
        PROVE  AutoTypes'
    <2>1. PICK q \in 0..MaxQty : EmitSignal(a, c, q)
      BY <1>4, Emission
    <2>2. HandlerEnds(a) /\ carried' = [carried EXCEPT ![c] = blind[a]] /\ blind[a] \in BOOLEAN
      BY <2>1 DEF EmitSignal, AutoTypes
    <2> QED
      BY <2>2, HandlerEndsTypes DEF AutoTypes
  <1>5. CASE UpdateATRConfig \/ (\E s \in Symbols : CalculateAndCacheATR(s))
             \/ CacheIsRead \/ TimePasses
    BY <1>5 DEF UpdateATRConfig, CalculateAndCacheATR, CacheIsRead, TimePasses, Put,
                autoVars, AutoTypes
  <1>6. CASE FuturesStep
    BY <1>6 DEF FuturesStep, AutoTypes
  <1>7. CASE RestartAll
    BY <1>7, NoResultTypes DEF RestartAll, AutoTypes
  <1>8. CASE UNCHANGED systemVars
    BY <1>8 DEF systemVars, autoVars, AutoTypes
  <1> QED
    BY <1>1, <1>2, <1>3, <1>4, <1>5, <1>6, <1>7, <1>8 DEF AutoNext

LEMMA SpecAutoTypes == AutoSpec => []AutoTypes
  <1>1. AutoInit => AutoTypes
    BY NoResultTypes DEF AutoInit, AutoTypes
  <1> QED
    BY <1>1, NextAutoTypes, PTL DEF AutoSpec

(* Every step is a step of FuturesService and the exchange, or none. *)
LEMMA AutoStepIsAStep == AutoTypes /\ [AutoNext]_systemVars => [Next]_vars
  <1> SUFFICES ASSUME AutoTypes, [AutoNext]_systemVars PROVE [Next]_vars
    OBVIOUS
  <1>1. ASSUME NEW a \in Handlers,
               \/ \E s \in Symbols, r \in Analyses : AnalysisCompleted(a, s, r)
               \/ PositionRead(a) \/ PositionReadFails(a) \/ BalanceIsZero(a)
        PROVE  UNCHANGED vars
    BY <1>1 DEF AnalysisCompleted, PositionRead, PositionReadFails, DecideOnAnalysis,
                BalanceIsZero
  <1>2. ASSUME NEW a \in Handlers, NEW c \in Calls, BalanceRead(a, c) \/ BalanceReadFails(a, c)
        PROVE  Next
    <2>1. PICK q \in 0..MaxQty : EmitSignal(a, c, q)
      BY <1>2, Emission
    <2>2. PICK side \in Side : SignalArrives(c, result[a].symbol, side, q)
      BY <2>1 DEF EmitSignal
    <2>3. result[a].symbol \in Symbols
      BY DEF AutoTypes
    <2> QED
      BY <2>2, <2>3 DEF Next, Arrival
  <1>3. CASE UpdateATRConfig \/ (\E s \in Symbols : CalculateAndCacheATR(s))
             \/ CacheIsRead \/ TimePasses
    BY <1>3 DEF UpdateATRConfig, CalculateAndCacheATR, CacheIsRead, TimePasses, Put
  <1>4. CASE FuturesStep
    <2>1. 1 \in 0..MaxQty
      BY FuturesAssumption
    <2>2. ASSUME NEW c \in Calls, NEW s \in Symbols,
                 \/ CloseAllPosition(c, s)
                 \/ \E side \in Side, lev \in Leverages : OpenPosition(c, s, side, 1, lev)
          PROVE  Arrival(c)
      BY <2>1, <2>2 DEF Arrival
    <2> QED
      BY <1>4, <2>2 DEF FuturesStep, Next
  <1>5. CASE RestartAll
    BY <1>5 DEF RestartAll, Next
  <1>6. CASE UNCHANGED systemVars
    BY <1>6 DEF systemVars
  <1> QED
    BY <1>1, <1>2, <1>3, <1>4, <1>5, <1>6 DEF AutoNext

(* AutoTradingService is one more caller of FuturesService: whatever it    *)
(* announces, caches or loses, the trading system behaves as FuturesTrading*)
(* allows, and every promise made of a call there holds of its calls.      *)
THEOREM AutoImplementsTrading == AutoSpec => Spec
  <1>1. AutoInit => Init
    BY DEF AutoInit
  <1> QED
    BY <1>1, AutoStepIsAStep, SpecAutoTypes, PTL DEF AutoSpec, Spec

-----------------------------------------------------------------------------
(* Who still knows the position. *)

LEMMA ChangesKeepTheOp ==
  ASSUME NEW j \in Job, NEW p
  PROVE  /\ SwitchOrder(j, p).op = j.op /\ SwitchOrder(j, p).symbol = j.symbol
         /\ AddOrder(j, p).op = j.op /\ AddOrder(j, p).symbol = j.symbol
         /\ ReduceOrder(j, p).op = j.op /\ ReduceOrder(j, p).symbol = j.symbol
  <1>1. SwitchOrder(j, p).op = j.op /\ SwitchOrder(j, p).symbol = j.symbol
    BY DEF Job, SwitchOrder
  <1>2. AddOrder(j, p).op = j.op /\ AddOrder(j, p).symbol = j.symbol
    BY DEF Job, AddOrder
  <1>3. ReduceOrder(j, p).op = j.op /\ ReduceOrder(j, p).symbol = j.symbol
    BY DEF Job, ReduceOrder
  <1> QED
    BY <1>1, <1>2, <1>3

(* A step of FuturesService begins no signal of its own, and leaves the    *)
(* operation and the symbol of a call in flight.                           *)
LEMMA CallsKeepTheirOp ==
  ASSUME TypeOK, FuturesStep, NEW d \in Calls, pc'[d] # "idle", job'[d].op = "signal"
  PROVE  pc[d] # "idle" /\ job[d].op = "signal" /\ job'[d].symbol = job[d].symbol
  <1> DEFINE Same == pc[d] # "idle" /\ job[d].op = "signal" /\ job'[d].symbol = job[d].symbol
  <1>0. job[d] \in Job
    BY DEF TypeOK
  <1>1. ASSUME NEW c \in Calls, Progress(c) \/ Reply(c) PROVE Same
    <2>1. CASE d = c
      <3>1. CASE End(c)
        BY <2>1, <3>1 DEF End, TypeOK
      <3>2. CASE SignalRead(c) \/ SignalReadFails(c)
        <4>1. pc[c] = "signal" /\ (End(c) \/ \E b \in BOOLEAN : Goto(c, "leverage", [job[c] EXCEPT !.sure = b])
                                    \/ Goto(c, "closeAll", job[c]))
          BY <3>2 DEF SignalRead, SignalReadFails, DecideOnSignal
        <4> QED
          BY <1>0, <2>1, <3>1, <4>1 DEF Goto, TypeOK, Job
      <3>3. CASE SetLeverage(c)
        BY <2>1, <3>3 DEF SetLeverage, Goto, TypeOK
      <3>4. CASE SetLeverageReplyLost(c)
        BY <2>1, <3>4 DEF SetLeverageReplyLost, TypeOK
      <3>5. CASE PassChecks(c)
        BY <1>0, <2>1, <3>5 DEF PassChecks, Goto, TypeOK, Job
      <3>6. CASE ReadForCloseAll(c) /\ ~End(c)
        BY <1>0, <2>1, <3>6 DEF ReadForCloseAll, Goto, TypeOK, Job
      <3>7. CASE ReadForClose(c) /\ ~End(c)
        <4>1. /\ pc[c] = "close"
              /\ \E o, x, n : Goto(c, "placing", [job[c] EXCEPT !.order = o, !.closing = x,
                                                                !.notice = n])
          BY <3>7 DEF ReadForClose
        <4>2. PICK o, x, n : Goto(c, "placing", [job[c] EXCEPT !.order = o, !.closing = x,
                                                               !.notice = n])
          BY <4>1
        <4> QED
          BY <1>0, <2>1, <4>1, <4>2 DEF Goto, TypeOK, Job
      <3>8. CASE ReadForChange(c) /\ ~End(c)
        <4>1. /\ pc[c] = "change"
              /\ \E j \in {SwitchOrder(job[c], position[job[c].symbol]),
                           AddOrder(job[c], position[job[c].symbol]),
                           ReduceOrder(job[c], position[job[c].symbol])} : Goto(c, "placing", j)
          BY <3>8 DEF ReadForChange
        <4>2. PICK j : /\ Goto(c, "placing", j)
                       /\ \/ j = SwitchOrder(job[c], position[job[c].symbol])
                          \/ j = AddOrder(job[c], position[job[c].symbol])
                          \/ j = ReduceOrder(job[c], position[job[c].symbol])
          BY <4>1
        <4>3. j.op = job[c].op /\ j.symbol = job[c].symbol
          <5>1. /\ SwitchOrder(job[c], position[job[c].symbol]).op = job[c].op
                /\ SwitchOrder(job[c], position[job[c].symbol]).symbol = job[c].symbol
                /\ AddOrder(job[c], position[job[c].symbol]).op = job[c].op
                /\ AddOrder(job[c], position[job[c].symbol]).symbol = job[c].symbol
                /\ ReduceOrder(job[c], position[job[c].symbol]).op = job[c].op
                /\ ReduceOrder(job[c], position[job[c].symbol]).symbol = job[c].symbol
            BY <1>0, <2>1, ChangesKeepTheOp
          <5> QED
            BY <4>2, <5>1
        <4> QED
          BY <2>1, <4>1, <4>2, <4>3 DEF Goto, TypeOK
      <3>9. CASE Execute(c)
        BY <2>1, <3>9 DEF Execute, TypeOK
      <3>10. CASE Reply(c) \/ ReplyLost(c) \/ Fail(c)
        BY <3>1, <3>10 DEF Reply, ReplyLost, Fail
      <3> QED
        BY <1>1, <3>1, <3>2, <3>3, <3>4, <3>5, <3>6, <3>7, <3>8, <3>9, <3>10 DEF Progress
    <2>2. CASE d # c
      <3>1. pc'[d] = pc[d] /\ job'[d] = job[d]
        <4>1. CASE End(c)
          BY <2>2, <4>1 DEF End, TypeOK
        <4>2. CASE \E a, j : Goto(c, a, j)
          BY <2>2, <4>2 DEF Goto, TypeOK
        <4>3. CASE SetLeverageReplyLost(c) \/ Execute(c)
          BY <2>2, <4>3 DEF SetLeverageReplyLost, Execute, TypeOK
        <4> QED
          BY <1>1, <4>1, <4>2, <4>3
          DEF Progress, SignalRead, SignalReadFails, DecideOnSignal, SetLeverage, PassChecks,
              ReadForCloseAll, ReadForClose, ReadForChange, ReplyLost, Fail, Reply
      <3> QED
        BY <3>1
    <2> QED
      BY <2>1, <2>2
  <1>2. ASSUME NEW c \in Calls, NEW s \in Symbols,
               \/ CloseAllPosition(c, s)
               \/ \E side \in Side, lev \in Leverages : OpenPosition(c, s, side, 1, lev)
        PROVE  Same
    <2>1. \E j : /\ j.op \in {"open", "closeAll"} /\ job' = [job EXCEPT ![c] = j]
                 /\ \E a : pc' = [pc EXCEPT ![c] = a]
      BY <1>2 DEF CloseAllPosition, OpenPosition, Begin, NewJob
    <2> QED
      BY <2>1 DEF TypeOK
  <1>3. ASSUME NEW s \in Liquidatable, Liquidate(s) PROVE Same
    BY <1>3 DEF Liquidate
  <1> QED
    BY <1>1, <1>2, <1>3 DEF FuturesStep

LEMMA NextBlindInv ==
  ASSUME TypeOK, AutoTypes, BlindInv, [AutoNext]_systemVars
  PROVE  BlindInv'
  <1>1. ASSUME NEW a \in Handlers, NEW s \in Symbols, NEW r \in Analyses,
               AnalysisCompleted(a, s, r)
        PROVE  BlindInv'
    <2>1. UNCHANGED <<position, pc, job, carried, blind>>
      BY <1>1 DEF AnalysisCompleted, vars, exchangeVars, callVars
    <2>2. apc'[a] = "position" /\ \A b \in Handlers \ {a} : apc'[b] = apc[b] /\ result'[b] = result[b]
      BY <1>1 DEF AnalysisCompleted, AutoTypes
    <2>3. \A b \in Handlers : HandlerKnows(b)'
      BY <2>1, <2>2 DEF BlindInv, HandlerKnows
    <2>4. \A c \in Calls : CallKnows(c)'
      BY <2>1 DEF BlindInv, CallKnows
    <2> QED
      BY <2>3, <2>4 DEF BlindInv
  <1>2. ASSUME NEW a \in Handlers, PositionRead(a) \/ PositionReadFails(a)
        PROVE  BlindInv'
    <2>1. PICK held \in BOOLEAN, failed \in BOOLEAN :
            /\ DecideOnAnalysis(a, held, failed)
            /\ ~failed => (held <=> position[result[a].symbol] # 0)
      BY <1>2, PositionDecision
    <2>2. UNCHANGED <<position, pc, job, carried>>
      BY <2>1 DEF DecideOnAnalysis, vars, exchangeVars, callVars
    <2>3. CASE HandlerEnds(a)
      BY <2>2, <2>3, HandlerEndsTypes DEF BlindInv, HandlerKnows, CallKnows
    <2>4. CASE /\ ~held
               /\ apc' = [apc EXCEPT ![a] = "balance"]
               /\ blind' = [blind EXCEPT ![a] = failed] /\ UNCHANGED result
      <3>1. blind'[a] = failed /\ \A b \in Handlers \ {a} : apc'[b] = apc[b] /\ blind'[b] = blind[b]
        BY <2>4 DEF AutoTypes
      <3>2. \A b \in Handlers : HandlerKnows(b)'
        BY <2>1, <2>2, <2>4, <3>1 DEF BlindInv, HandlerKnows
      <3> QED
        BY <2>2, <3>2 DEF BlindInv, CallKnows
    <2> QED
      BY <2>1, <2>3, <2>4 DEF DecideOnAnalysis
  <1>3. ASSUME NEW a \in Handlers, BalanceIsZero(a) PROVE BlindInv'
    <2>1. UNCHANGED <<position, pc, job, carried>> /\ HandlerEnds(a)
      BY <1>3 DEF BalanceIsZero, vars, exchangeVars, callVars
    <2> QED
      BY <2>1, HandlerEndsTypes DEF BlindInv, HandlerKnows, CallKnows
  <1>4. ASSUME NEW a \in Handlers, NEW c \in Calls, BalanceRead(a, c) \/ BalanceReadFails(a, c)
        PROVE  BlindInv'
    <2>1. PICK q \in 0..MaxQty : EmitSignal(a, c, q)
      BY <1>4, Emission
    <2>2. PICK side \in Side : SignalArrives(c, result[a].symbol, side, q)
      BY <2>1 DEF EmitSignal
    <2>3. /\ position' = position /\ HandlerEnds(a) /\ apc[a] = "balance"
          /\ carried' = [carried EXCEPT ![c] = blind[a]]
      BY <2>1, <2>2 DEF EmitSignal, SignalArrives, Begin, exchangeVars
    <2>4. /\ job'[c].symbol = result[a].symbol
          /\ \A d \in Calls \ {c} : job'[d] = job[d] /\ pc'[d] = pc[d]
      BY <2>2 DEF SignalArrives, Begin, NewJob, TypeOK
    <2>5. \A b \in Handlers : HandlerKnows(b)'
      BY <2>3, HandlerEndsTypes DEF BlindInv, HandlerKnows
    <2>6. \A d \in Calls : CallKnows(d)'
      <3>1. CallKnows(c)'
        <4>1. carried'[c] = blind[a]
          BY <2>3 DEF AutoTypes
        <4> QED
          BY <2>3, <2>4, <4>1 DEF BlindInv, HandlerKnows, CallKnows
      <3>2. \A d \in Calls \ {c} : carried'[d] = carried[d]
        BY <2>3 DEF AutoTypes
      <3> QED
        BY <2>3, <2>4, <3>1, <3>2 DEF BlindInv, CallKnows
    <2> QED
      BY <2>5, <2>6 DEF BlindInv
  <1>5. CASE UpdateATRConfig \/ (\E s \in Symbols : CalculateAndCacheATR(s))
             \/ CacheIsRead \/ TimePasses \/ UNCHANGED systemVars
    <2>1. UNCHANGED <<position, pc, job, carried, apc, result, blind>>
      BY <1>5 DEF UpdateATRConfig, CalculateAndCacheATR, CacheIsRead, TimePasses, Put,
                  systemVars, autoVars, vars, exchangeVars, callVars
    <2> QED
      BY <2>1 DEF BlindInv, HandlerKnows, CallKnows
  <1>6. CASE FuturesStep
    <2>1. ASSUME NEW a \in Handlers PROVE HandlerKnows(a)'
      BY <1>6 DEF FuturesStep, BlindInv, HandlerKnows
    <2>2. ASSUME NEW d \in Calls, pc'[d] # "idle", job'[d].op = "signal", ~carried'[d]
          PROVE  position'[job'[d].symbol] = 0
      <3>1. pc[d] # "idle" /\ job[d].op = "signal" /\ job'[d].symbol = job[d].symbol
        BY <1>6, <2>2, CallsKeepTheirOp
      <3>2. ~carried[d] /\ position'[job[d].symbol] = position[job[d].symbol]
        BY <1>6, <2>2 DEF FuturesStep
      <3> QED
        BY <3>1, <3>2 DEF BlindInv, CallKnows
    <2> QED
      BY <2>1, <2>2 DEF BlindInv, CallKnows
  <1>7. CASE RestartAll
    BY <1>7 DEF RestartAll, Restart, BlindInv, HandlerKnows, CallKnows
  <1> QED
    BY <1>1, <1>2, <1>3, <1>4, <1>5, <1>6, <1>7 DEF AutoNext

(* An automatic entry that would add to a position was decided twice       *)
(* without knowing of it: once by AutoTradingService and once by           *)
(* FuturesService, with any number of handlers and calls in flight.        *)
THEOREM EntriesAddOnlyBlindly == AutoSpec => []AddsOnlyWhenTwiceBlind
  <1>1. AutoInit => BlindInv
    BY DEF AutoInit, Init, BlindInv, HandlerKnows, CallKnows
  <1>2. IInv /\ AutoTypes /\ BlindInv => AddsOnlyWhenTwiceBlind
    <2> SUFFICES ASSUME IInv, AutoTypes, BlindInv, NEW c \in Calls,
                        pc[c] = "placing", job[c].op = "signal", position[job[c].symbol] # 0
                 PROVE  carried[c] /\ (~job[c].sure \/ "position" \in stale[c])
      BY DEF AddsOnlyWhenTwiceBlind
    <2>1. carried[c]
      BY DEF BlindInv, CallKnows
    <2>2. ASSUME job[c].sure, "position" \notin stale[c] PROVE FALSE
      <3>1. Knows(c)
        BY DEF IInv, CallInv
      <3> QED
        BY <2>2, <3>1 DEF Knows, Promise
    <2> QED
      BY <2>1, <2>2
  <1>3. IInv => TypeOK
    BY DEF IInv
  <1>4. AutoSpec => []IInv
    BY AutoImplementsTrading, SpecIInv, PTL
  <1> QED
    BY <1>1, <1>2, <1>3, <1>4, NextBlindInv, SpecAutoTypes, PTL DEF AutoSpec

-----------------------------------------------------------------------------
(* The prices of a signal.  Entry prices are whole. *)
EntryInv == \E e \in Nat : signal.entryPrice = e * 1000

(* A call is started by AutoTradingService only with its signal.           *)
LEMMA SignalsComeFromHandlers ==
  ASSUME AutoTypes, [AutoNext]_systemVars
  PROVE  \/ signal' = signal
         \/ \E a \in Handlers, c \in Calls, q \in 0..MaxQty : EmitSignal(a, c, q)
  <1>1. ASSUME NEW a \in Handlers,
               \/ \E s \in Symbols, r \in Analyses : AnalysisCompleted(a, s, r)
               \/ PositionRead(a) \/ PositionReadFails(a) \/ BalanceIsZero(a)
        PROVE  signal' = signal
    BY <1>1 DEF AnalysisCompleted, PositionRead, PositionReadFails, DecideOnAnalysis,
                BalanceIsZero
  <1>2. ASSUME NEW a \in Handlers, NEW c \in Calls, BalanceRead(a, c) \/ BalanceReadFails(a, c)
        PROVE  \E q \in 0..MaxQty : EmitSignal(a, c, q)
    BY <1>2, Emission
  <1>3. CASE UpdateATRConfig \/ (\E s \in Symbols : CalculateAndCacheATR(s))
             \/ CacheIsRead \/ TimePasses
    BY <1>3 DEF UpdateATRConfig, CalculateAndCacheATR, CacheIsRead, TimePasses, Put, autoVars
  <1>4. CASE FuturesStep \/ RestartAll \/ UNCHANGED systemVars
    BY <1>4 DEF FuturesStep, RestartAll, systemVars, autoVars
  <1> QED
    BY <1>1, <1>2, <1>3, <1>4 DEF AutoNext

LEMMA NextEntryInv == AutoTypes /\ EntryInv /\ [AutoNext]_systemVars => EntryInv'
  <1> SUFFICES ASSUME AutoTypes, EntryInv, [AutoNext]_systemVars PROVE EntryInv'
    OBVIOUS
  <1>1. CASE signal' = signal
    BY <1>1 DEF EntryInv
  <1>2. ASSUME NEW a \in Handlers, NEW c \in Calls, NEW q \in 0..MaxQty, EmitSignal(a, c, q)
        PROVE  EntryInv'
    <2>1. signal'.entryPrice = result[a].analysis.currentPrice * 1000
      BY <1>2 DEF EmitSignal
    <2>2. result[a].analysis.currentPrice \in Nat
      BY AutoTradingAssumption DEF AutoTypes, AnalysisResult
    <2> QED
      BY <2>1, <2>2 DEF EntryInv
  <1> QED
    BY <1>1, <1>2, SignalsComeFromHandlers

(* A percentage that passes the validation is between 0 and 100. *)
LEMMA PercentagesInRange ==
  ASSUME NEW k \in Stops!Config({0, 1, 99, 100}), k.type = "PERCENT", Stops!IsValid(k)
  PROVE  k.type # "NONE" /\ k.type # "PRICE" /\ k.value # 0 /\ k.value \in {1, 99}
  BY DEF Stops!Config, Stops!IsValid

LEMMA Brackets ==
  ASSUME NEW e \in Nat, e > 0, NEW v \in {1, 99}
  PROVE  /\ e * 10 * (100 + (-1) * v) \in Nat
         /\ 0 < e * 10 * (100 + (-1) * v) /\ e * 10 * (100 + (-1) * v) < e * 1000
         /\ e * 10 * (100 + 1 * v) \in Nat /\ e * 1000 < e * 10 * (100 + 1 * v)
  <1>1. CASE v = 1
    BY <1>1
  <1>2. CASE v = 99
    BY <1>2
  <1> QED
    BY <1>1, <1>2

(* At the price of any signal a percentage puts a stop and a profit on     *)
(* their sides, mirrored for a SHORT, and a price sent back is a fixpoint. *)
THEOREM PercentagesAlwaysBracket == AutoSpec => []PercentagesBracketTheEntry
  <1>1. AutoInit => EntryInv
    <2> SUFFICES ASSUME AutoInit PROVE EntryInv
      OBVIOUS
    <2>1. signal.entryPrice = 0 * 1000 /\ 0 \in Nat
      BY DEF AutoInit, NoSignal
    <2> QED
      BY <2>1 DEF EntryInv
  <1>2. EntryInv => PercentagesBracketTheEntry
    <2> SUFFICES ASSUME EntryInv PROVE PercentagesBracketTheEntry
      OBVIOUS
    <2>1. PICK e \in Nat : signal.entryPrice = e * 1000
      BY DEF EntryInv
    <2>2. signal.entryPrice \div 1000 = e
      BY <2>1
    <2> DEFINE settings == {c \in Stops!Config({0, 1, 99, 100}) :
                              c.type = "PERCENT" /\ Stops!IsValid(c)}
               price(value) == [type |-> "PRICE", value |-> value]
               long(stop, profit) == Stops!calculateSpotStopLossTakeProfit(e, stop, profit)
               short(stop, profit) ==
                 Stops!calculateFuturesStopLossTakeProfit(e, "SHORT", profit, stop)
               again(stop, profit) ==
                 Stops!calculateFuturesStopLossTakeProfit(e, "LONG",
                   price(long(stop, profit).stopLossPrice),
                   price(long(stop, profit).takeProfitPrice))
    <2>3. ASSUME e > 0, NEW stop \in settings, NEW profit \in settings
          PROVE  /\ 0 < long(stop, profit).stopLossPrice
                 /\ long(stop, profit).stopLossPrice < signal.entryPrice
                 /\ signal.entryPrice < long(stop, profit).takeProfitPrice
                 /\ short(stop, profit).takeProfitPrice = long(stop, profit).stopLossPrice
                 /\ short(stop, profit).stopLossPrice = long(stop, profit).takeProfitPrice
                 /\ again(stop, profit) = long(stop, profit)
                 /\ Stops!validateStopLossTakeProfit(price(long(stop, profit).stopLossPrice),
                                                     price(long(stop, profit).takeProfitPrice))
      <3> DEFINE low == e * 10 * (100 + (-1) * stop.value)
                 high == e * 10 * (100 + 1 * profit.value)
      <3>1. /\ stop.type # "NONE" /\ stop.type # "PRICE" /\ stop.value # 0 /\ stop.value \in {1, 99}
            /\ profit.type # "NONE" /\ profit.type # "PRICE" /\ profit.value # 0
            /\ profit.value \in {1, 99}
        BY <2>3, PercentagesInRange
      <3>2. /\ low \in Nat /\ 0 < low /\ low < e * 1000
            /\ high \in Nat /\ e * 1000 < high
        BY <2>3, <3>1, Brackets
      <3>3. /\ Stops!PriceOf(e, stop, -1) = low
            /\ Stops!PriceOf(e, profit, 1) = high
        BY <3>1 DEF Stops!PriceOf
      <3>4. long(stop, profit) = [stopLossPrice |-> low, takeProfitPrice |-> high]
        BY <3>3 DEF Stops!calculateSpotStopLossTakeProfit, Stops!calculateFuturesStopLossTakeProfit,
                    Stops!calculateStopLossPrice, Stops!calculateTakeProfitPrice
      <3>5. short(stop, profit) = [stopLossPrice |-> high, takeProfitPrice |-> low]
        BY <3>3 DEF Stops!calculateFuturesStopLossTakeProfit,
                    Stops!calculateStopLossPrice, Stops!calculateTakeProfitPrice
      <3> HIDE DEF low, high
      <3>6. again(stop, profit) = [stopLossPrice |-> low, takeProfitPrice |-> high]
        <4>1. \A d \in {-1, 1} : /\ Stops!PriceOf(e, price(low), d) = low
                                 /\ Stops!PriceOf(e, price(high), d) = high
          BY <3>2 DEF Stops!PriceOf, Stops!Null
        <4> QED
          BY <3>4, <4>1 DEF Stops!calculateFuturesStopLossTakeProfit,
                            Stops!calculateStopLossPrice, Stops!calculateTakeProfitPrice
      <3>7. Stops!validateStopLossTakeProfit(price(low), price(high))
        <4>1. 0 < high
          BY <2>3, <3>2
        <4> QED
          BY <3>2, <4>1 DEF Stops!validateStopLossTakeProfit, Stops!IsValid
      <3> QED
        BY <2>1, <3>2, <3>4, <3>5, <3>6, <3>7
    <2> QED
      BY <2>2, <2>3 DEF PercentagesBracketTheEntry
  <1> QED
    BY <1>1, <1>2, NextEntryInv, SpecAutoTypes, PTL DEF AutoSpec

-----------------------------------------------------------------------------
(* The cache answers what the audit remembers. *)
LEMMA ForgottenIsAnEntry ==
  /\ Forgotten \in [value : Nat, age : 0..Ttl + 1]
  /\ Forgotten.value = 0 /\ Forgotten.age = Ttl + 1
  BY AutoTradingAssumption DEF Forgotten, Cache!Absent

LEMMA CacheAnswers ==
  ASSUME CacheInv, NEW k \in Keys
  PROVE  Cache!Get(k) = told[k].value
  <1>1. Remembered(k) /\ (k \in DOMAIN cache => cache[k].age \in 0..Ttl + 1)
    BY DEF CacheInv
  <1>2. CASE Unexpired(k)
    BY <1>1, <1>2, AutoTradingAssumption
    DEF Remembered, Unexpired, Cache!Get, Cache!Expired
  <1>3. CASE ~Unexpired(k)
    <2>1. told[k].value = 0
      BY <1>1, <1>3, ForgottenIsAnEntry DEF Remembered
    <2> QED
      BY <1>1, <1>3, <2>1, AutoTradingAssumption
      DEF Unexpired, Cache!Get, Cache!Expired, Cache!Absent
  <1> QED
    BY <1>2, <1>3

LEMMA ReadKeepsCacheInv ==
  ASSUME CacheInv, NEW K \in SUBSET Keys, Cache!Read(K), told' = told
  PROVE  CacheInv'
  <1> DEFINE D == DOMAIN cache \ {k \in K : Cache!Expired(k)}
  <1>1. cache' = [k \in D |-> cache[k]]
    BY DEF Cache!Read, Cache!AfterReading, Cache!Restrict
  <1>2. D \subseteq DOMAIN cache
    OBVIOUS
  <1>3. ASSUME NEW k \in Keys PROVE Unexpired(k)' <=> Unexpired(k)
    BY <1>1, AutoTradingAssumption DEF Unexpired, Cache!Expired, CacheInv
  <1> HIDE DEF D
  <1>4. ASSUME NEW k \in Keys PROVE Remembered(k)'
    <2>1. Remembered(k)
      BY DEF CacheInv
    <2>2. Unexpired(k) => cache'[k] = cache[k]
      BY <1>1, <1>3 DEF Unexpired
    <2> QED
      BY <1>3, <2>1, <2>2 DEF Remembered, Forgotten
  <1> QED
    BY <1>1, <1>2, <1>4 DEF CacheInv

LEMMA PutKeepsCacheInv ==
  ASSUME CacheInv, NEW V, DOMAIN V \subseteq Keys, \A k \in DOMAIN V : V[k] \in Nat, Put(V)
  PROVE  CacheInv'
  <1>1. /\ cache' = [k \in DOMAIN cache \cup DOMAIN V |->
                       IF k \in DOMAIN V THEN [value |-> V[k], age |-> 0] ELSE cache[k]]
        /\ told' = [k \in Keys |->
                      IF k \in DOMAIN V THEN [value |-> V[k], age |-> 0] ELSE told[k]]
    BY DEF Put, Cache!SetAll
  <1>2. ASSUME NEW k \in DOMAIN V
        PROVE  [value |-> V[k], age |-> 0] \in [value : Nat, age : 0..Ttl + 1]
    BY AutoTradingAssumption
  <1>3. ASSUME NEW k \in Keys PROVE Remembered(k)'
    <2>1. Remembered(k)
      BY DEF CacheInv
    <2>2. CASE k \in DOMAIN V
      <3>1. /\ cache'[k] = [value |-> V[k], age |-> 0] /\ k \in DOMAIN cache'
            /\ told'[k] = [value |-> V[k], age |-> 0]
        BY <1>1, <2>2
      <3>2. cache'[k].age <= Ttl
        BY <3>1, AutoTradingAssumption
      <3> QED
        BY <3>1, <3>2 DEF Remembered, Unexpired
    <2>3. CASE k \notin DOMAIN V
      <3>1. /\ k \in DOMAIN cache' <=> k \in DOMAIN cache
            /\ k \in DOMAIN cache => cache'[k] = cache[k]
            /\ told'[k] = told[k]
        BY <1>1, <2>3
      <3> QED
        BY <2>1, <3>1 DEF Remembered, Unexpired, Forgotten
    <2> QED
      BY <2>2, <2>3
  <1>4. DOMAIN cache' \subseteq Keys
    BY <1>1 DEF CacheInv
  <1>5. \A k \in DOMAIN cache' : cache'[k] \in [value : Nat, age : 0..Ttl + 1]
    BY <1>1, <1>2 DEF CacheInv
  <1>6. told' \in [Keys -> [value : Nat, age : 0..Ttl + 1]]
    BY <1>1, <1>2 DEF CacheInv
  <1>7. cache' = [k \in DOMAIN cache' |-> cache'[k]]
    BY <1>1
  <1> QED
    BY <1>3, <1>4, <1>5, <1>6, <1>7 DEF CacheInv

LEMMA TimeKeepsCacheInv ==
  ASSUME CacheInv, TimePasses
  PROVE  CacheInv'
  <1>1. /\ cache' = [k \in DOMAIN cache |->
                       [cache[k] EXCEPT !.age = IF @ > Ttl THEN @ ELSE @ + 1]]
        /\ told' = [k \in Keys |-> IF told[k].age >= Ttl THEN Forgotten
                                   ELSE [told[k] EXCEPT !.age = @ + 1]]
    BY DEF TimePasses, Cache!TimePasses
  <1>2. \A k \in DOMAIN cache : cache[k] \in [value : Nat, age : 0..Ttl + 1]
    BY DEF CacheInv
  <1>3. ASSUME NEW e \in [value : Nat, age : 0..Ttl + 1]
        PROVE  /\ [e EXCEPT !.age = IF @ > Ttl THEN @ ELSE @ + 1]
                    \in [value : Nat, age : 0..Ttl + 1]
               /\ [e EXCEPT !.age = IF @ > Ttl THEN @ ELSE @ + 1].age
                    = IF e.age > Ttl THEN e.age ELSE e.age + 1
               /\ e.age < Ttl => /\ [e EXCEPT !.age = @ + 1] \in [value : Nat, age : 0..Ttl + 1]
                                 /\ [e EXCEPT !.age = IF @ > Ttl THEN @ ELSE @ + 1]
                                      = [e EXCEPT !.age = @ + 1]
    BY AutoTradingAssumption
  <1>4. /\ DOMAIN cache' = DOMAIN cache
        /\ \A k \in DOMAIN cache' : cache'[k] \in [value : Nat, age : 0..Ttl + 1]
    BY <1>1, <1>2, <1>3
  <1>5. told' \in [Keys -> [value : Nat, age : 0..Ttl + 1]]
    <2>1. ASSUME NEW k \in Keys PROVE told'[k] \in [value : Nat, age : 0..Ttl + 1]
      <3>1. told[k] \in [value : Nat, age : 0..Ttl + 1]
        BY DEF CacheInv
      <3>2. CASE told[k].age >= Ttl
        BY <1>1, <3>2, ForgottenIsAnEntry
      <3>3. CASE ~(told[k].age >= Ttl)
        BY <1>1, <1>3, <3>1, <3>3, AutoTradingAssumption
      <3> QED
        BY <3>2, <3>3
    <2> QED
      BY <1>1, <2>1
  <1>6. ASSUME NEW k \in Keys PROVE Remembered(k)'
    <2>1. Remembered(k) /\ told[k] \in [value : Nat, age : 0..Ttl + 1]
      BY DEF CacheInv
    <2>2. CASE Unexpired(k)
      <3>1. told[k] = cache[k] /\ k \in DOMAIN cache /\ cache[k].age \in 0..Ttl
        BY <1>2, <2>1, <2>2, AutoTradingAssumption DEF Remembered, Unexpired
      <3>2. CASE cache[k].age = Ttl
        <4>1. told'[k] = Forgotten
          BY <1>1, <3>1, <3>2, AutoTradingAssumption
        <4>2. cache'[k].age = Ttl + 1
          BY <1>1, <1>2, <1>3, <3>1, <3>2, AutoTradingAssumption
        <4> QED
          BY <4>1, <4>2, AutoTradingAssumption DEF Remembered, Unexpired, Forgotten
      <3>3. CASE cache[k].age < Ttl
        <4>1. told'[k] = [cache[k] EXCEPT !.age = @ + 1]
          BY <1>1, <3>1, <3>3, AutoTradingAssumption
        <4>2. cache'[k] = [cache[k] EXCEPT !.age = @ + 1] /\ cache'[k].age = cache[k].age + 1
          BY <1>1, <1>2, <1>3, <3>1, <3>3, AutoTradingAssumption
        <4>3. cache'[k].age <= Ttl
          BY <3>1, <3>3, <4>2, AutoTradingAssumption
        <4> QED
          BY <1>4, <3>1, <4>1, <4>2, <4>3 DEF Remembered, Unexpired
      <3> QED
        BY <3>1, <3>2, <3>3, AutoTradingAssumption
    <2>3. CASE ~Unexpired(k)
      <3>1. told[k] = Forgotten
        BY <2>1, <2>3 DEF Remembered
      <3>2. told'[k] = Forgotten
        BY <1>1, <3>1, ForgottenIsAnEntry, AutoTradingAssumption
      <3>3. ~Unexpired(k)'
        <4>1. CASE k \notin DOMAIN cache
          BY <1>4, <4>1 DEF Unexpired
        <4>2. CASE k \in DOMAIN cache
          <5>1. cache[k].age > Ttl
            BY <1>2, <2>3, <4>2, AutoTradingAssumption DEF Unexpired
          <5>2. cache'[k].age = cache[k].age
            BY <1>1, <1>2, <1>3, <4>2, <5>1
          <5> QED
            BY <1>2, <4>2, <5>1, <5>2, AutoTradingAssumption DEF Unexpired
        <4> QED
          BY <4>1, <4>2
      <3> QED
        BY <3>2, <3>3 DEF Remembered, Forgotten
    <2> QED
      BY <2>2, <2>3
  <1>7. cache' = [k \in DOMAIN cache' |-> cache'[k]]
    BY <1>1
  <1> QED
    BY <1>4, <1>5, <1>6, <1>7 DEF CacheInv

LEMMA InitialCache == InitializeATR(cache, told) => CacheInv
  <1> SUFFICES ASSUME InitializeATR(cache, told) PROVE CacheInv
    OBVIOUS
  <1>1. PICK atr \in Atrs, known \in SUBSET Symbols :
          /\ cache = [k \in {AtrKey(s) : s \in known} |-> [value |-> atr, age |-> 0]]
          /\ told = [k \in Keys |-> IF k \in {AtrKey(s) : s \in known}
                                    THEN [value |-> atr, age |-> 0] ELSE Forgotten]
    BY DEF InitializeATR
  <1>2. {AtrKey(s) : s \in known} \subseteq Keys
    BY DEF Keys
  <1>3. /\ [value |-> atr, age |-> 0] \in [value : Nat, age : 0..Ttl + 1]
        /\ [value |-> atr, age |-> 0].age <= Ttl
    BY AutoTradingAssumption
  <1> DEFINE known_ == {AtrKey(s) : s \in known}
             entry == [value |-> atr, age |-> 0]
  <1>4. cache = [k \in known_ |-> entry] /\ told = [k \in Keys |-> IF k \in known_ THEN entry ELSE Forgotten]
    BY <1>1
  <1> HIDE DEF known_, entry
  <1> QED
    BY <1>2, <1>3, <1>4, ForgottenIsAnEntry DEF CacheInv, Remembered, Unexpired, known_, entry

LEMMA NextCacheInv == AutoTypes /\ CacheInv /\ [AutoNext]_systemVars => CacheInv'
  <1> SUFFICES ASSUME AutoTypes, CacheInv, [AutoNext]_systemVars PROVE CacheInv'
    OBVIOUS
  <1>1. ASSUME cache' = cache, told' = told PROVE CacheInv'
    BY <1>1 DEF CacheInv, Remembered, Unexpired
  <1>2. ASSUME NEW a \in Handlers,
               \/ \E s \in Symbols, r \in Analyses : AnalysisCompleted(a, s, r)
               \/ PositionRead(a) \/ PositionReadFails(a) \/ BalanceIsZero(a)
        PROVE  CacheInv'
    BY <1>1, <1>2 DEF AnalysisCompleted, PositionRead, PositionReadFails, DecideOnAnalysis,
                      BalanceIsZero, cacheVars
  <1>3. ASSUME NEW a \in Handlers, NEW c \in Calls, BalanceRead(a, c) \/ BalanceReadFails(a, c)
        PROVE  CacheInv'
    <2>1. PICK q \in 0..MaxQty : EmitSignal(a, c, q)
      BY <1>3, Emission
    <2>2. Cache!Read({AtrKey(result[a].symbol), StopKey, ProfitKey}) /\ told' = told
      BY <2>1 DEF EmitSignal
    <2>3. {AtrKey(result[a].symbol), StopKey, ProfitKey} \in SUBSET Keys
      BY DEF Keys, ConfigKeys, AutoTypes
    <2> QED
      BY <2>2, <2>3, ReadKeepsCacheInv
  <1>4. CASE UpdateATRConfig
    <2>1. PICK f \in Settings : Put(f)
      BY <1>4 DEF UpdateATRConfig
    <2>2. DOMAIN f \subseteq Keys /\ \A k \in DOMAIN f : f[k] \in Nat
      BY AutoTradingAssumption DEF Keys
    <2> QED
      BY <2>1, <2>2, PutKeepsCacheInv
  <1>5. ASSUME NEW s \in Symbols, CalculateAndCacheATR(s) PROVE CacheInv'
    <2>1. PICK atr \in Atrs : Put([k \in {AtrKey(s)} |-> atr])
      BY <1>5 DEF CalculateAndCacheATR
    <2> DEFINE V == [k \in {AtrKey(s)} |-> atr]
    <2>2. DOMAIN V \subseteq Keys /\ \A k \in DOMAIN V : V[k] \in Nat
      BY AutoTradingAssumption DEF Keys
    <2> HIDE DEF V
    <2>3. Put(V)
      BY <2>1 DEF V
    <2> QED
      BY <2>2, <2>3, PutKeepsCacheInv
  <1>6. CASE CacheIsRead
    <2>1. PICK K \in SUBSET Keys : Cache!Read(K)
      <3>1. ConfigKeys \in SUBSET Keys /\ Keys \in SUBSET Keys
        BY DEF Keys
      <3> QED
        BY <1>6, <3>1 DEF CacheIsRead, GetATRConfig, GetATRCacheStatus, Cache!Cleanup
    <2> QED
      BY <1>6, <2>1, ReadKeepsCacheInv DEF CacheIsRead
  <1>7. CASE TimePasses
    BY <1>7, TimeKeepsCacheInv
  <1>8. CASE FuturesStep \/ UNCHANGED systemVars
    BY <1>1, <1>8 DEF FuturesStep, systemVars, cacheVars
  <1>9. CASE RestartAll
    <2>1. InitializeATR(cache, told)'
      BY <1>9 DEF RestartAll, InitializeATR
    <2> QED
      BY <2>1, InitialCache, PTL
  <1> QED
    BY <1>2, <1>3, <1>4, <1>5, <1>6, <1>7, <1>8, <1>9 DEF AutoNext

(* A handler ends with a call started only by signalling. *)
LEMMA EndsBySignalling ==
  ASSUME TypeOK, AutoTypes, [AutoNext]_systemVars, NEW a \in Handlers,
         apc[a] = "balance", apc'[a] = "idle", started' # started
  PROVE  \E c \in Calls, q \in 0..MaxQty : EmitSignal(a, c, q)
  <1>1. ASSUME NEW b \in Handlers,
               \/ \E s \in Symbols, r \in Analyses : AnalysisCompleted(b, s, r)
               \/ PositionRead(b) \/ PositionReadFails(b) \/ BalanceIsZero(b)
        PROVE  FALSE
    BY <1>1 DEF AnalysisCompleted, PositionRead, PositionReadFails, DecideOnAnalysis,
                BalanceIsZero, vars, boundVars
  <1>2. ASSUME NEW b \in Handlers, NEW c \in Calls, BalanceRead(b, c) \/ BalanceReadFails(b, c)
        PROVE  \E q \in 0..MaxQty : EmitSignal(a, c, q)
    <2>1. PICK q \in 0..MaxQty : EmitSignal(b, c, q)
      BY <1>2, Emission
    <2>2. a = b
      BY <2>1, HandlerEndsTypes DEF EmitSignal
    <2> QED
      BY <2>1, <2>2
  <1>3. CASE UpdateATRConfig \/ (\E s \in Symbols : CalculateAndCacheATR(s))
             \/ CacheIsRead \/ TimePasses \/ UNCHANGED systemVars
    BY <1>3 DEF UpdateATRConfig, CalculateAndCacheATR, CacheIsRead, TimePasses, Put,
                systemVars, vars, boundVars
  <1>4. CASE FuturesStep
    BY <1>4 DEF FuturesStep
  <1>5. CASE RestartAll
    BY <1>5 DEF RestartAll, Restart
  <1> QED
    BY <1>1, <1>2, <1>3, <1>4, <1>5 DEF AutoNext

LEMMA DefaultsDiffer ==
  /\ DefaultPercent[StopKey] = 2 /\ DefaultPercent[ProfitKey] = 4
  /\ StopKey \in Keys /\ ProfitKey \in Keys
  <1>1. StopKey \in ConfigKeys /\ ProfitKey \in ConfigKeys
    BY DEF ConfigKeys
  <1>2. StopKey # ProfitKey
    BY DEF StopKey, ProfitKey
  <1>3. DefaultPercent = [k \in ConfigKeys |-> IF k = StopKey THEN 2 ELSE 4]
    BY DEF DefaultPercent, Stops!getFuturesDefaultConfig
  <1> QED
    BY <1>1, <1>2, <1>3 DEF Keys

(* A multiplier and a distance are what the audit remembers. *)
LEMMA CurrentMultipliers ==
  ASSUME CacheInv, NEW k \in ConfigKeys
  PROVE  /\ Multiplier(k) = IF told[k].value # 0 THEN told[k].value ELSE EnvMultiplier[k]
         /\ Multiplier(k) \in Nat
  <1>1. k \in Keys
    BY DEF Keys
  <1>2. Cache!Get(k) = told[k].value /\ told[k].value \in Nat
    BY <1>1, CacheAnswers DEF CacheInv
  <1>3. EnvMultiplier[k] \in Nat
    BY AutoTradingAssumption
  <1> QED
    BY <1>2, <1>3 DEF Multiplier, Cache!Absent

(* What StopsAreCurrent asks of the step that ends handler a. *)
CurrentStops(a) ==
  LET s == signal'.symbol
      current(k) == IF told[k].value # 0 THEN told[k].value ELSE EnvMultiplier[k]
      atr == told[AtrKey(s)].value
      sign == IF signal'.side = "LONG" THEN 1 ELSE -1
      defaults == Stops!getFuturesDefaultConfig
  IN  /\ s = result[a].symbol
      /\ atr # 0 =>
           /\ sign * (signal'.entryPrice - signal'.stopLoss) = atr * current(StopKey) * 100
           /\ sign * (signal'.takeProfit - signal'.entryPrice) = atr * current(ProfitKey) * 100
      /\ atr = 0 =>
           [stopLossPrice |-> signal'.stopLoss, takeProfitPrice |-> signal'.takeProfit] =
             Stops!calculateFuturesStopLossTakeProfit(
               signal'.entryPrice \div 1000, signal'.side,
               Stops!Percent(defaults.stopLossPercent),
               Stops!Percent(defaults.takeProfitPercent))

(* The distances of a signal are those of the settings and the ATR put     *)
(* within their lifetime, or of the defaults.                              *)
LEMMA SignalStops ==
  ASSUME AutoTypes, CacheInv, NEW a \in Handlers, NEW c \in Calls, NEW q \in 0..MaxQty,
         EmitSignal(a, c, q)
  PROVE  CurrentStops(a)
  <1> DEFINE s == result[a].symbol
             price == result[a].analysis.currentPrice
             atr == told[AtrKey(s)].value
             current(k) == IF told[k].value # 0 THEN told[k].value ELSE EnvMultiplier[k]
             stop == Distance(s, price, StopKey)
             profit == Distance(s, price, ProfitKey)
  <1>1. PICK side \in Side :
          signal' = [symbol |-> s, side |-> side, entryPrice |-> price * 1000,
                     stopLoss |-> CalculateATRBasedStopLoss(s, price, side),
                     takeProfit |-> CalculateATRBasedTakeProfit(s, price, side)]
    BY DEF EmitSignal
  <1>2. signal'.symbol = s /\ signal'.side = side /\ signal'.entryPrice = price * 1000
    BY <1>1
  <1>3. /\ signal'.stopLoss = IF side = "LONG" THEN price * 1000 - stop ELSE price * 1000 + stop
        /\ signal'.takeProfit = IF side = "LONG" THEN price * 1000 + profit
                                ELSE price * 1000 - profit
    BY <1>1 DEF CalculateATRBasedStopLoss, CalculateATRBasedTakeProfit
  <1>4. price \in Nat
    BY AutoTradingAssumption DEF AutoTypes, AnalysisResult
  <1>5. AtrKey(s) \in Keys /\ StopKey \in ConfigKeys /\ ProfitKey \in ConfigKeys
    BY DEF Keys, ConfigKeys, AutoTypes
  <1>6. Cache!Get(AtrKey(s)) = atr /\ atr \in Nat
    BY <1>5, CacheAnswers DEF CacheInv
  <1>7. ASSUME atr # 0
        PROVE  /\ stop = atr * current(StopKey) * 100 /\ stop \in Int
               /\ profit = atr * current(ProfitKey) * 100 /\ profit \in Int
    <2>1. /\ Multiplier(StopKey) = current(StopKey) /\ Multiplier(StopKey) \in Nat
          /\ Multiplier(ProfitKey) = current(ProfitKey) /\ Multiplier(ProfitKey) \in Nat
      BY <1>5, CurrentMultipliers
    <2>2. /\ stop = atr * Multiplier(StopKey) * 100 /\ profit = atr * Multiplier(ProfitKey) * 100
      BY <1>6, <1>7 DEF Distance, AtrDistance, Cache!Absent
    <2>3. /\ atr * Multiplier(StopKey) \in Nat /\ atr * Multiplier(ProfitKey) \in Nat
      BY <1>6, <2>1, NatProduct
    <2> HIDE DEF atr, current, stop, profit
    <2>4. stop \in Int /\ profit \in Int
      BY <2>2, <2>3
    <2> QED
      BY <2>1, <2>2, <2>4
  <1>8. ASSUME atr = 0
        PROVE  stop = price * 10 * 2 /\ profit = price * 10 * 4
    BY <1>6, <1>8, DefaultsDiffer DEF Distance, Cache!Absent
  <1> HIDE DEF stop, profit, price
  <1>9. ASSUME atr # 0
        PROVE  /\ (IF side = "LONG" THEN 1 ELSE -1) * (signal'.entryPrice - signal'.stopLoss) = stop
               /\ (IF side = "LONG" THEN 1 ELSE -1) * (signal'.takeProfit - signal'.entryPrice) = profit
    <2>1. stop \in Int /\ profit \in Int
      BY <1>7, <1>9
    <2> QED
      BY <1>2, <1>3, <1>4, <2>1
  <1>10. ASSUME atr = 0
         PROVE  [stopLossPrice |-> signal'.stopLoss, takeProfitPrice |-> signal'.takeProfit] =
                  Stops!calculateFuturesStopLossTakeProfit(
                    signal'.entryPrice \div 1000, side,
                    Stops!Percent(Stops!getFuturesDefaultConfig.stopLossPercent),
                    Stops!Percent(Stops!getFuturesDefaultConfig.takeProfitPercent))
    <2>1. signal'.entryPrice \div 1000 = price
      BY <1>2, <1>4
    <2>2. /\ Stops!getFuturesDefaultConfig.stopLossPercent = 2
          /\ Stops!getFuturesDefaultConfig.takeProfitPercent = 4
      BY DEF Stops!getFuturesDefaultConfig
    <2>3. /\ Stops!PriceOf(price, Stops!Percent(2), -1) = price * 10 * (100 + (-1) * 2)
          /\ Stops!PriceOf(price, Stops!Percent(2), 1) = price * 10 * (100 + 1 * 2)
          /\ Stops!PriceOf(price, Stops!Percent(4), -1) = price * 10 * (100 + (-1) * 4)
          /\ Stops!PriceOf(price, Stops!Percent(4), 1) = price * 10 * (100 + 1 * 4)
      BY DEF Stops!PriceOf, Stops!Percent
    <2>4. /\ signal'.stopLoss = Stops!calculateStopLossPrice(price, Stops!Percent(2), side)
          /\ signal'.takeProfit = Stops!calculateTakeProfitPrice(price, Stops!Percent(4), side)
      BY <1>3, <1>4, <1>8, <1>10, <2>3
      DEF Stops!calculateStopLossPrice, Stops!calculateTakeProfitPrice
    <2> QED
      BY <2>1, <2>2, <2>4 DEF Stops!calculateFuturesStopLossTakeProfit
  <1> QED
    BY <1>2, <1>7, <1>9, <1>10 DEF CurrentStops

(* Whatever was read, cleaned up, computed or set in between, the stops    *)
(* sent with a signal are at the distance of the settings and the ATR of   *)
(* the last hour, on the sides of the position it enters.                  *)
THEOREM StopsAreAlwaysCurrent == AutoSpec => StopsAreCurrent
  <1>1. AutoInit => CacheInv
    BY InitialCache DEF AutoInit
  <1>2. TypeOK /\ AutoTypes /\ CacheInv /\ [AutoNext]_systemVars =>
          \A a \in Handlers :
            apc[a] = "balance" /\ apc'[a] = "idle" /\ started' # started => CurrentStops(a)
    BY EndsBySignalling, SignalStops
  <1>3. AutoSpec => []TypeOK
    BY AutoImplementsTrading, TypeCorrect, PTL
  <1> QED
    BY <1>1, <1>2, <1>3, NextCacheInv, SpecAutoTypes, PTL DEF AutoSpec, StopsAreCurrent, CurrentStops
=============================================================================
