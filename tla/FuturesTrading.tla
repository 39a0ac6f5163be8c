--------------------------- MODULE FuturesTrading ---------------------------
(***************************************************************************)
(* FuturesService and the exchange account it drives.                      *)
(*                                                                         *)
(* Every public operation of FuturesService (open, close, closeAll,        *)
(* switch, add, reduce) and its 'trading.signal' handler is a call that    *)
(* suspends at each await.  One call is one element of Calls; between two  *)
(* awaits the JavaScript runs without interruption, so a step of a call is *)
(* the code from one await to the next.  A read takes effect at the        *)
(* exchange and is acted on in one step; an order takes effect at the      *)
(* exchange in one step (Execute) and is reported on the event bus in a    *)
(* later one (Reply), because the events are emitted when the HTTP reply   *)
(* arrives and replies of different calls may overtake each other.         *)
(*                                                                         *)
(* Quantities are whole lots of 0.001, the smallest quantity accepted; a   *)
(* position is a signed number of lots (one-way mode), LONG positive.      *)
(***************************************************************************)
EXTENDS Integers, FiniteSets

CONSTANTS
  Symbols,          \* traded symbols
  Calls,            \* call slots: how many handlers may be in flight at once
  MaxQty,           \* largest quantity a caller asks for
  Leverages,        \* leverages a REST caller may ask for
  SignalLeverage,   \* AUTO_TRADING_LEVERAGE, used for every signal
  Holdings,         \* signed positions the account may hold at start-up
  Liquidatable,     \* symbols whose position the exchange may liquidate
  MaxRequests,      \* bound: calls made in a behaviour
  MaxRestarts       \* bound: restarts of the process in a behaviour

ASSUME FuturesAssumption ==
  /\ Symbols # {} /\ Calls # {} /\ IsFiniteSet(Calls)
  /\ MaxQty \in Nat \ {0}
  /\ Leverages \subseteq 1..125 /\ SignalLeverage \in 1..125
  /\ Holdings \subseteq Int /\ Liquidatable \subseteq Symbols
  /\ MaxRequests \in Nat /\ MaxRestarts \in Nat

VARIABLES
  position,   \* exchange: signed amount held per symbol
  leverage,   \* exchange: leverage setting per symbol, 0 when never set
  pc,         \* call: the await it is suspended at
  job,        \* call: its arguments and locals
  filled,     \* call: signed amount its order executed, until reported
  ledger,     \* net signed amount the trade.executed events account for
  unseen,     \* net signed amount moved at the exchange and not reported
  stale,      \* call: what others changed since this call read or set it
  raced,      \* symbol: an order decided on a stale position was executed
  missed,     \* symbol: a movement will never be reported
  started, restarts

exchangeVars == <<position, leverage>>
callVars == <<pc, job, filled, stale>>
auditVars == <<ledger, unseen, raced, missed>>
boundVars == <<started, restarts>>
vars == <<exchangeVars, callVars, auditVars, boundVars>>

-----------------------------------------------------------------------------
Side == {"LONG", "SHORT"}
Opposite(side) == IF side = "LONG" THEN "SHORT" ELSE "LONG"
Signed(side, q) == IF side = "LONG" THEN q ELSE -q
SideOf(p) == IF p > 0 THEN "LONG" ELSE "SHORT"
Abs(p) == IF p < 0 THEN -p ELSE p

(* An order of BinanceFuturesClient.  qty 0 is the order without quantity: *)
(* `if (quantity)` treats 0 and undefined alike.                           *)
Order == [side: Side, qty: Nat, reduceOnly: BOOLEAN]
NoOrder == [side |-> "LONG", qty |-> 0, reduceOnly |-> FALSE]

(* What the exchange does with an order on a position p (external): a      *)
(* reduce-only order never moves the position past zero, and without a     *)
(* quantity it closes what is there.                                       *)
Executed(p, o) ==
  IF ~o.reduceOnly THEN Signed(o.side, o.qty)
  ELSE IF p = 0 \/ SideOf(p) = o.side THEN 0
  ELSE IF o.qty = 0 \/ o.qty > Abs(p) THEN -p
  ELSE Signed(o.side, o.qty)

Op == {"open", "close", "closeAll", "switch", "add", "reduce",
       "signal", "signalClose"}
Opener == {"open", "signal"}
CloserOfAll == {"closeAll", "signalClose"}
Awaiting == {"idle", "signal", "leverage", "checks", "closeAll", "close",
             "change", "placing", "placed"}

(* The trades a call reports: the leg that closes and the leg that enters, *)
(* each signed, 0 when the operation has no such leg.                      *)
Job == [op: Op, symbol: Symbols, side: Side, qty: 0..MaxQty, lev: 1..125,
        sure: BOOLEAN, closeQty: Nat, order: Order, closing: Int,
        entering: Int, notice: {"none", "opened", "closed"}]

NewJob(op, s, side, q, lev) ==
  [op |-> op, symbol |-> s, side |-> side, qty |-> q, lev |-> lev,
   sure |-> TRUE, closeQty |-> 0, order |-> NoOrder, closing |-> 0,
   entering |-> 0, notice |-> "none"]

NoJob == NewJob("open", CHOOSE s \in Symbols : TRUE, "LONG", 0, 1)

(* validatePositionInputs: at least one lot; the leverage range is the     *)
(* range of the constants.                                                 *)
ValidPositionInputs(q) == q >= 1

-----------------------------------------------------------------------------
Init ==
  /\ position \in [Symbols -> Holdings]
  /\ leverage = [s \in Symbols |-> 0]
  /\ pc = [c \in Calls |-> "idle"]
  /\ job = [c \in Calls |-> NoJob]
  /\ filled = [c \in Calls |-> 0]
  /\ ledger = position
  /\ unseen = [s \in Symbols |-> 0]
  /\ stale = [c \in Calls |-> {}]
  /\ raced = [s \in Symbols |-> FALSE]
  /\ missed = [s \in Symbols |-> FALSE]
  /\ started = 0
  /\ restarts = 0

(* A call begins and runs to its first await. *)
Begin(c, j, await) ==
  /\ pc[c] = "idle"
  /\ started < MaxRequests
  /\ started' = started + 1
  /\ job' = [job EXCEPT ![c] = j]
  /\ pc' = [pc EXCEPT ![c] = await]
  /\ UNCHANGED <<exchangeVars, filled, stale, auditVars, restarts>>

SignalArrives(c, s, side, q) ==
  Begin(c, NewJob("signal", s, side, q, SignalLeverage), "signal")
CloseSignalArrives(c, s) ==
  Begin(c, NewJob("signalClose", s, "LONG", 0, SignalLeverage), "signal")
OpenPosition(c, s, side, q, lev) ==
  /\ ValidPositionInputs(q)
  /\ Begin(c, NewJob("open", s, side, q, lev), "leverage")
ClosePosition(c, s, q) ==
  Begin(c, NewJob("close", s, "LONG", q, 1), "close")
CloseAllPosition(c, s) ==
  Begin(c, NewJob("closeAll", s, "LONG", 0, 1), "closeAll")
SwitchPosition(c, s, side, q) ==
  q >= 1 /\ Begin(c, NewJob("switch", s, side, q, 1), "change")
AddToPosition(c, s, q) ==
  q >= 1 /\ Begin(c, NewJob("add", s, "LONG", q, 1), "change")
ReducePosition(c, s, q) ==
  q >= 1 /\ Begin(c, NewJob("reduce", s, "LONG", q, 1), "change")

-----------------------------------------------------------------------------
(* The call ends: it returned, or an exception reached its catch. *)
End(c) ==
  /\ pc' = [pc EXCEPT ![c] = "idle"]
  /\ job' = [job EXCEPT ![c] = NoJob]
  /\ filled' = [filled EXCEPT ![c] = 0]
  /\ stale' = [stale EXCEPT ![c] = {}]

Goto(c, await, j) ==
  /\ pc' = [pc EXCEPT ![c] = await]
  /\ job' = [job EXCEPT ![c] = j]
  /\ UNCHANGED filled

(* The call has just read the position, so its knowledge is fresh. *)
Refresh(c) == stale' = [stale EXCEPT ![c] = {}]

(* The others in flight on symbol s that have still to place their order   *)
(* learn nothing of a change of `what`.                                    *)
Outdate(s, c, what) ==
  [d \in Calls |-> IF d # c /\ pc[d] \notin {"idle", "placed"} /\ job[d].symbol = s
                   THEN stale[d] \cup {what} ELSE stale[d]]

(* handleTradingSignal after getCurrentPosition: `sure` is FALSE when the  *)
(* read failed, which getCurrentPosition turns into null, "no position".   *)
DecideOnSignal(c, held, sure) ==
  /\ pc[c] = "signal"
  /\ LET j == job[c]
         enters == j.op = "signal" /\ ~held /\ ValidPositionInputs(j.qty)
         closes == j.op = "signalClose" /\ held
     IN  \/ enters /\ Goto(c, "leverage", [j EXCEPT !.sure = sure]) /\ Refresh(c)
         \/ closes /\ Goto(c, "closeAll", j) /\ Refresh(c)
         \/ ~enters /\ ~closes /\ End(c)
  /\ UNCHANGED <<exchangeVars, auditVars, boundVars>>

SignalRead(c) == DecideOnSignal(c, position[job[c].symbol] # 0, TRUE)
SignalReadFails(c) == DecideOnSignal(c, FALSE, FALSE)

(* Variant: the setting is not sent again once the symbol has one. *)
SetLeverageOnce(c) ==
  /\ pc[c] = "leverage"
  /\ leverage' = [leverage EXCEPT ![job[c].symbol] = IF @ = 0 THEN job[c].lev ELSE @]
  /\ stale' = [stale EXCEPT ![c] = @ \ {"leverage"}]
  /\ Goto(c, "checks", job[c])
  /\ UNCHANGED <<position, auditVars, boundVars>>

(* openPosition: setLeverage takes effect at the exchange. *)
SetLeverage(c) ==
  /\ pc[c] = "leverage"
  /\ leverage' = [leverage EXCEPT ![job[c].symbol] = job[c].lev]
  /\ stale' = [Outdate(job[c].symbol, c, "leverage") EXCEPT ![c] = @ \ {"leverage"}]
  /\ Goto(c, "checks", job[c])
  /\ UNCHANGED <<position, auditVars, boundVars>>

(* The leverage was changed but the reply was lost: openPosition throws. *)
SetLeverageReplyLost(c) ==
  /\ pc[c] = "leverage"
  /\ leverage' = [leverage EXCEPT ![job[c].symbol] = job[c].lev]
  /\ pc' = [pc EXCEPT ![c] = "idle"]
  /\ job' = [job EXCEPT ![c] = NoJob]
  /\ stale' = [Outdate(job[c].symbol, c, "leverage") EXCEPT ![c] = {}]
  /\ UNCHANGED <<position, filled, auditVars, boundVars>>

(* getEstimatedPrice, canOpenPosition and the minimum notional: three      *)
(* awaits that only read, and of which nothing but success is used (an     *)
(* existing position is logged, not refused).  Failing is Fail(c).         *)
PassChecks(c) ==
  /\ pc[c] = "checks"
  /\ LET j == job[c]
     IN  Goto(c, "placing",
              [j EXCEPT !.order = [side |-> j.side, qty |-> j.qty, reduceOnly |-> FALSE],
                        !.entering = Signed(j.side, j.qty), !.notice = "opened"])
  /\ UNCHANGED <<exchangeVars, stale, auditVars, boundVars>>

(* closeAllPosition reads the position and passes its size to              *)
(* closePosition, which reads again.                                       *)
ReadForCloseAll(c) ==
  /\ pc[c] = "closeAll"
  /\ LET p == position[job[c].symbol]
     IN  \/ p = 0 /\ End(c)
         \/ p # 0 /\ Goto(c, "close", [job[c] EXCEPT !.closeQty = Abs(p)]) /\ Refresh(c)
  /\ UNCHANGED <<exchangeVars, auditVars, boundVars>>

(* closePosition: an order with a quantity is not reduce-only. *)
ReadForClose(c) ==
  /\ pc[c] = "close"
  /\ LET j == job[c]
         p == position[j.symbol]
         q == IF j.op = "close" THEN j.qty ELSE j.closeQty
         side == Opposite(SideOf(p))
     IN  \/ (p = 0 \/ q > Abs(p)) /\ End(c)
         \/ /\ p # 0 /\ q <= Abs(p)
            /\ Goto(c, "placing",
                 [j EXCEPT !.order = [side |-> side, qty |-> q, reduceOnly |-> q = 0],
                           !.closing = IF q = 0 THEN -p ELSE Signed(side, q),
                           !.notice = "closed"])
            /\ IF j.op = "close" THEN Refresh(c) ELSE UNCHANGED stale
  /\ UNCHANGED <<exchangeVars, auditVars, boundVars>>

(* Variants: a switch that orders the new quantity only, or reports only  *)
(* the trade that enters; a reduce without the reduceOnly flag.            *)
SwitchOrderNewOnly(j, p) ==
  [j EXCEPT !.order = [side |-> j.side, qty |-> j.qty, reduceOnly |-> FALSE],
            !.closing = -p, !.entering = Signed(j.side, j.qty)]
SwitchOrderOneTrade(j, p) ==
  [j EXCEPT !.order = [side |-> j.side, qty |-> Abs(p) + j.qty, reduceOnly |-> FALSE],
            !.entering = Signed(j.side, j.qty)]
ReduceOrderPlain(j, p) ==
  [j EXCEPT !.order = [side |-> Opposite(SideOf(p)), qty |-> j.qty, reduceOnly |-> FALSE],
            !.closing = Signed(Opposite(SideOf(p)), j.qty)]

(* BinanceFuturesClient: the order each change is, from the side and size  *)
(* it is given.  A switch is one order of both quantities.                 *)
SwitchParams(currentSide, currentQuantity, newQuantity) ==
  [side |-> Opposite(currentSide), qty |-> currentQuantity + newQuantity, reduceOnly |-> FALSE]
AddParams(currentSide, addQuantity) ==
  [side |-> currentSide, qty |-> addQuantity, reduceOnly |-> FALSE]
ReduceParams(currentSide, reduceQuantity) ==
  [side |-> Opposite(currentSide), qty |-> reduceQuantity, reduceOnly |-> TRUE]

(* switchPosition, addToPosition and reducePosition after                  *)
(* getCurrentPosition: the order, and the trades reported when its reply   *)
(* arrives, two for a switch.  None announces a position opened or closed. *)
SwitchOrder(j, p) ==
  [j EXCEPT !.order = SwitchParams(SideOf(p), Abs(p), j.qty),
            !.closing = -p, !.entering = Signed(j.side, j.qty)]
AddOrder(j, p) ==
  [j EXCEPT !.order = AddParams(SideOf(p), j.qty),
            !.entering = Signed(SideOf(p), j.qty)]
ReduceOrder(j, p) ==
  [j EXCEPT !.order = ReduceParams(SideOf(p), j.qty),
            !.closing = Signed(Opposite(SideOf(p)), j.qty)]

ReadForChange(c) ==
  /\ pc[c] = "change"
  /\ LET j == job[c]
         p == position[j.symbol]
         refused == \/ p = 0
                    \/ j.op = "switch" /\ SideOf(p) = j.side
                    \/ j.op = "reduce" /\ j.qty >= Abs(p)
     IN  \/ refused /\ End(c)
         \/ /\ ~refused
            /\ \/ j.op = "switch" /\ Goto(c, "placing", SwitchOrder(j, p))
               \/ j.op = "add" /\ Goto(c, "placing", AddOrder(j, p))
               \/ j.op = "reduce" /\ Goto(c, "placing", ReduceOrder(j, p))
            /\ Refresh(c)
  /\ UNCHANGED <<exchangeVars, auditVars, boundVars>>

(* Any await but the signal's first read may fail, an order included: the  *)
(* exception ends the call.  (getCurrentPosition's null is an exception    *)
(* too for switch, add and reduce.)                                        *)
Fail(c) ==
  /\ pc[c] \in {"leverage", "checks", "closeAll", "close", "change", "placing"}
  /\ End(c)
  /\ UNCHANGED <<exchangeVars, auditVars, boundVars>>

(* POST /futures/leverage: FuturesService.setLeverage outside of an open,  *)
(* answered at once; an open in flight on the symbol learns nothing of it. *)
SetLeverageRequest(s, lev) ==
  /\ lev \in 1..125
  /\ started < MaxRequests
  /\ started' = started + 1
  /\ leverage' = [leverage EXCEPT ![s] = lev]
  /\ stale' = [d \in Calls |->
                 IF pc[d] \notin {"idle", "placed"} /\ job[d].symbol = s
                 THEN stale[d] \cup {"leverage"} ELSE stale[d]]
  /\ UNCHANGED <<position, pc, job, filled, auditVars, restarts>>

-----------------------------------------------------------------------------
(* The exchange executes the order; the reply is on its way. *)
Execute(c) ==
  /\ pc[c] = "placing"
  /\ LET s == job[c].symbol
         x == Executed(position[s], job[c].order)
     IN  /\ x # 0
         /\ position' = [position EXCEPT ![s] = @ + x]
         /\ filled' = [filled EXCEPT ![c] = x]
         /\ unseen' = [unseen EXCEPT ![s] = @ + x]
         /\ raced' = [raced EXCEPT ![s] = @ \/ "position" \in stale[c]]
         /\ stale' = [Outdate(s, c, "position") EXCEPT ![c] = {}]
  /\ pc' = [pc EXCEPT ![c] = "placed"]
  /\ UNCHANGED <<leverage, job, ledger, missed, boundVars>>

(* Variant: only an order that announces a position is reported. *)
ReplyOfNoticesOnly(c) ==
  /\ pc[c] = "placed"
  /\ LET s == job[c].symbol
         told == job[c].notice # "none"
     IN  /\ ledger' = [ledger EXCEPT ![s] =
                         IF told THEN @ + job[c].closing + job[c].entering ELSE @]
         /\ unseen' = [unseen EXCEPT ![s] = IF told THEN @ - filled[c] ELSE @]
  /\ End(c)
  /\ UNCHANGED <<exchangeVars, raced, missed, boundVars>>

(* The reply arrives: trade.executed is emitted for each leg, then the     *)
(* position notice, and the call returns.                                  *)
Reply(c) ==
  /\ pc[c] = "placed"
  /\ LET s == job[c].symbol
     IN  /\ ledger' = [ledger EXCEPT ![s] = @ + job[c].closing + job[c].entering]
         /\ unseen' = [unseen EXCEPT ![s] = @ - filled[c]]
  /\ End(c)
  /\ UNCHANGED <<exchangeVars, raced, missed, boundVars>>

(* The order was executed but the reply is lost: the catch emits nothing. *)
ReplyLost(c) ==
  /\ pc[c] = "placed"
  /\ missed' = [missed EXCEPT ![job[c].symbol] = TRUE]
  /\ End(c)
  /\ UNCHANGED <<exchangeVars, ledger, unseen, raced, boundVars>>

(* The exchange liquidates a position (external): no event tells. *)
Liquidate(s) ==
  /\ position[s] # 0
  /\ position' = [position EXCEPT ![s] = 0]
  /\ unseen' = [unseen EXCEPT ![s] = @ - position[s]]
  /\ missed' = [missed EXCEPT ![s] = TRUE]
  /\ stale' = [d \in Calls |->
                 IF pc[d] \notin {"idle", "placed"} /\ job[d].symbol = s
                 THEN stale[d] \cup {"position"} ELSE stale[d]]
  /\ UNCHANGED <<leverage, pc, job, filled, ledger, raced, boundVars>>

(* The process restarts: calls in flight are gone, the account is not. *)
Restart ==
  /\ restarts < MaxRestarts
  /\ restarts' = restarts + 1
  /\ pc' = [c \in Calls |-> "idle"]
  /\ job' = [c \in Calls |-> NoJob]
  /\ filled' = [c \in Calls |-> 0]
  /\ stale' = [c \in Calls |-> {}]
  /\ missed' = [s \in Symbols |->
                  missed[s] \/ \E c \in Calls : pc[c] = "placed" /\ job[c].symbol = s]
  /\ UNCHANGED <<exchangeVars, ledger, unseen, raced, started>>

-----------------------------------------------------------------------------
Arrival(c) ==
  \E s \in Symbols :
    \/ CloseSignalArrives(c, s)
    \/ CloseAllPosition(c, s)
    \/ \E q \in 0..MaxQty :
         \/ ClosePosition(c, s, q)
         \/ AddToPosition(c, s, q)
         \/ ReducePosition(c, s, q)
         \/ \E side \in Side :
              \/ SignalArrives(c, s, side, q)
              \/ SwitchPosition(c, s, side, q)
              \/ \E lev \in Leverages : OpenPosition(c, s, side, q, lev)

(* A step of a call in flight that emits nothing on the event bus. *)
Progress(c) ==
  \/ SignalRead(c) \/ SignalReadFails(c)
  \/ SetLeverage(c) \/ SetLeverageReplyLost(c) \/ PassChecks(c)
  \/ ReadForCloseAll(c) \/ ReadForClose(c) \/ ReadForChange(c)
  \/ Execute(c) \/ ReplyLost(c) \/ Fail(c)

Next ==
  \/ \E c \in Calls : Arrival(c) \/ Progress(c) \/ Reply(c)
  \/ \E s \in Symbols, lev \in Leverages : SetLeverageRequest(s, lev)
  \/ \E s \in Liquidatable : Liquidate(s)
  \/ Restart

Spec == Init /\ [][Next]_vars

-----------------------------------------------------------------------------
(* Every variable keeps its type: a call's locals and the exchange's       *)
(* numbers as FuturesService and the client use them.                      *)
TypeOK ==
  /\ position \in [Symbols -> Int]
  /\ leverage \in [Symbols -> 0..125]
  /\ pc \in [Calls -> Awaiting]
  /\ job \in [Calls -> Job]
  /\ filled \in [Calls -> Int]
  /\ ledger \in [Symbols -> Int]
  /\ unseen \in [Symbols -> Int]
  /\ stale \in [Calls -> SUBSET {"position", "leverage"}]
  /\ raced \in [Symbols -> BOOLEAN]
  /\ missed \in [Symbols -> BOOLEAN]
  /\ started \in Nat
  /\ restarts \in Nat

(* What each operation promises of the position, were its order executed   *)
(* now on a position p and left it at `after`.                             *)
Promise(j, p, after) ==
  /\ j.op = "signal" /\ j.sure => p = 0 /\ after = Signed(j.side, j.qty)
  /\ j.op = "open" => after = p + Signed(j.side, j.qty)
  /\ j.op = "close" => \/ 0 <= after /\ after < p
                       \/ p < after /\ after <= 0
  /\ j.op \in CloserOfAll => after = 0
  /\ j.op = "close" /\ j.qty = 0 => after = 0
  /\ j.op = "switch" => SideOf(p) # j.side /\ after = Signed(j.side, j.qty)
  /\ j.op = "add" => SideOf(after) = SideOf(p) /\ Abs(after) = Abs(p) + j.qty
  /\ j.op = "reduce" => SideOf(after) = SideOf(p) /\ Abs(after) = Abs(p) - j.qty

(* An order about to be executed does exactly what its operation promises  *)
(* (a signal enters a flat symbol only, a close never passes zero, closeAll*)
(* leaves nothing, a switch turns the position into the one asked for, a   *)
(* reduce keeps the side) unless the position moved since the call read    *)
(* it: the only way for FuturesService to do harm is the await in between. *)
FreshOrdersKeepPromises ==
  \A c \in Calls :
    pc[c] = "placing" /\ "position" \notin stale[c] =>
      LET p == position[job[c].symbol]
      IN  Promise(job[c], p, p + Executed(p, job[c].order))

(* A position opens at the leverage its call asked for, unless another     *)
(* open or a leverage request set the symbol's leverage between this call's*)
(* setLeverage and its order (112-149 hold no lock across these awaits).   *)
LeverageHonoured ==
  \A c \in Calls :
    pc[c] \in {"checks", "placing"} /\ job[c].op \in Opener /\ "leverage" \notin stale[c]
      => leverage[job[c].symbol] = job[c].lev

(* The trade.executed events account for the position: on a symbol where   *)
(* no order was decided on a stale read, position = reported + unreported, *)
(* both legs of a switch and the two kinds of close included.              *)
BooksBalance ==
  \A s \in Symbols : ~raced[s] => position[s] = ledger[s] + unseen[s]

(* Something is unreported only while a reply is awaited, or for good after*)
(* a lost reply, a liquidation or a restart: no path of FuturesService     *)
(* executes an order and returns without its event.                        *)
UnseenOnlyInFlight ==
  \A s \in Symbols :
    unseen[s] # 0 => missed[s] \/ \E c \in Calls : pc[c] = "placed" /\ job[c].symbol = s

(* Whatever the interleaving, reducePosition and a close without quantity  *)
(* move the position towards zero and never past it: reduceOnly protects   *)
(* them even from a stale read.                                            *)
ReduceOnlyNeverFlips ==
  [][\A c \in Calls :
       pc[c] = "placing" /\ pc'[c] = "placed"
         /\ \/ job[c].op = "reduce"
            \/ job[c].op = "close" /\ job[c].qty = 0
       => LET s == job[c].symbol
          IN  \/ 0 <= position'[s] /\ position'[s] < position[s]
              \/ position[s] < position'[s] /\ position'[s] <= 0]_vars

(* closeAllPosition "prevents excessive closing" (FuturesService 1062): it *)
(* never leaves a position on the other side.                              *)
CloseAllNeverFlips ==
  [][\A c \in Calls :
       pc[c] = "placing" /\ pc'[c] = "placed" /\ job[c].op \in CloserOfAll
       => LET s == job[c].symbol
          IN  \/ position[s] > 0 /\ position'[s] >= 0
              \/ position[s] < 0 /\ position'[s] <= 0]_vars
=============================================================================
