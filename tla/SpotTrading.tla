---------------------------- MODULE SpotTrading ----------------------------
(***************************************************************************)
(* OrderService and the spot account it orders on, and the transfers of    *)
(* FuturesService between that account and the futures account.            *)
(*                                                                         *)
(* A call checks its arguments, awaits the balances, decides, awaits the   *)
(* order and reports it; between two awaits it is not interrupted.  The    *)
(* exchange executes or rests an order before its HTTP reply arrives.      *)
(* Money is whole USDT and quantities are whole steps; fees are left out.  *)
(***************************************************************************)
EXTENDS Integers

CONSTANTS
  Coins,        \* base assets of the traded symbols
  USDT,         \* the quote asset of all of them
  Bitcoin,      \* the coin whose trades are parsed on chain
  Calls,        \* call slots: how many requests may be in flight at once
  Prices,       \* prices a coin may have
  MaxAsk,       \* bound: largest amount or quantity asked for
  MinNotional,  \* MIN_ORDER_NOTIONAL
  Funds,        \* what the account holds at start-up
  MaxOrders,    \* bound: orders the exchange numbers
  MaxRequests,  \* bound: requests in a behaviour
  MaxRestarts   \* bound: restarts of the process

Assets == Coins \cup {USDT}
Ids == 1..MaxOrders

ASSUME SpotAssumption ==
  /\ Coins # {} /\ USDT \notin Coins /\ Bitcoin \in Coins
  /\ Prices \subseteq Nat \ {0} /\ Prices # {}
  /\ {MaxAsk, MinNotional} \subseteq Nat \ {0}
  /\ Funds \in [Assets -> Nat]
  /\ {MaxOrders, MaxRequests, MaxRestarts} \subseteq Nat

VARIABLES
  free,     \* exchange: what is not locked in resting orders, per asset
  margin,   \* exchange: what may be withdrawn from the futures account
  order,    \* exchange: the orders by number
  numbered, \* exchange: how many numbers it has given
  pc,       \* call: the await it is suspended at
  job,      \* call: its arguments, and the number of its order
  outrun,   \* call: the asset it needs shrank since it read the balance
  started, restarts

exchangeVars == <<free, margin, order, numbered>>
callVars == <<pc, job, outrun>>
boundVars == <<started, restarts>>
spotVars == <<exchangeVars, callVars, boundVars>>

-----------------------------------------------------------------------------
Op == {"marketBuy", "marketSell", "limitBuy", "limitSell", "cancel"}
Awaiting == {"idle", "balances", "placing", "placed", "canceling", "canceled"}

(* qty of a market buy is the USDT to spend (quoteOrderQty); id is the     *)
(* order to cancel, or the number the exchange gave to the call's own.     *)
Job == [op: Op, coin: Coins, qty: 0..MaxAsk, price: Prices, id: 0..MaxOrders]
NewJob(op, coin, qty, price) ==
  [op |-> op, coin |-> coin, qty |-> qty, price |-> price, id |-> 0]
AnyPrice == CHOOSE p \in Prices : TRUE
NoJob == NewJob("marketBuy", Bitcoin, 0, AnyPrice)

(* A resting order keeps what is left of it; "closeLeg" stands for the     *)
(* closing half of a futures switch, whose event has the number of the     *)
(* order with "_close" behind it.                                          *)
Kinds == {"none", "market", "limit", "futures", "closeLeg"}
Order == [kind: Kinds, buy: BOOLEAN, coin: Coins, left: Nat, price: Prices]
NoOrder == [kind |-> "none", buy |-> TRUE, coin |-> Bitcoin, left |-> 0, price |-> AnyPrice]

NextId == numbered + 1

Init ==
  /\ free = Funds
  /\ margin = [a \in Assets |-> 0]
  /\ order = [i \in Ids |-> NoOrder]
  /\ numbered = 0
  /\ pc = [c \in Calls |-> "idle"]
  /\ job = [c \in Calls |-> NoJob]
  /\ outrun = [c \in Calls |-> FALSE]
  /\ started = 0 /\ restarts = 0

-----------------------------------------------------------------------------
(* assertPositive and the smallest notional, before anything is awaited.   *)
AssertPositive(value) == value > 0

Begin(c, j, await) ==
  /\ pc[c] = "idle"
  /\ started < MaxRequests
  /\ started' = started + 1
  /\ pc' = [pc EXCEPT ![c] = await]
  /\ job' = [job EXCEPT ![c] = j]
  /\ UNCHANGED <<exchangeVars, outrun, restarts>>

PlaceMarketBuyOrder(c, coin, usdtAmount) ==
  /\ AssertPositive(usdtAmount) /\ usdtAmount >= MinNotional
  /\ Begin(c, NewJob("marketBuy", coin, usdtAmount, AnyPrice), "balances")
PlaceMarketSellOrder(c, coin, quantity) ==
  /\ AssertPositive(quantity)
  /\ Begin(c, NewJob("marketSell", coin, quantity, AnyPrice), "balances")
PlaceLimitBuyOrder(c, coin, quantity, price) ==
  /\ AssertPositive(quantity) /\ price * quantity >= MinNotional
  /\ Begin(c, NewJob("limitBuy", coin, quantity, price), "balances")
PlaceLimitSellOrder(c, coin, quantity, price) ==
  /\ AssertPositive(quantity) /\ price * quantity >= MinNotional
  /\ Begin(c, NewJob("limitSell", coin, quantity, price), "balances")
CancelOrder(c, id) ==
  /\ AssertPositive(id)
  /\ Begin(c, [NoJob EXCEPT !.op = "cancel", !.id = id], "canceling")

-----------------------------------------------------------------------------
End(c) ==
  /\ pc' = [pc EXCEPT ![c] = "idle"]
  /\ job' = [job EXCEPT ![c] = NoJob]
  /\ outrun' = [outrun EXCEPT ![c] = FALSE]

(* fetchBalances leaves out empty assets; a missing one reads as 0.        *)
Balance(asset) == free[asset]

(* Variant: the balance itself is taken for the quantity it buys.          *)
MaxQuantityUnpriced(usdtBalance, price) == usdtBalance

(* calculateMaxSellableQuantity(symbol, usdtBalance, price): the price is  *)
(* passed where a fee rate is expected.                                    *)
MaxQuantity(usdtBalance, price) == usdtBalance \div (1 + price)

MarketBuySufficient(j) == j.op = "marketBuy" => j.qty <= Balance(USDT)
MarketSellSufficient(j) == j.op = "marketSell" => j.qty <= Balance(j.coin)
LimitBuySufficient(j) ==
  j.op = "limitBuy" => j.qty <= MaxQuantity(Balance(USDT), j.price)
LimitSellSufficient(j) == j.op = "limitSell" => j.qty <= Balance(j.coin)

Sufficient(j) ==
  /\ MarketBuySufficient(j) /\ MarketSellSufficient(j)
  /\ LimitBuySufficient(j) /\ LimitSellSufficient(j)

(* The balances arrive and the call decides on them.                       *)
DecideOnBalance(c) ==
  /\ pc[c] = "balances"
  /\ \/ /\ Sufficient(job[c])
        /\ pc' = [pc EXCEPT ![c] = "placing"]
        /\ outrun' = [outrun EXCEPT ![c] = FALSE]
        /\ UNCHANGED job
     \/ ~Sufficient(job[c]) /\ End(c)
  /\ UNCHANGED <<exchangeVars, boundVars>>

(* A request that fails ends the call: the balances cannot be read, the    *)
(* exchange refuses the order or the cancellation, or it never gets there. *)
Fail(c) ==
  /\ pc[c] \in {"balances", "placing", "canceling"}
  /\ End(c)
  /\ UNCHANGED <<exchangeVars, boundVars>>

-----------------------------------------------------------------------------
Needs(j) == IF j.op \in {"marketBuy", "limitBuy"} THEN USDT ELSE j.coin

(* What the exchange demands of the free balance (external).               *)
Covered(j) ==
  /\ j.op = "marketBuy" => j.qty <= free[USDT]
  /\ j.op = "limitBuy" => j.qty * j.price <= free[USDT]
  /\ j.op \in {"marketSell", "limitSell"} => j.qty <= free[j.coin]

(* The exchange numbers an order of call c that leaves `after` free.       *)
Number(c, o, after) ==
  /\ NextId \in Ids
  /\ numbered' = NextId
  /\ order' = [order EXCEPT ![NextId] = o]
  /\ free' = after
  /\ pc' = [pc EXCEPT ![c] = "placed"]
  /\ job' = [job EXCEPT ![c].id = NextId]
  /\ outrun' = [d \in Calls |->
                  /\ d # c
                  /\ \/ outrun[d]
                     \/ /\ pc[d] = "placing"
                        /\ after[Needs(job[d])] < free[Needs(job[d])]]
  /\ UNCHANGED <<margin, boundVars>>

(* placeMarketOrder: executed at once, at the price of the moment.         *)
ExecuteMarketOrder(c, price) ==
  /\ pc[c] = "placing" /\ Covered(job[c])
  /\ LET j == job[c]
         bought == j.qty \div price
         o(buy) == [NoOrder EXCEPT !.kind = "market", !.buy = buy, !.coin = j.coin]
     IN  \/ /\ j.op = "marketBuy" /\ bought > 0
            /\ Number(c, o(TRUE), [free EXCEPT ![USDT] = @ - bought * price,
                                               ![j.coin] = @ + bought])
         \/ /\ j.op = "marketSell"
            /\ Number(c, o(FALSE), [free EXCEPT ![USDT] = @ + j.qty * price,
                                                ![j.coin] = @ - j.qty])

(* placeLimitOrder: GTC, what it needs is locked until it is filled.       *)
RestLimitOrder(c) ==
  /\ pc[c] = "placing" /\ Covered(job[c])
  /\ LET j == job[c]
         o(buy) == [kind |-> "limit", buy |-> buy, coin |-> j.coin,
                    left |-> j.qty, price |-> j.price]
     IN  \/ /\ j.op = "limitBuy"
            /\ Number(c, o(TRUE), [free EXCEPT ![USDT] = @ - j.qty * j.price])
         \/ /\ j.op = "limitSell"
            /\ Number(c, o(FALSE), [free EXCEPT ![j.coin] = @ - j.qty])

(* cancelOrder: what is left of a resting order is released.  An order     *)
(* that is gone is refused (Fail).                                         *)
CancelResting(c) ==
  /\ pc[c] = "canceling"
  /\ LET i == job[c].id
         o == order[i]
     IN  /\ o.kind = "limit" /\ o.left > 0
         /\ order' = [order EXCEPT ![i].left = 0]
         /\ free' = IF o.buy THEN [free EXCEPT ![USDT] = @ + o.left * o.price]
                             ELSE [free EXCEPT ![o.coin] = @ + o.left]
  /\ pc' = [pc EXCEPT ![c] = "canceled"]
  /\ UNCHANGED <<margin, numbered, job, outrun, boundVars>>

(* The market reaches a resting order (external): nobody hears of it.      *)
Fill(i, quantity) ==
  /\ order[i].kind = "limit" /\ quantity \in 1..order[i].left
  /\ LET o == order[i]
     IN  free' = IF o.buy THEN [free EXCEPT ![o.coin] = @ + quantity]
                          ELSE [free EXCEPT ![USDT] = @ + quantity * o.price]
  /\ order' = [order EXCEPT ![i].left = @ - quantity]
  /\ UNCHANGED <<margin, numbered, callVars, boundVars>>

(* The reply arrives and the call returns; a market order is reported in  *)
(* trade.executed (SpotSystem), a limit order or a cancellation is not.    *)
Return(c, op) ==
  /\ pc[c] \in {"placed", "canceled"} /\ job[c].op = op
  /\ End(c)
  /\ UNCHANGED <<exchangeVars, boundVars>>

ReportMarketBuy(c) == Return(c, "marketBuy")
ReportMarketSell(c) == Return(c, "marketSell")
ReturnLimitOrder(c) == Return(c, "limitBuy") \/ Return(c, "limitSell")
ReturnCancellation(c) == Return(c, "cancel")

(* The order was executed and the reply is lost: the catch reports nothing.*)
ReplyLost(c) ==
  /\ pc[c] \in {"placed", "canceled"}
  /\ End(c)
  /\ UNCHANGED <<exchangeVars, boundVars>>

(* FuturesService reports a trade of the futures account (FuturesTrading). *)
ReportFuturesTrade(kind, coin) ==
  /\ kind \in {"futures", "closeLeg"}
  /\ NextId \in Ids
  /\ numbered' = NextId
  /\ order' = [order EXCEPT ![NextId] = [NoOrder EXCEPT !.kind = kind, !.coin = coin]]
  /\ UNCHANGED <<free, margin, callVars, boundVars>>

(* The exchange moves what the account it is taken from has (type 1 from   *)
(* spot to futures, type 2 back); a call about to order on the spot        *)
(* account learns nothing of it.                                           *)
MoveFunds(asset, amount, type) ==
  LET signed == IF type = 1 THEN amount ELSE -amount
  IN  /\ amount <= (IF type = 1 THEN free[asset] ELSE margin[asset])
      /\ free' = [free EXCEPT ![asset] = @ - signed]
      /\ margin' = [margin EXCEPT ![asset] = @ + signed]
      /\ outrun' = [c \in Calls |->
                      \/ outrun[c]
                      \/ type = 1 /\ pc[c] = "placing" /\ asset = Needs(job[c])]

(* FuturesService.transferFunds checks its arguments and asks once.        *)
TransferFunds(asset, amount, from, to) ==
  /\ AssertPositive(amount) /\ from # to
  /\ started < MaxRequests
  /\ started' = started + 1
  /\ MoveFunds(asset, amount, IF from = "SPOT" THEN 1 ELSE 2)
  /\ UNCHANGED <<order, numbered, pc, job, restarts>>

(* The process restarts: its calls are gone, the account is not.           *)
Restart ==
  /\ restarts < MaxRestarts
  /\ restarts' = restarts + 1
  /\ pc' = [c \in Calls |-> "idle"]
  /\ job' = [c \in Calls |-> NoJob]
  /\ outrun' = [c \in Calls |-> FALSE]
  /\ UNCHANGED <<exchangeVars, started>>

-----------------------------------------------------------------------------
(* The requests OrderController offers. *)
Arrival(c) ==
  \/ \E coin \in Coins, n \in 0..MaxAsk :
       \/ PlaceMarketBuyOrder(c, coin, n)
       \/ PlaceMarketSellOrder(c, coin, n)
       \/ \E price \in Prices :
            PlaceLimitBuyOrder(c, coin, n, price) \/ PlaceLimitSellOrder(c, coin, n, price)
  \/ \E id \in Ids : CancelOrder(c, id)

(* Steps of a call that emit nothing. *)
Progress(c) ==
  \/ DecideOnBalance(c) \/ Fail(c)
  \/ (\E price \in Prices : ExecuteMarketOrder(c, price)) \/ RestLimitOrder(c)
  \/ CancelResting(c) \/ ReturnLimitOrder(c) \/ ReturnCancellation(c) \/ ReplyLost(c)

Quiet ==
  \/ \E c \in Calls : Arrival(c) \/ Progress(c)
  \/ \E i \in Ids, q \in 1..MaxAsk : Fill(i, q)
  \/ \E asset \in Assets, n \in 0..MaxAsk, from, to \in {"SPOT", "FUTURES"} :
       TransferFunds(asset, n, from, to)

-----------------------------------------------------------------------------
(* Accounts never go below zero and every local keeps its type; the        *)
(* exchange's numbers are given in order.                                  *)
SpotTypeOK ==
  /\ {free, margin} \subseteq [Assets -> Nat]
  /\ order \in [Ids -> Order]
  /\ pc \in [Calls -> Awaiting]
  /\ job \in [Calls -> Job]
  /\ outrun \in [Calls -> BOOLEAN]
  /\ started \in Nat /\ restarts \in Nat
  /\ numbered \in 0..MaxOrders
  /\ \A i \in Ids : order[i].kind # "none" <=> i <= numbered

(* "The balance is checked before ordering" (OrderService 118, 279, 451,   *)
(* 584): an order that is sent is one the exchange can cover, for each of  *)
(* the four operations and their four checks, unless another order or a    *)
(* transfer took from the same asset between the read and this order.      *)
FreshOrdersAreCovered ==
  \A c \in Calls : pc[c] = "placing" /\ ~outrun[c] => Covered(job[c])
=============================================================================
