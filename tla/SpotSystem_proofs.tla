-------------------------- MODULE SpotSystem_proofs --------------------------
(***************************************************************************)
(* What the spot account, its orders and the records of its trades         *)
(* guarantee for any coins, prices, calls, requests and restarts.          *)
(*                                                                         *)
(* The inductive invariant says which orders a call at each await can be   *)
(* about (CallInv, OwnNumbers), that an order nobody outran is covered     *)
(* (FreshOrdersAreCovered), and which rows a handler at each insert has    *)
(* written, of an order of which kind (RowInv).                            *)
(***************************************************************************)
EXTENDS SpotSystem, TLAPS

Market == {"marketBuy", "marketSell"}
Limit == {"limitBuy", "limitSell"}
Reported == {"market", "futures", "closeLeg"}

(* A placed order has a number of its own, is of its call's kind, and has  *)
(* not been reported yet.                                                  *)
CallInv(c) ==
  LET j == job[c]
  IN  /\ pc[c] \in {"balances", "placing"} => j.op \in Market \cup Limit
      /\ pc[c] \in {"canceling", "canceled"} => j.op = "cancel" /\ j.id \in Ids
      /\ pc[c] = "placed" => /\ j.op \in Market \cup Limit
                             /\ j.id \in Ids
                             /\ stage[j.id] = "none"
                             /\ j.op \in Market => order[j.id].kind = "market"
                             /\ j.op \in Limit => order[j.id].kind = "limit"

OwnNumbers ==
  \A c, d \in Calls : pc[c] = "placed" /\ pc[d] = "placed" /\ job[c].id = job[d].id => c = d

(* What has been written for a number by the time its handler is there.    *)
RowInv(i) ==
  /\ stage[i] # "none" => order[i].kind \in Reported
  /\ stage[i] \in {"none", "spot"} => spotRows[i] = 0
  /\ stage[i] \in {"none", "spot", "futures"} => futuresRows[i] = 0
  /\ stage[i] \notin {"saved", "killed"} => bitcoinRows[i] = 0
  /\ stage[i] \in {"futures", "bitcoin", "saved"} => spotRows[i] = 1
  /\ stage[i] \in {"bitcoin", "saved"} => futuresRows[i] = 1
  /\ stage[i] = "bitcoin" => order[i].coin = Bitcoin
  /\ bitcoinRows[i] = 1 => order[i].coin = Bitcoin
  /\ bitcoinRows[i] <= futuresRows[i] /\ futuresRows[i] <= spotRows[i]

JournalInv ==
  /\ \A c \in Calls : CallInv(c)
  /\ OwnNumbers
  /\ \A i \in Ids : RowInv(i)

-----------------------------------------------------------------------------
(* Whole quantities: what a quotient buys does not cost more than there is. *)
LEMMA QuotientFits ==
  ASSUME NEW a \in Nat, NEW b \in Nat \ {0}
  PROVE  a \div b \in Nat /\ (a \div b) * b <= a
  OBVIOUS

LEMMA PricedQuantityFits ==
  ASSUME NEW q \in Nat, NEW f \in Nat, NEW p \in Nat \ {0}, q <= f \div (1 + p)
  PROVE  q * p <= f
  <1> DEFINE m == f \div (1 + p)
  <1>1. m \in Nat /\ m * (1 + p) <= f
    <2>1. 1 + p \in Nat \ {0}
      OBVIOUS
    <2> QED
      BY <2>1, QuotientFits
  <1>2. q * p <= m * p
    <2>1. \A d \in Nat : d * p \in Nat
      OBVIOUS
    <2>2. m - q \in Nat /\ (m - q) * p = m * p - q * p
      BY <1>1
    <2> QED
      BY <1>1, <2>1, <2>2
  <1>3. m * (1 + p) = m + m * p
    BY <1>1
  <1> HIDE DEF m
  <1>4. m * p \in Nat /\ q * p \in Nat
    BY <1>1
  <1> QED
    BY <1>1, <1>2, <1>3, <1>4

LEMMA BoundsAreNat ==
  /\ MaxAsk \in Nat /\ MaxOrders \in Nat
  /\ \A p \in Prices : p \in Nat \ {0}
  <1>1. MaxAsk \in {MaxAsk, MinNotional} /\ MaxOrders \in {MaxOrders, MaxRequests, MaxRestarts}
    OBVIOUS
  <1> QED
    BY <1>1, SpotAssumption

LEMMA AnyPriceIsPrice == AnyPrice \in Prices
  <1>1. \E p \in Prices : TRUE
    BY SpotAssumption
  <1> QED
    BY <1>1, Zenon DEF AnyPrice

LEMMA NewJobIsJob ==
  ASSUME NEW op \in Op, NEW coin \in Coins, NEW n \in 0..MaxAsk, NEW price \in Prices
  PROVE  NewJob(op, coin, n, price) \in Job /\ NewJob(op, coin, n, price).op = op
  BY SpotAssumption DEF NewJob, Job

LEMMA NoJobIsJob == NoJob \in Job
  BY SpotAssumption, AnyPriceIsPrice, NewJobIsJob DEF NoJob, Op

LEMMA NoOrderIsOrder == NoOrder \in Order
  BY SpotAssumption, AnyPriceIsPrice DEF NoOrder, Order, Kinds

-----------------------------------------------------------------------------
(* The steps of the account, by what they do to it. *)

(* A request begins with the arguments of its operation.                   *)
LEMMA ArrivalBegins ==
  ASSUME NEW c \in Calls, Arrival(c)
  PROVE  \E j \in Job, await \in {"balances", "canceling"} :
           /\ Begin(c, j, await)
           /\ await = "balances" => j.op \in Market \cup Limit
           /\ await = "canceling" => j.op = "cancel" /\ j.id \in Ids
  <1>1. ASSUME NEW op \in Market \cup Limit, NEW coin \in Coins, NEW n \in 0..MaxAsk,
               NEW price \in Prices,
               Begin(c, NewJob(op, coin, n, price), "balances")
        PROVE  \E j \in Job : Begin(c, j, "balances") /\ j.op \in Market \cup Limit
    BY <1>1, NewJobIsJob DEF Market, Limit, Op
  <1>2. ASSUME NEW id \in Ids, CancelOrder(c, id)
        PROVE  \E j \in Job : Begin(c, j, "canceling") /\ j.op = "cancel" /\ j.id \in Ids
    <2> DEFINE j == [NoJob EXCEPT !.op = "cancel", !.id = id]
    <2>1. j \in Job /\ j.op = "cancel" /\ j.id \in Ids
      <3>1. id \in 0..MaxOrders /\ "cancel" \in Op
        BY BoundsAreNat DEF Ids, Op
      <3> QED
        BY <3>1, NoJobIsJob DEF Job
    <2>2. Begin(c, j, "canceling")
      BY <1>2 DEF CancelOrder
    <2> QED
      BY <2>1, <2>2
  <1>3. CASE \E id \in Ids : CancelOrder(c, id)
    BY <1>2, <1>3
  <1>4. ASSUME NEW coin \in Coins, NEW n \in 0..MaxAsk,
               PlaceMarketBuyOrder(c, coin, n) \/ PlaceMarketSellOrder(c, coin, n)
        PROVE  \E j \in Job : Begin(c, j, "balances") /\ j.op \in Market \cup Limit
    BY <1>1, <1>4, AnyPriceIsPrice
    DEF PlaceMarketBuyOrder, PlaceMarketSellOrder, Market, Limit
  <1>5. ASSUME NEW coin \in Coins, NEW n \in 0..MaxAsk, NEW price \in Prices,
               \/ PlaceLimitBuyOrder(c, coin, n, price)
               \/ PlaceLimitSellOrder(c, coin, n, price)
        PROVE  \E j \in Job : Begin(c, j, "balances") /\ j.op \in Market \cup Limit
    BY <1>1, <1>5 DEF PlaceLimitBuyOrder, PlaceLimitSellOrder, Market, Limit
  <1>6. \/ \E id \in Ids : CancelOrder(c, id)
        \/ \E j \in Job : Begin(c, j, "balances") /\ j.op \in Market \cup Limit
    BY <1>4, <1>5 DEF Arrival
  <1> QED
    BY <1>2, <1>6, Zenon

(* An order is numbered with its kind, and leaves no asset below zero.     *)
LEMMA PlacingNumbers ==
  ASSUME SpotTypeOK, NEW c \in Calls,
         (\E price \in Prices : ExecuteMarketOrder(c, price)) \/ RestLimitOrder(c)
  PROVE  /\ pc[c] = "placing"
         /\ \E o \in Order, after \in [Assets -> Nat] :
              /\ Number(c, o, after)
              /\ \/ job[c].op \in Market /\ o.kind = "market"
                 \/ job[c].op \in Limit /\ o.kind = "limit"
  <1> DEFINE j == job[c]
  <1>1. /\ free \in [Assets -> Nat] /\ USDT \in Assets
        /\ j.coin \in Coins /\ j.coin \in Assets /\ j.coin # USDT
        /\ j.qty \in Nat /\ j.price \in Nat \ {0} /\ j.price \in Prices
    <2>1. free \in {free, margin}
      OBVIOUS
    <2>2. free \in [Assets -> Nat] /\ j \in Job
      <3>1. {free, margin} \subseteq [Assets -> Nat] /\ job \in [Calls -> Job]
        BY DEF SpotTypeOK
      <3> QED
        BY <2>1, <3>1
    <2> HIDE DEF j
    <2>3. j.coin \in Coins /\ j.qty \in 0..MaxAsk /\ j.price \in Prices
      BY <2>2 DEF Job
    <2>4. USDT \in Assets /\ j.coin \in Assets /\ j.coin # USDT
      BY <2>3, SpotAssumption DEF Assets
    <2> QED
      BY <2>2, <2>3, <2>4, BoundsAreNat
  <1>2. \A a \in Assets : free[a] \in Nat
    BY <1>1
  <1>3. \A p \in Prices : p \in Nat \ {0}
    BY BoundsAreNat
  <1> HIDE DEF j
  <1>4. CASE \E price \in Prices : ExecuteMarketOrder(c, price)
    <2> PICK price \in Prices : ExecuteMarketOrder(c, price)
      BY <1>4
    <2> DEFINE bought == j.qty \div price
               o(buy) == [NoOrder EXCEPT !.kind = "market", !.buy = buy, !.coin = j.coin]
    <2>1. \A buy \in BOOLEAN : o(buy) \in Order /\ o(buy).kind = "market"
      BY <1>1, NoOrderIsOrder DEF Order, Kinds
    <2>2. bought \in Nat /\ bought * price <= j.qty /\ bought * price \in Nat
      BY <1>1, <1>3, QuotientFits
    <2>3. pc[c] = "placing" /\ Covered(j)
      BY DEF ExecuteMarketOrder, j
    <2>4. CASE /\ j.op = "marketBuy" /\ bought > 0
               /\ Number(c, o(TRUE), [free EXCEPT ![USDT] = @ - bought * price,
                                                  ![j.coin] = @ + bought])
      <3> DEFINE after == [free EXCEPT ![USDT] = @ - bought * price, ![j.coin] = @ + bought]
      <3>1. j.qty <= free[USDT]
        BY <2>3, <2>4 DEF Covered
      <3> HIDE DEF bought
      <3>2. free[USDT] - bought * price \in Nat /\ free[j.coin] + bought \in Nat
        BY <1>1, <1>2, <2>2, <3>1
      <3>3. after \in [Assets -> Nat]
        BY <1>1, <3>2
      <3> QED
        BY <2>1, <2>3, <2>4, <3>3 DEF Market, j
    <2>5. CASE /\ j.op = "marketSell"
               /\ Number(c, o(FALSE), [free EXCEPT ![USDT] = @ + j.qty * price,
                                                   ![j.coin] = @ - j.qty])
      <3> DEFINE after == [free EXCEPT ![USDT] = @ + j.qty * price, ![j.coin] = @ - j.qty]
      <3>1. j.qty <= free[j.coin]
        BY <2>3, <2>5 DEF Covered
      <3>2. j.qty * price \in Nat
        BY <1>1, <1>3
      <3>3. free[USDT] + j.qty * price \in Nat /\ free[j.coin] - j.qty \in Nat
        BY <1>1, <1>2, <3>1, <3>2
      <3>4. after \in [Assets -> Nat]
        BY <1>1, <3>3
      <3> QED
        BY <2>1, <2>3, <2>5, <3>4 DEF Market, j
    <2> QED
      BY <2>4, <2>5 DEF ExecuteMarketOrder, j
  <1>5. CASE RestLimitOrder(c)
    <2> DEFINE o(buy) == [kind |-> "limit", buy |-> buy, coin |-> j.coin,
                          left |-> j.qty, price |-> j.price]
    <2>1. \A buy \in BOOLEAN : o(buy) \in Order /\ o(buy).kind = "limit"
      BY <1>1 DEF Order, Kinds
    <2>2. pc[c] = "placing" /\ Covered(j)
      BY <1>5 DEF RestLimitOrder, j
    <2>3. CASE /\ j.op = "limitBuy"
               /\ Number(c, o(TRUE), [free EXCEPT ![USDT] = @ - j.qty * j.price])
      <3>1. j.qty * j.price <= free[USDT] /\ j.qty * j.price \in Nat
        BY <1>1, <2>2, <2>3 DEF Covered
      <3>2. [free EXCEPT ![USDT] = @ - j.qty * j.price] \in [Assets -> Nat]
        BY <1>1, <1>2, <3>1
      <3> QED
        BY <2>1, <2>2, <2>3, <3>2 DEF Limit, j
    <2>4. CASE /\ j.op = "limitSell"
               /\ Number(c, o(FALSE), [free EXCEPT ![j.coin] = @ - j.qty])
      <3>1. j.qty <= free[j.coin]
        BY <2>2, <2>4 DEF Covered
      <3>2. [free EXCEPT ![j.coin] = @ - j.qty] \in [Assets -> Nat]
        BY <1>1, <1>2, <3>1
      <3> QED
        BY <2>1, <2>2, <2>4, <3>2 DEF Limit, j
    <2> QED
      BY <1>5, <2>3, <2>4 DEF RestLimitOrder, j
  <1> QED
    BY <1>4, <1>5

-----------------------------------------------------------------------------
(* Type correctness. *)
LEMMA TypeFacts ==
  SpotTypeOK => /\ free \in [Assets -> Nat] /\ margin \in [Assets -> Nat]
                /\ order \in [Ids -> Order] /\ pc \in [Calls -> Awaiting]
                /\ job \in [Calls -> Job] /\ outrun \in [Calls -> BOOLEAN]
                /\ started \in Nat /\ restarts \in Nat /\ numbered \in 0..MaxOrders
                /\ \A i \in Ids : order[i].kind # "none" <=> i <= numbered
  <1>1. free \in {free, margin} /\ margin \in {free, margin}
    OBVIOUS
  <1> QED
    BY <1>1 DEF SpotTypeOK

LEMMA OrderFields ==
  ASSUME NEW o \in Order
  PROVE  /\ o.kind \in Kinds /\ o.buy \in BOOLEAN /\ o.coin \in Coins /\ o.left \in Nat
         /\ o.price \in Nat /\ o.coin \in Assets /\ USDT \in Assets
         /\ \A n \in Nat : [o EXCEPT !.left = n] \in Order
  <1>1. /\ o.kind \in Kinds /\ o.buy \in BOOLEAN /\ o.coin \in Coins /\ o.left \in Nat
        /\ o.price \in Prices
    BY DEF Order
  <1>2. o.price \in Nat
    BY <1>1, BoundsAreNat
  <1> QED
    BY <1>1, <1>2 DEF Order, Assets

LEMMA EndTypes ==
  ASSUME SpotTypeOK, NEW c \in Calls, End(c)
  PROVE  /\ pc' \in [Calls -> Awaiting] /\ job' \in [Calls -> Job]
         /\ outrun' \in [Calls -> BOOLEAN]
  BY TypeFacts, NoJobIsJob DEF End, Awaiting

LEMMA BeginTypes ==
  ASSUME SpotTypeOK, NEW c \in Calls, NEW j \in Job,
         NEW await \in {"balances", "canceling"}, Begin(c, j, await)
  PROVE  SpotTypeOK'
  <1>1. /\ pc' \in [Calls -> Awaiting] /\ job' \in [Calls -> Job] /\ started' \in Nat
    BY TypeFacts DEF Begin, Awaiting
  <1> QED
    BY <1>1 DEF SpotTypeOK, Begin, exchangeVars

LEMMA DecideTypes ==
  ASSUME SpotTypeOK, NEW c \in Calls, DecideOnBalance(c)
  PROVE  SpotTypeOK'
  <1>1. /\ pc' \in [Calls -> Awaiting] /\ job' \in [Calls -> Job]
        /\ outrun' \in [Calls -> BOOLEAN]
    BY TypeFacts, EndTypes DEF DecideOnBalance, Awaiting
  <1> QED
    BY <1>1 DEF SpotTypeOK, DecideOnBalance, exchangeVars, boundVars

LEMMA NumberTypes ==
  ASSUME SpotTypeOK, NEW c \in Calls, NEW o \in Order, NEW after \in [Assets -> Nat],
         o.kind # "none", Number(c, o, after)
  PROVE  SpotTypeOK'
  <1>1. NextId \in Ids /\ numbered \in Nat /\ NextId = numbered + 1 /\ NextId \in 0..MaxOrders
    BY TypeFacts, BoundsAreNat DEF Number, Ids, NextId
  <1>2. /\ numbered' = NextId /\ free' = after /\ margin' = margin
        /\ order' = [order EXCEPT ![NextId] = o] /\ pc' = [pc EXCEPT ![c] = "placed"]
        /\ job' = [job EXCEPT ![c].id = NextId]
        /\ started' = started /\ restarts' = restarts
    BY DEF Number, boundVars
  <1>3. [job[c] EXCEPT !.id = NextId] \in Job
    BY <1>1, TypeFacts DEF Job
  <1>4. /\ pc' \in [Calls -> Awaiting] /\ job' \in [Calls -> Job]
        /\ order' \in [Ids -> Order]
    BY <1>1, <1>2, <1>3, TypeFacts DEF Awaiting
  <1>5. outrun' \in [Calls -> BOOLEAN]
    BY DEF Number
  <1>6. ASSUME NEW i \in Ids PROVE order'[i].kind # "none" <=> i <= numbered'
    <2>1. i \in Int /\ (order[i].kind # "none" <=> i <= numbered)
      BY TypeFacts, BoundsAreNat DEF Ids
    <2> QED
      BY <1>1, <1>2, <2>1, TypeFacts
  <1> QED
    BY <1>1, <1>2, <1>4, <1>5, <1>6, TypeFacts DEF SpotTypeOK

LEMMA CancelTypes ==
  ASSUME SpotTypeOK, NEW c \in Calls, job[c].id \in Ids, CancelResting(c)
  PROVE  SpotTypeOK' /\ \A a \in Assets : free'[a] >= free[a]
  <1> DEFINE i == job[c].id
             o == order[i]
  <1>1. i \in Ids /\ o \in Order
    BY TypeFacts
  <1>2. /\ order' = [order EXCEPT ![i].left = 0] /\ pc' = [pc EXCEPT ![c] = "canceled"]
        /\ free' = IF o.buy THEN [free EXCEPT ![USDT] = @ + o.left * o.price]
                            ELSE [free EXCEPT ![o.coin] = @ + o.left]
        /\ UNCHANGED <<margin, numbered, job, outrun, boundVars>>
    BY DEF CancelResting
  <1> HIDE DEF i, o
  <1>3. o.left * o.price \in Nat
    BY <1>1, OrderFields
  <1>4. free' \in [Assets -> Nat] /\ \A a \in Assets : free'[a] >= free[a]
    BY <1>1, <1>2, <1>3, OrderFields, TypeFacts
  <1>5. order' \in [Ids -> Order] /\ pc' \in [Calls -> Awaiting]
    BY <1>1, <1>2, OrderFields, TypeFacts DEF Awaiting, o
  <1>6. \A k \in Ids : order'[k].kind = order[k].kind
    BY <1>1, <1>2, TypeFacts DEF Order
  <1> QED
    BY <1>2, <1>4, <1>5, <1>6, TypeFacts DEF SpotTypeOK, boundVars

LEMMA FillTypes ==
  ASSUME SpotTypeOK, NEW i \in Ids, NEW q \in 1..MaxAsk, Fill(i, q)
  PROVE  SpotTypeOK' /\ \A a \in Assets : free'[a] >= free[a]
  <1> DEFINE o == order[i]
  <1>1. o \in Order /\ q \in 1..o.left
    BY TypeFacts DEF Fill
  <1>2. /\ order' = [order EXCEPT ![i].left = @ - q]
        /\ free' = IF o.buy THEN [free EXCEPT ![o.coin] = @ + q]
                            ELSE [free EXCEPT ![USDT] = @ + q * o.price]
        /\ UNCHANGED <<margin, numbered, callVars, boundVars>>
    BY DEF Fill
  <1>3. [o EXCEPT !.left = @ - q] \in Order
    BY <1>1 DEF Order
  <1>4. order' \in [Ids -> Order] /\ \A k \in Ids : order'[k].kind = order[k].kind
    BY <1>2, <1>3, TypeFacts DEF Order
  <1> HIDE DEF o
  <1>5. q \in Nat /\ q * o.price \in Nat
    BY <1>1, OrderFields
  <1>6. free' \in [Assets -> Nat] /\ \A a \in Assets : free'[a] >= free[a]
    BY <1>1, <1>2, <1>5, OrderFields, TypeFacts
  <1> QED
    BY <1>2, <1>4, <1>6, TypeFacts DEF SpotTypeOK, boundVars, callVars

LEMMA ReportFuturesTypes ==
  ASSUME SpotTypeOK, NEW kind, NEW coin \in Coins, ReportFuturesTrade(kind, coin)
  PROVE  SpotTypeOK'
  <1> DEFINE o == [NoOrder EXCEPT !.kind = kind, !.coin = coin]
  <1>1. NextId \in Ids /\ numbered \in Nat /\ NextId = numbered + 1 /\ NextId \in 0..MaxOrders
    BY TypeFacts, BoundsAreNat DEF ReportFuturesTrade, Ids, NextId
  <1>2. o \in Order /\ o.kind # "none"
    BY NoOrderIsOrder DEF ReportFuturesTrade, Order, Kinds
  <1>3. /\ numbered' = NextId /\ order' = [order EXCEPT ![NextId] = o]
        /\ UNCHANGED <<free, margin, callVars, boundVars>>
    BY DEF ReportFuturesTrade
  <1> HIDE DEF o
  <1>4. ASSUME NEW i \in Ids PROVE order'[i].kind # "none" <=> i <= numbered'
    <2>1. i \in Int /\ (order[i].kind # "none" <=> i <= numbered)
      BY TypeFacts, BoundsAreNat DEF Ids
    <2> QED
      BY <1>1, <1>2, <1>3, <2>1, TypeFacts
  <1>5. order' \in [Ids -> Order]
    BY <1>2, <1>3, TypeFacts
  <1> QED
    BY <1>1, <1>3, <1>4, <1>5, TypeFacts DEF SpotTypeOK, boundVars, callVars

LEMMA TransferTypes ==
  ASSUME SpotTypeOK, NEW asset \in Assets, NEW n \in 0..MaxAsk,
         NEW from \in {"SPOT", "FUTURES"}, NEW to \in {"SPOT", "FUTURES"},
         TransferFunds(asset, n, from, to)
  PROVE  SpotTypeOK'
  <1> DEFINE type == IF from = "SPOT" THEN 1 ELSE 2
             signed == IF type = 1 THEN n ELSE -n
  <1>1. /\ n <= (IF type = 1 THEN free[asset] ELSE margin[asset])
        /\ free' = [free EXCEPT ![asset] = @ - signed]
        /\ margin' = [margin EXCEPT ![asset] = @ + signed]
    BY DEF TransferFunds, MoveFunds
  <1>2. n \in Nat /\ free[asset] \in Nat /\ margin[asset] \in Nat
    BY TypeFacts, BoundsAreNat
  <1>3. free[asset] - signed \in Nat /\ margin[asset] + signed \in Nat
    BY <1>1, <1>2
  <1>4. free' \in [Assets -> Nat] /\ margin' \in [Assets -> Nat]
    BY <1>1, <1>3, TypeFacts
  <1>5. outrun' \in [Calls -> BOOLEAN]
    BY TypeFacts DEF TransferFunds, MoveFunds
  <1>6. started' \in Nat /\ UNCHANGED <<order, numbered, pc, job, restarts>>
    BY TypeFacts DEF TransferFunds
  <1> QED
    BY <1>4, <1>5, <1>6, TypeFacts DEF SpotTypeOK

LEMMA RestartTypes ==
  ASSUME SpotTypeOK, Restart
  PROVE  SpotTypeOK'
  <1>1. /\ pc' \in [Calls -> Awaiting] /\ job' \in [Calls -> Job]
        /\ outrun' \in [Calls -> BOOLEAN] /\ restarts' \in Nat
    BY TypeFacts, NoJobIsJob DEF Restart, Awaiting
  <1> QED
    BY <1>1 DEF SpotTypeOK, Restart, exchangeVars

-----------------------------------------------------------------------------
(* Cover: an order is covered when it is decided on, and stays so until    *)
(* something takes from the asset it needs.                                *)
LEMMA NeedsAnAsset ==
  ASSUME SpotTypeOK, NEW c \in Calls
  PROVE  Needs(job[c]) \in Assets /\ job[c].qty \in Nat /\ job[c].price \in Nat \ {0}
  <1>1. job[c].coin \in Coins /\ job[c].qty \in 0..MaxAsk /\ job[c].price \in Prices
    BY TypeFacts DEF Job
  <1> QED
    BY <1>1, BoundsAreNat DEF Needs, Assets

LEMMA FreshKept ==
  ASSUME SpotTypeOK, FreshOrdersAreCovered, free' \in [Assets -> Nat],
         \A d \in Calls : pc'[d] = "placing" /\ ~outrun'[d] =>
           /\ pc[d] = "placing" /\ ~outrun[d] /\ job'[d] = job[d]
           /\ free'[Needs(job[d])] >= free[Needs(job[d])]
  PROVE  FreshOrdersAreCovered'
  <1> SUFFICES ASSUME NEW d \in Calls, pc'[d] = "placing", ~outrun'[d]
               PROVE  Covered(job[d])'
    BY DEF FreshOrdersAreCovered
  <1> DEFINE j == job[d]
             cost == j.qty * j.price
  <1>1. job'[d] = j /\ free'[Needs(j)] >= free[Needs(j)] /\ Covered(j)
    BY DEF FreshOrdersAreCovered
  <1>2. Needs(j) \in Assets /\ j.qty \in Nat /\ cost \in Nat
    BY NeedsAnAsset
  <1>3. free[Needs(j)] \in Nat /\ free'[Needs(j)] \in Nat
    BY <1>2, TypeFacts
  <1>4. /\ j.op = "marketBuy" => Needs(j) = USDT /\ j.qty <= free[USDT]
        /\ j.op = "limitBuy" => Needs(j) = USDT /\ cost <= free[USDT]
        /\ j.op \in {"marketSell", "limitSell"} => Needs(j) = j.coin /\ j.qty <= free[j.coin]
    BY <1>1 DEF Covered, Needs
  <1> HIDE DEF cost
  <1>5. /\ j.op = "marketBuy" => j.qty <= free'[USDT]
        /\ j.op = "limitBuy" => cost <= free'[USDT]
        /\ j.op \in {"marketSell", "limitSell"} => j.qty <= free'[j.coin]
    BY <1>1, <1>2, <1>3, <1>4
  <1> QED
    BY <1>1, <1>5 DEF Covered, cost

(* What the check lets pass is covered, by the price as by the quantity.   *)
LEMMA SufficientIsCovered ==
  ASSUME SpotTypeOK, NEW c \in Calls, Sufficient(job[c])
  PROVE  Covered(job[c])
  <1> DEFINE j == job[c]
  <1>1. j.qty \in Nat /\ j.price \in Nat \ {0} /\ free[USDT] \in Nat
    BY NeedsAnAsset, TypeFacts DEF Assets
  <1>2. ASSUME j.op = "limitBuy" PROVE j.qty * j.price <= free[USDT]
    <2>1. j.qty <= free[USDT] \div (1 + j.price)
      BY <1>2 DEF Sufficient, LimitBuySufficient, MaxQuantity, Balance
    <2> HIDE DEF j
    <2> QED
      BY <1>1, <2>1, PricedQuantityFits
  <1> QED
    BY <1>2 DEF Sufficient, MarketBuySufficient, MarketSellSufficient,
       LimitSellSufficient, Balance, Covered

LEMMA DecidedIsCovered ==
  ASSUME SpotTypeOK, FreshOrdersAreCovered, NEW c \in Calls, DecideOnBalance(c)
  PROVE  FreshOrdersAreCovered'
  <1>1. free' = free
    BY DEF DecideOnBalance, exchangeVars
  <1>2. CASE /\ Sufficient(job[c])
             /\ pc' = [pc EXCEPT ![c] = "placing"]
             /\ outrun' = [outrun EXCEPT ![c] = FALSE]
             /\ UNCHANGED job
    <2>1. ASSUME NEW d \in Calls, pc'[d] = "placing", ~outrun'[d]
          PROVE  Covered(job[d])'
      <3>1. Covered(job[d])
        BY <1>2, <2>1, SufficientIsCovered, TypeFacts DEF FreshOrdersAreCovered
      <3> QED
        BY <1>1, <1>2, <3>1 DEF Covered
    <2> QED
      BY <2>1 DEF FreshOrdersAreCovered
  <1>3. CASE End(c)
    <2>1. ASSUME NEW d \in Calls, pc'[d] = "placing", ~outrun'[d]
          PROVE  /\ pc[d] = "placing" /\ ~outrun[d] /\ job'[d] = job[d]
                 /\ free'[Needs(job[d])] >= free[Needs(job[d])]
      <3>1. free[Needs(job[d])] \in Nat
        BY NeedsAnAsset, TypeFacts
      <3> QED
        BY <1>1, <1>3, <2>1, <3>1, TypeFacts DEF End
    <2> QED
      BY <1>1, <2>1, FreshKept, TypeFacts
  <1> QED
    BY <1>2, <1>3 DEF DecideOnBalance

(* Whoever takes from an asset marks the calls about to order with it.     *)
LEMMA NumberKeepsFresh ==
  ASSUME SpotTypeOK, FreshOrdersAreCovered, NEW c \in Calls, NEW o \in Order,
         NEW after \in [Assets -> Nat], Number(c, o, after)
  PROVE  FreshOrdersAreCovered'
  <1>1. /\ free' = after /\ pc' = [pc EXCEPT ![c] = "placed"]
        /\ job' = [job EXCEPT ![c].id = NextId]
    BY DEF Number
  <1>2. ASSUME NEW d \in Calls, pc'[d] = "placing", ~outrun'[d]
        PROVE  /\ pc[d] = "placing" /\ ~outrun[d] /\ job'[d] = job[d]
               /\ free'[Needs(job[d])] >= free[Needs(job[d])]
    <2>1. d # c /\ pc[d] = "placing" /\ job'[d] = job[d]
      BY <1>1, <1>2, TypeFacts
    <2>2. ~outrun[d] /\ ~(after[Needs(job[d])] < free[Needs(job[d])])
      BY <1>2, <2>1 DEF Number
    <2>3. Needs(job[d]) \in Assets
      BY NeedsAnAsset
    <2>4. free[Needs(job[d])] \in Nat /\ after[Needs(job[d])] \in Nat
      BY <2>3, TypeFacts
    <2> QED
      BY <1>1, <2>1, <2>2, <2>4
  <1> QED
    BY <1>1, <1>2, FreshKept

LEMMA TransferKeepsFresh ==
  ASSUME SpotTypeOK, FreshOrdersAreCovered, NEW asset \in Assets, NEW n \in 0..MaxAsk,
         NEW from \in {"SPOT", "FUTURES"}, NEW to \in {"SPOT", "FUTURES"},
         TransferFunds(asset, n, from, to)
  PROVE  FreshOrdersAreCovered'
  <1> DEFINE type == IF from = "SPOT" THEN 1 ELSE 2
             signed == IF type = 1 THEN n ELSE -n
  <1>1. /\ free' = [free EXCEPT ![asset] = @ - signed] /\ pc' = pc /\ job' = job
        /\ outrun' = [c \in Calls |->
                        \/ outrun[c]
                        \/ type = 1 /\ pc[c] = "placing" /\ asset = Needs(job[c])]
    BY DEF TransferFunds, MoveFunds
  <1>2. n \in Nat /\ free' \in [Assets -> Nat]
    <2>1. SpotTypeOK' /\ free' \in {free', margin'}
      BY TransferTypes
    <2> QED
      BY <2>1, BoundsAreNat DEF SpotTypeOK
  <1>3. ASSUME NEW d \in Calls, pc'[d] = "placing", ~outrun'[d]
        PROVE  /\ pc[d] = "placing" /\ ~outrun[d] /\ job'[d] = job[d]
               /\ free'[Needs(job[d])] >= free[Needs(job[d])]
    <2>1. Needs(job[d]) \in Assets /\ free[Needs(job[d])] \in Nat
      BY NeedsAnAsset, TypeFacts
    <2>2. pc[d] = "placing" /\ ~outrun[d] /\ job'[d] = job[d]
      BY <1>1, <1>3
    <2>3. CASE asset # Needs(job[d])
      BY <1>1, <2>1, <2>2, <2>3, TypeFacts
    <2>4. CASE asset = Needs(job[d])
      <3>1. type # 1
        BY <1>1, <1>3, <2>2, <2>4
      <3> QED
        BY <1>1, <1>2, <2>1, <2>2, <2>4, <3>1, TypeFacts
    <2> QED
      BY <2>3, <2>4
  <1> QED
    BY <1>2, <1>3, FreshKept

-----------------------------------------------------------------------------
(* Records: what handlers have written. *)
LEMMA RecordFacts ==
  Records!RecordsTypeOK => /\ stage \in [Ids -> Records!Stage]
                           /\ spotRows \in [Ids -> {0, 1}]
                           /\ futuresRows \in [Ids -> {0, 1}]
                           /\ bitcoinRows \in [Ids -> {0, 1}]
  <1>1. /\ spotRows \in {spotRows, futuresRows, bitcoinRows}
        /\ futuresRows \in {spotRows, futuresRows, bitcoinRows}
        /\ bitcoinRows \in {spotRows, futuresRows, bitcoinRows}
    OBVIOUS
  <1> QED
    BY <1>1 DEF Records!RecordsTypeOK

(* What a step of a handler leaves behind for its number: the insert it    *)
(* waits for next, and its rows in the three tables.                       *)
Leaves(i, next, x, y, z) ==
  /\ stage' = [stage EXCEPT ![i] = next]
  /\ spotRows' = [spotRows EXCEPT ![i] = x]
  /\ futuresRows' = [futuresRows EXCEPT ![i] = y]
  /\ bitcoinRows' = [bitcoinRows EXCEPT ![i] = z]

Then == {"futures", "bitcoin", "saved", "failed"}

LEMMA LeavesAt ==
  ASSUME Records!RecordsTypeOK, NEW i \in Ids, NEW next \in Then,
         NEW x \in {0, 1}, NEW y \in {0, 1}, NEW z \in {0, 1}, Leaves(i, next, x, y, z)
  PROVE  /\ Records!RecordsTypeOK'
         /\ stage'[i] = next /\ spotRows'[i] = x /\ futuresRows'[i] = y /\ bitcoinRows'[i] = z
         /\ \A k \in Ids \ {i} : /\ stage'[k] = stage[k] /\ spotRows'[k] = spotRows[k]
                               /\ futuresRows'[k] = futuresRows[k]
                               /\ bitcoinRows'[k] = bitcoinRows[k]
  <1>1. next \in Records!Stage
    BY DEF Then, Records!Stage, Records!InFlight
  <1>2. /\ stage' \in [Ids -> Records!Stage] /\ spotRows' \in [Ids -> {0, 1}]
        /\ futuresRows' \in [Ids -> {0, 1}] /\ bitcoinRows' \in [Ids -> {0, 1}]
    BY <1>1, RecordFacts DEF Leaves
  <1>3. Records!RecordsTypeOK'
    BY <1>2 DEF Records!RecordsTypeOK
  <1> QED
    BY <1>3, RecordFacts DEF Leaves

LEMMA RowsAreBits ==
  ASSUME Records!RecordsTypeOK
  PROVE  /\ spotRows = [k \in Ids |-> spotRows[k]] /\ futuresRows = [k \in Ids |-> futuresRows[k]]
         /\ bitcoinRows = [k \in Ids |-> bitcoinRows[k]]
         /\ \A k \in Ids : spotRows[k] \in {0, 1} /\ futuresRows[k] \in {0, 1} /\ bitcoinRows[k] \in {0, 1}
         /\ \A k \in Ids : /\ spotRows = [spotRows EXCEPT ![k] = spotRows[k]]
                         /\ futuresRows = [futuresRows EXCEPT ![k] = futuresRows[k]]
                         /\ bitcoinRows = [bitcoinRows EXCEPT ![k] = bitcoinRows[k]]
  BY RecordFacts

(* A handler's step, and why no row comes out of turn.                     *)
LEMMA HandlerStepLeaves ==
  ASSUME Records!RecordsTypeOK, NEW i \in Ids, RowInv(i), Records!HandlerStep(i),
         order' = order
  PROVE  /\ stage[i] \in Records!InFlight
         /\ \E next \in Then, x, y, z \in {0, 1} : Leaves(i, next, x, y, z)
         /\ RowInv(i)'
  <1>1. ASSUME NEW next \in Then, NEW x \in {0, 1}, NEW y \in {0, 1}, NEW z \in {0, 1},
               Leaves(i, next, x, y, z), stage[i] \in Records!InFlight,
               z <= y /\ y <= x,
               next # "saved" => z = 0,
               next \in {"futures", "bitcoin", "saved"} => x = 1,
               next = "futures" => y = 0,
               next \in {"bitcoin", "saved"} => y = 1,
               next = "bitcoin" \/ z = 1 => order[i].coin = Bitcoin
        PROVE  /\ stage[i] \in Records!InFlight
               /\ \E n \in Then, u, v, w \in {0, 1} : Leaves(i, n, u, v, w)
               /\ RowInv(i)'
    <2>1. order[i].kind \in Reported
      BY <1>1 DEF RowInv, Records!InFlight
    <2>2. stage'[i] = next /\ spotRows'[i] = x /\ futuresRows'[i] = y /\ bitcoinRows'[i] = z
      BY <1>1, LeavesAt
    <2>3. RowInv(i)'
      BY <1>1, <2>1, <2>2 DEF RowInv, Then
    <2> QED
      BY <1>1, <2>3
  <1>2. CASE Records!SaveSpotTradeRecord(i)
    <2>1. stage[i] = "spot" /\ spotRows[i] = 0 /\ futuresRows[i] = 0 /\ bitcoinRows[i] = 0
      BY <1>2 DEF Records!SaveSpotTradeRecord, RowInv
    <2>2. spotRows' = [spotRows EXCEPT ![i] = 1]
      BY <1>2, <2>1 DEF Records!SaveSpotTradeRecord
    <2>3. Leaves(i, "futures", 1, 0, 0)
      BY <1>2, <2>1, <2>2, RowsAreBits DEF Records!SaveSpotTradeRecord, Records!Moves, Leaves
    <2> QED
      BY <1>1, <2>1, <2>3 DEF Then, Records!InFlight
  <1>3. CASE Records!SpotSaveFails(i)
    <2>1. stage[i] = "spot" /\ spotRows[i] = 0 /\ futuresRows[i] = 0 /\ bitcoinRows[i] = 0
      BY <1>3 DEF Records!SpotSaveFails, RowInv
    <2>2. PICK n \in {0, 1} : spotRows' = [spotRows EXCEPT ![i] = @ + n]
      BY <1>3 DEF Records!SpotSaveFails
    <2>3. spotRows' = [spotRows EXCEPT ![i] = n]
      BY <2>1, <2>2
    <2>4. Leaves(i, "failed", n, 0, 0)
      BY <1>3, <2>1, <2>3, RowsAreBits DEF Records!SpotSaveFails, Records!Moves, Leaves
    <2> QED
      BY <1>1, <2>1, <2>4 DEF Then, Records!InFlight
  <1>4. CASE Records!SaveFuturesTradeRecord(i)
    <2>1. stage[i] = "futures" /\ spotRows[i] = 1 /\ futuresRows[i] = 0 /\ bitcoinRows[i] = 0
      BY <1>4 DEF Records!SaveFuturesTradeRecord, RowInv
    <2>2. futuresRows' = [futuresRows EXCEPT ![i] = 1]
      BY <1>4, <2>1 DEF Records!SaveFuturesTradeRecord
    <2>3. Leaves(i, IF order[i].coin = Bitcoin THEN "bitcoin" ELSE "saved", 1, 1, 0)
      BY <1>4, <2>1, <2>2, RowsAreBits DEF Records!SaveFuturesTradeRecord, Records!Moves, Leaves
    <2> QED
      BY <1>1, <2>1, <2>3 DEF Then, Records!InFlight
  <1>5. CASE Records!FuturesSaveFails(i)
    <2>1. stage[i] = "futures" /\ spotRows[i] = 1 /\ futuresRows[i] = 0 /\ bitcoinRows[i] = 0
      BY <1>5 DEF Records!FuturesSaveFails, RowInv
    <2>2. PICK n \in {0, 1} : futuresRows' = [futuresRows EXCEPT ![i] = @ + n]
      BY <1>5 DEF Records!FuturesSaveFails
    <2>3. futuresRows' = [futuresRows EXCEPT ![i] = n]
      BY <2>1, <2>2
    <2>4. Leaves(i, "failed", 1, n, 0)
      BY <1>5, <2>1, <2>3, RowsAreBits DEF Records!FuturesSaveFails, Records!Moves, Leaves
    <2> QED
      BY <1>1, <2>1, <2>4 DEF Then, Records!InFlight
  <1>6. CASE Records!ParseBitcoinTransaction(i)
    <2>1. /\ stage[i] = "bitcoin" /\ spotRows[i] = 1 /\ futuresRows[i] = 1 /\ bitcoinRows[i] = 0
          /\ order[i].coin = Bitcoin
      BY <1>6 DEF Records!ParseBitcoinTransaction, RowInv
    <2>2. PICK n \in {0, 1} : bitcoinRows' = [bitcoinRows EXCEPT ![i] = @ + n]
      BY <1>6 DEF Records!ParseBitcoinTransaction
    <2>3. bitcoinRows' = [bitcoinRows EXCEPT ![i] = n]
      BY <2>1, <2>2
    <2>4. Leaves(i, "saved", 1, 1, n)
      BY <1>6, <2>1, <2>3, RowsAreBits DEF Records!ParseBitcoinTransaction, Records!Moves, Leaves
    <2> QED
      BY <1>1, <2>1, <2>4 DEF Then, Records!InFlight
  <1> QED
    BY <1>2, <1>3, <1>4, <1>5, <1>6 DEF Records!HandlerStep

LEMMA HandlersKeepJournal ==
  ASSUME SpotTypeOK, Records!RecordsTypeOK, JournalInv, NEW i \in Ids,
         Records!HandlerStep(i), UNCHANGED spotVars
  PROVE  Records!RecordsTypeOK' /\ JournalInv'
  <1>1. order' = order /\ pc' = pc /\ job' = job
    BY DEF spotVars, exchangeVars, callVars
  <1>2. RowInv(i)
    BY DEF JournalInv
  <1>3. PICK next \in Then, x \in {0, 1}, y \in {0, 1}, z \in {0, 1} : Leaves(i, next, x, y, z)
    BY <1>1, <1>2, HandlerStepLeaves
  <1>4. Records!RecordsTypeOK'
    BY <1>3, LeavesAt
  <1>5. stage[i] # "none" /\ RowInv(i)'
    BY <1>1, <1>2, HandlerStepLeaves DEF Records!InFlight
  <1>6. ASSUME NEW k \in Ids, k # i
        PROVE  /\ stage'[k] = stage[k] /\ spotRows'[k] = spotRows[k]
               /\ futuresRows'[k] = futuresRows[k] /\ bitcoinRows'[k] = bitcoinRows[k]
    BY <1>3, <1>6, LeavesAt
  <1>7. ASSUME NEW k \in Ids PROVE RowInv(k)'
    <2>1. CASE k # i
      BY <1>1, <1>6, <2>1 DEF JournalInv, RowInv
    <2> QED
      BY <1>5, <2>1
  <1>8. ASSUME NEW c \in Calls PROVE CallInv(c)'
    <2>1. CallInv(c)
      BY DEF JournalInv
    <2>2. pc[c] = "placed" => stage'[job[c].id] = "none"
      BY <1>5, <1>6, <2>1 DEF CallInv
    <2> QED
      BY <1>1, <2>1, <2>2 DEF CallInv
  <1>9. OwnNumbers'
    BY <1>1 DEF JournalInv, OwnNumbers
  <1> QED
    BY <1>4, <1>7, <1>8, <1>9 DEF JournalInv

(* Calls that move on or end, and orders that are filled or cancelled, say *)
(* nothing to the records.                                                 *)
LEMMA QuietKeepsJournal ==
  ASSUME SpotTypeOK, JournalInv, UNCHANGED recordVars,
         \A i \in Ids : order'[i].kind = order[i].kind /\ order'[i].coin = order[i].coin,
         \A c \in Calls :
           \/ pc'[c] = "idle"
           \/ /\ job'[c] = job[c]
              /\ \/ pc'[c] = pc[c]
                 \/ pc[c] = "balances" /\ pc'[c] = "placing"
                 \/ pc[c] = "canceling" /\ pc'[c] = "canceled"
  PROVE  JournalInv'
  <1>1. ASSUME NEW i \in Ids PROVE RowInv(i)'
    BY <1>1 DEF JournalInv, RowInv, recordVars
  <1>2. ASSUME NEW c \in Calls PROVE CallInv(c)'
    BY <1>2 DEF JournalInv, CallInv, recordVars
  <1>3. OwnNumbers'
    BY DEF JournalInv, OwnNumbers
  <1> QED
    BY <1>1, <1>2, <1>3 DEF JournalInv

LEMMA BeginKeepsJournal ==
  ASSUME SpotTypeOK, JournalInv, UNCHANGED recordVars, NEW c \in Calls, NEW j \in Job,
         NEW await \in {"balances", "canceling"}, Begin(c, j, await),
         await = "balances" => j.op \in Market \cup Limit,
         await = "canceling" => j.op = "cancel" /\ j.id \in Ids
  PROVE  JournalInv'
  <1>1. /\ pc' = [pc EXCEPT ![c] = await] /\ job' = [job EXCEPT ![c] = j] /\ order' = order
    BY DEF Begin, exchangeVars
  <1>2. ASSUME NEW i \in Ids PROVE RowInv(i)'
    BY <1>1, <1>2 DEF JournalInv, RowInv, recordVars
  <1>3. ASSUME NEW d \in Calls PROVE CallInv(d)'
    <2>1. CASE d = c
      BY <1>1, <2>1, TypeFacts DEF CallInv
    <2>2. CASE d # c
      BY <1>1, <2>2, TypeFacts DEF JournalInv, CallInv, recordVars
    <2> QED
      BY <2>1, <2>2
  <1>4. OwnNumbers'
    BY <1>1, TypeFacts DEF JournalInv, OwnNumbers
  <1> QED
    BY <1>2, <1>3, <1>4 DEF JournalInv

(* An order is numbered: nobody else has its number, and its event has not *)
(* been seen.                                                              *)
LEMMA FreshNumber ==
  ASSUME SpotTypeOK, JournalInv, NextId \in Ids
  PROVE  /\ order[NextId].kind = "none" /\ stage[NextId] = "none"
         /\ \A c \in Calls : pc[c] = "placed" => job[c].id # NextId
  <1>1. ~(NextId <= numbered)
    BY TypeFacts, BoundsAreNat DEF NextId
  <1>2. order[NextId].kind = "none"
    BY <1>1, TypeFacts
  <1>3. stage[NextId] = "none"
    BY <1>2 DEF JournalInv, RowInv, Reported
  <1>4. ASSUME NEW c \in Calls, pc[c] = "placed" PROVE job[c].id # NextId
    <2>1. order[job[c].id].kind \in {"market", "limit"}
      BY <1>4 DEF JournalInv, CallInv
    <2> QED
      BY <1>2, <2>1
  <1> QED
    BY <1>2, <1>3, <1>4

LEMMA NumberKeepsJournal ==
  ASSUME SpotTypeOK, JournalInv, UNCHANGED recordVars, NEW c \in Calls, NEW o \in Order,
         NEW after, Number(c, o, after), pc[c] = "placing",
         \/ job[c].op \in Market /\ o.kind = "market"
         \/ job[c].op \in Limit /\ o.kind = "limit"
  PROVE  JournalInv'
  <1>1. /\ NextId \in Ids /\ order' = [order EXCEPT ![NextId] = o]
        /\ pc' = [pc EXCEPT ![c] = "placed"] /\ job' = [job EXCEPT ![c].id = NextId]
        /\ stage' = stage
    BY DEF Number, recordVars
  <1>2. /\ order[NextId].kind = "none" /\ stage[NextId] = "none"
        /\ \A d \in Calls : pc[d] = "placed" => job[d].id # NextId
    BY <1>1, FreshNumber
  <1>3. ASSUME NEW i \in Ids PROVE RowInv(i)'
    <2>1. CASE i = NextId
      BY <1>1, <1>2, <2>1 DEF JournalInv, RowInv, recordVars
    <2>2. CASE i # NextId
      BY <1>1, <2>2, TypeFacts DEF JournalInv, RowInv, recordVars
    <2> QED
      BY <2>1, <2>2
  <1>4. /\ pc'[c] = "placed" /\ job'[c] = [job[c] EXCEPT !.id = NextId]
        /\ job'[c].id = NextId /\ job'[c].op = job[c].op
    BY <1>1, TypeFacts DEF Job
  <1>5. \A d \in Calls \ {c} : pc'[d] = pc[d] /\ job'[d] = job[d]
    BY <1>1, TypeFacts
  <1>6. ASSUME NEW d \in Calls PROVE CallInv(d)'
    <2>1. CASE d = c
      <3>1. order'[NextId] = o
        BY <1>1, TypeFacts
      <3> QED
        BY <1>1, <1>2, <1>4, <2>1, <3>1 DEF CallInv, Market, Limit
    <2>2. CASE d # c
      <3>1. CallInv(d) /\ (pc[d] = "placed" => job[d].id \in Ids /\ job[d].id # NextId)
        BY <1>2 DEF JournalInv, CallInv
      <3>2. pc[d] = "placed" => order'[job[d].id] = order[job[d].id]
        BY <1>1, <3>1, TypeFacts
      <3> QED
        BY <1>1, <1>5, <2>2, <3>1, <3>2 DEF CallInv
    <2> QED
      BY <2>1, <2>2
  <1>7. ASSUME NEW d \in Calls, NEW e \in Calls, pc'[d] = "placed", pc'[e] = "placed",
               job'[d].id = job'[e].id
        PROVE  d = e
    <2>1. \A f \in Calls \ {c} : pc'[f] = "placed" => pc[f] = "placed" /\ job'[f].id # NextId
      BY <1>2, <1>5
    <2>2. CASE d = c \/ e = c
      BY <1>4, <1>7, <2>1, <2>2
    <2>3. CASE d # c /\ e # c
      BY <1>5, <1>7, <2>1, <2>3 DEF JournalInv, OwnNumbers
    <2> QED
      BY <2>2, <2>3
  <1>8. OwnNumbers'
    BY <1>7 DEF OwnNumbers
  <1> QED
    BY <1>3, <1>6, <1>8 DEF JournalInv

(* An event is handled: of a number that is nobody's any more.             *)
LEMMA HandledAt ==
  ASSUME Records!RecordsTypeOK, NEW i \in Ids, Records!HandleTradeExecuted(i), RowInv(i),
         order'[i].kind \in Reported
  PROVE  /\ Records!RecordsTypeOK' /\ RowInv(i)'
         /\ stage[i] = "none" /\ stage' = [stage EXCEPT ![i] = "spot"]
         /\ stage'[i] = "spot" /\ \A k \in Ids \ {i} : stage'[k] = stage[k]
         /\ spotRows' = spotRows /\ futuresRows' = futuresRows /\ bitcoinRows' = bitcoinRows
  <1>1. /\ stage[i] = "none" /\ stage' = [stage EXCEPT ![i] = "spot"]
        /\ spotRows' = spotRows /\ futuresRows' = futuresRows /\ bitcoinRows' = bitcoinRows
    BY DEF Records!HandleTradeExecuted, Records!tables
  <1>2. stage'[i] = "spot" /\ \A k \in Ids \ {i} : stage'[k] = stage[k]
    BY <1>1, RecordFacts
  <1>3. stage' \in [Ids -> Records!Stage]
    BY <1>1, RecordFacts DEF Records!Stage, Records!InFlight
  <1>4. Records!RecordsTypeOK'
    BY <1>1, <1>3 DEF Records!RecordsTypeOK
  <1>5. RowInv(i)'
    BY <1>1, <1>2, RecordFacts DEF RowInv
  <1> QED
    BY <1>1, <1>2, <1>4, <1>5

LEMMA ReportSpotKeepsJournal ==
  ASSUME SpotTypeOK, Records!RecordsTypeOK, JournalInv, NEW c \in Calls, ReportSpot(c)
  PROVE  /\ pc[c] = "placed" /\ job[c].op \in Market /\ job[c].id \in Ids
         /\ order[job[c].id].kind = "market"
         /\ Records!RecordsTypeOK' /\ JournalInv'
  <1>1. /\ End(c) /\ order' = order /\ pc[c] \in {"placed", "canceled"} /\ job[c].op \in Market
    BY DEF ReportSpot, ReportMarketBuy, ReportMarketSell, Return, Market, exchangeVars
  <1>2. CallInv(c)
    BY DEF JournalInv
  <1>3. PICK i \in Ids : i = job[c].id /\ pc[c] = "placed" /\ order[i].kind = "market"
    BY <1>1, <1>2 DEF CallInv, Market
  <1>4. RowInv(i) /\ Records!HandleTradeExecuted(i)
    BY <1>3 DEF JournalInv, ReportSpot
  <1>5. order'[i].kind \in Reported
    BY <1>1, <1>3 DEF Reported
  <1>6. /\ Records!RecordsTypeOK' /\ RowInv(i)' /\ \A k \in Ids \ {i} : stage'[k] = stage[k]
        /\ spotRows' = spotRows /\ futuresRows' = futuresRows /\ bitcoinRows' = bitcoinRows
    BY <1>3, <1>4, <1>5, HandledAt
  <1>7. pc'[c] = "idle" /\ \A d \in Calls \ {c} : pc'[d] = pc[d] /\ job'[d] = job[d]
    BY <1>1, TypeFacts DEF End
  <1>8. ASSUME NEW k \in Ids PROVE RowInv(k)'
    BY <1>1, <1>6, <1>8 DEF JournalInv, RowInv
  <1>9. ASSUME NEW d \in Calls PROVE CallInv(d)'
    <2>1. CASE d = c
      BY <1>7, <2>1 DEF CallInv
    <2>2. CASE d # c
      <3>1. CallInv(d) /\ (pc[d] = "placed" => job[d].id # i)
        BY <1>3, <2>2 DEF JournalInv, OwnNumbers
      <3> QED
        BY <1>1, <1>6, <1>7, <2>2, <3>1 DEF CallInv
    <2> QED
      BY <2>1, <2>2
  <1>10. OwnNumbers'
    BY <1>7 DEF JournalInv, OwnNumbers
  <1> QED
    BY <1>1, <1>3, <1>6, <1>8, <1>9, <1>10 DEF JournalInv

LEMMA ReportFuturesKeepsJournal ==
  ASSUME SpotTypeOK, Records!RecordsTypeOK, JournalInv, NEW kind, NEW coin \in Coins,
         ReportFutures(kind, coin)
  PROVE  /\ Records!RecordsTypeOK' /\ JournalInv'
         /\ NextId \in Ids /\ order'[NextId].kind \in Reported
         /\ \A i \in Ids \ {NextId} : order'[i] = order[i]
  <1> DEFINE o == [NoOrder EXCEPT !.kind = kind, !.coin = coin]
  <1>1. /\ NextId \in Ids /\ order' = [order EXCEPT ![NextId] = o] /\ o.kind \in Reported
        /\ pc' = pc /\ job' = job
    BY NoOrderIsOrder DEF ReportFutures, ReportFuturesTrade, Order, Reported, callVars
  <1> HIDE DEF o
  <1>2. PICK n \in Ids : n = NextId /\ \A c \in Calls : pc[c] = "placed" => job[c].id # n
    BY <1>1, FreshNumber
  <1>3. order'[n] = o /\ \A i \in Ids \ {n} : order'[i] = order[i]
    BY <1>1, <1>2, TypeFacts
  <1>4. RowInv(n) /\ Records!HandleTradeExecuted(n)
    BY <1>2 DEF JournalInv, ReportFutures
  <1>5. /\ Records!RecordsTypeOK' /\ RowInv(n)'
        /\ \A k \in Ids \ {n} : stage'[k] = stage[k]
        /\ spotRows' = spotRows /\ futuresRows' = futuresRows /\ bitcoinRows' = bitcoinRows
    BY <1>1, <1>3, <1>4, HandledAt
  <1>6. ASSUME NEW k \in Ids PROVE RowInv(k)'
    BY <1>3, <1>5, <1>6 DEF JournalInv, RowInv
  <1>7. ASSUME NEW d \in Calls PROVE CallInv(d)'
    BY <1>1, <1>2, <1>3, <1>5, <1>7 DEF JournalInv, CallInv
  <1>8. OwnNumbers'
    BY <1>1 DEF JournalInv, OwnNumbers
  <1> QED
    BY <1>1, <1>2, <1>3, <1>5, <1>6, <1>7, <1>8 DEF JournalInv

(* A restart takes the calls, and at most the last insert of a handler.    *)
LEMMA RestartKeepsJournal ==
  ASSUME SpotTypeOK, Records!RecordsTypeOK, JournalInv, RestartSystem
  PROVE  Records!RecordsTypeOK' /\ JournalInv'
  <1>1. order' = order /\ \A c \in Calls : pc'[c] = "idle"
    BY DEF RestartSystem, Restart, exchangeVars
  <1>2. PICK done \in SUBSET {i \in Ids : stage[i] \in Records!InFlight /\ Records!Insertable(i)} :
          /\ spotRows' = Records!Landed(spotRows, done, "spot")
          /\ futuresRows' = Records!Landed(futuresRows, done, "futures")
          /\ bitcoinRows' = Records!Landed(bitcoinRows, done, "bitcoin")
    BY DEF RestartSystem, Records!KillHandlers
  <1>3. stage' = [i \in Ids |-> IF stage[i] \in Records!InFlight THEN "killed" ELSE stage[i]]
    BY DEF RestartSystem, Records!KillHandlers
  <1>4. ASSUME NEW i \in Ids
        PROVE  /\ spotRows'[i] \in {0, 1} /\ futuresRows'[i] \in {0, 1} /\ bitcoinRows'[i] \in {0, 1}
               /\ RowInv(i)'
    <2>1. RowInv(i) /\ spotRows[i] \in {0, 1} /\ futuresRows[i] \in {0, 1} /\ bitcoinRows[i] \in {0, 1}
      BY RecordFacts DEF JournalInv
    <2>2. /\ stage'[i] = IF stage[i] \in Records!InFlight THEN "killed" ELSE stage[i]
          /\ spotRows'[i] = IF i \in done /\ stage[i] = "spot" THEN spotRows[i] + 1 ELSE spotRows[i]
          /\ futuresRows'[i] = IF i \in done /\ stage[i] = "futures"
                               THEN futuresRows[i] + 1 ELSE futuresRows[i]
          /\ bitcoinRows'[i] = IF i \in done /\ stage[i] = "bitcoin"
                               THEN bitcoinRows[i] + 1 ELSE bitcoinRows[i]
      BY <1>2, <1>3 DEF Records!Landed
    <2>3. CASE stage[i] = "spot"
      BY <1>1, <2>1, <2>2, <2>3 DEF RowInv, Records!InFlight
    <2>4. CASE stage[i] = "futures"
      BY <1>1, <2>1, <2>2, <2>4 DEF RowInv, Records!InFlight
    <2>5. CASE stage[i] = "bitcoin"
      BY <1>1, <2>1, <2>2, <2>5 DEF RowInv, Records!InFlight
    <2>6. CASE stage[i] \notin Records!InFlight
      <3>1. /\ stage'[i] = stage[i] /\ spotRows'[i] = spotRows[i]
            /\ futuresRows'[i] = futuresRows[i] /\ bitcoinRows'[i] = bitcoinRows[i]
        BY <2>2, <2>6 DEF Records!InFlight
      <3> QED
        BY <1>1, <2>1, <3>1 DEF RowInv
    <2> QED
      BY <2>3, <2>4, <2>5, <2>6 DEF Records!InFlight
  <1>5. Records!RecordsTypeOK'
    <2>1. /\ spotRows' \in [Ids -> {0, 1}] /\ futuresRows' \in [Ids -> {0, 1}]
          /\ bitcoinRows' \in [Ids -> {0, 1}]
      BY <1>2, <1>4 DEF Records!Landed
    <2>2. stage' \in [Ids -> Records!Stage]
      BY <1>3, RecordFacts DEF Records!Stage
    <2> QED
      BY <2>1, <2>2 DEF Records!RecordsTypeOK
  <1>6. \A c \in Calls : CallInv(c)'
    BY <1>1 DEF CallInv
  <1>7. OwnNumbers'
    BY <1>1 DEF OwnNumbers
  <1> QED
    BY <1>4, <1>5, <1>6, <1>7 DEF JournalInv

-----------------------------------------------------------------------------
(* The inductive invariant, and the theorems that follow from it.          *)
IInv == SpotTypeOK /\ Records!RecordsTypeOK /\ FreshOrdersAreCovered /\ JournalInv

LEMMA InitIInv == SystemInit => IInv
  <1> SUFFICES ASSUME SystemInit PROVE IInv
    OBVIOUS
  <1>1. /\ free \in [Assets -> Nat] /\ margin \in [Assets -> Nat]
        /\ order \in [Ids -> Order] /\ pc \in [Calls -> Awaiting] /\ job \in [Calls -> Job]
        /\ outrun \in [Calls -> BOOLEAN] /\ started \in Nat /\ restarts \in Nat
    BY SpotAssumption, NoOrderIsOrder, NoJobIsJob DEF SystemInit, Init, Awaiting
  <1>2. numbered \in 0..MaxOrders /\ \A i \in Ids : order[i].kind # "none" <=> i <= numbered
    BY BoundsAreNat DEF SystemInit, Init, Ids, NoOrder
  <1>3. SpotTypeOK
    BY <1>1, <1>2 DEF SpotTypeOK
  <1>4. Records!RecordsTypeOK
    BY DEF SystemInit, Records!RecordsInit, Records!RecordsTypeOK, Records!Stage
  <1>5. \A c \in Calls : pc[c] = "idle"
    BY DEF SystemInit, Init
  <1>6. \A i \in Ids : RowInv(i)
    BY DEF SystemInit, Records!RecordsInit, RowInv
  <1> QED
    BY <1>3, <1>4, <1>5, <1>6 DEF IInv, FreshOrdersAreCovered, JournalInv, CallInv, OwnNumbers

(* A call that fails or returns leaves the account as it is.               *)
LEMMA EndingKeepsIInv ==
  ASSUME IInv, NEW c \in Calls, End(c), UNCHANGED <<exchangeVars, boundVars, recordVars>>
  PROVE  IInv'
  <1> USE DEF IInv
  <1>1. SpotTypeOK'
    BY EndTypes DEF SpotTypeOK, exchangeVars, boundVars
  <1>2. Records!RecordsTypeOK'
    BY DEF recordVars, Records!RecordsTypeOK
  <1>3. pc'[c] = "idle" /\ \A d \in Calls \ {c} : /\ pc'[d] = pc[d] /\ job'[d] = job[d]
                                                 /\ outrun'[d] = outrun[d]
    BY TypeFacts DEF End
  <1>4. free' = free /\ order' = order
    BY DEF exchangeVars
  <1>5. FreshOrdersAreCovered'
    BY <1>3, <1>4 DEF FreshOrdersAreCovered, Covered
  <1>6. JournalInv'
    BY <1>3, <1>4, QuietKeepsJournal DEF recordVars
  <1> QED
    BY <1>1, <1>2, <1>5, <1>6

(* Every other step of a call that emits nothing.                          *)
LEMMA ArrivalKeepsIInv ==
  ASSUME IInv, NEW c \in Calls, Arrival(c), UNCHANGED recordVars
  PROVE  IInv'
  <1> USE DEF IInv
  <1>1. PICK j \in Job, await \in {"balances", "canceling"} :
          /\ Begin(c, j, await)
          /\ await = "balances" => j.op \in Market \cup Limit
          /\ await = "canceling" => j.op = "cancel" /\ j.id \in Ids
    BY ArrivalBegins
  <1>2. SpotTypeOK' /\ JournalInv'
    BY <1>1, BeginTypes, BeginKeepsJournal
  <1>3. \A d \in Calls : pc'[d] = "placing" => pc[d] = "placing" /\ job'[d] = job[d]
    BY <1>1, TypeFacts DEF Begin
  <1>4. FreshOrdersAreCovered'
    BY <1>1, <1>3 DEF FreshOrdersAreCovered, Covered, Begin, exchangeVars
  <1>5. Records!RecordsTypeOK'
    BY DEF recordVars, Records!RecordsTypeOK
  <1> QED
    BY <1>2, <1>4, <1>5

LEMMA ProgressKeepsIInv ==
  ASSUME IInv, NEW c \in Calls, Progress(c), UNCHANGED recordVars
  PROVE  IInv'
  <1> USE DEF IInv
  <1>1. Records!RecordsTypeOK'
    BY DEF recordVars, Records!RecordsTypeOK
  <1>2. CASE DecideOnBalance(c)
    <2>1. order' = order
      BY <1>2 DEF DecideOnBalance, exchangeVars
    <2>2. \A d \in Calls :
            \/ pc'[d] = "idle"
            \/ /\ job'[d] = job[d]
               /\ pc'[d] = pc[d] \/ (pc[d] = "balances" /\ pc'[d] = "placing")
      BY <1>2, TypeFacts DEF DecideOnBalance, End
    <2>3. JournalInv'
      BY <2>1, <2>2, QuietKeepsJournal
    <2> QED
      BY <1>1, <1>2, <2>3, DecideTypes, DecidedIsCovered
  <1>3. CASE Fail(c) \/ ReturnLimitOrder(c) \/ ReturnCancellation(c) \/ ReplyLost(c)
    BY <1>3, EndingKeepsIInv DEF Fail, ReturnLimitOrder, ReturnCancellation, Return, ReplyLost
  <1>4. CASE (\E price \in Prices : ExecuteMarketOrder(c, price)) \/ RestLimitOrder(c)
    <2>1. pc[c] = "placing"
      BY <1>4, PlacingNumbers
    <2>2. PICK o \in Order, after \in [Assets -> Nat] :
            /\ Number(c, o, after)
            /\ \/ job[c].op \in Market /\ o.kind = "market"
               \/ job[c].op \in Limit /\ o.kind = "limit"
      BY <1>4, PlacingNumbers
    <2> QED
      BY <1>1, <2>1, <2>2, NumberTypes, NumberKeepsFresh, NumberKeepsJournal
  <1>5. CASE CancelResting(c)
    <2>1. job[c].id \in Ids
      BY <1>5 DEF CancelResting, JournalInv, CallInv
    <2>2. SpotTypeOK' /\ \A a \in Assets : free'[a] >= free[a]
      BY <1>5, <2>1, CancelTypes
    <2>3. /\ pc' = [pc EXCEPT ![c] = "canceled"] /\ job' = job /\ outrun' = outrun
          /\ order' = [order EXCEPT ![job[c].id].left = 0] /\ pc[c] = "canceling"
      BY <1>5 DEF CancelResting
    <2>4. free' \in [Assets -> Nat]
      <3>1. free' \in {free', margin'}
        OBVIOUS
      <3> QED
        BY <2>2, <3>1 DEF SpotTypeOK
    <2>5. FreshOrdersAreCovered'
      BY <2>2, <2>3, <2>4, FreshKept, NeedsAnAsset, TypeFacts
    <2>6. \A i \in Ids : order'[i].kind = order[i].kind /\ order'[i].coin = order[i].coin
      BY <2>1, <2>3, TypeFacts DEF Order
    <2>7. JournalInv'
      BY <2>3, <2>6, QuietKeepsJournal, TypeFacts
    <2> QED
      BY <1>1, <2>2, <2>5, <2>7
  <1> QED
    BY <1>2, <1>3, <1>4, <1>5 DEF Progress

LEMMA MarketKeepsIInv ==
  ASSUME IInv, UNCHANGED recordVars,
         \/ \E i \in Ids, q \in 1..MaxAsk : Fill(i, q)
         \/ \E asset \in Assets, n \in 0..MaxAsk, from, to \in {"SPOT", "FUTURES"} :
              TransferFunds(asset, n, from, to)
  PROVE  IInv'
  <1> USE DEF IInv
  <1>1. Records!RecordsTypeOK'
    BY DEF recordVars, Records!RecordsTypeOK
  <1>2. ASSUME NEW i \in Ids, NEW q \in 1..MaxAsk, Fill(i, q) PROVE IInv'
    <2>1. SpotTypeOK' /\ \A a \in Assets : free'[a] >= free[a]
      BY <1>2, FillTypes
    <2>2. /\ pc' = pc /\ job' = job /\ outrun' = outrun
          /\ order' = [order EXCEPT ![i].left = @ - q]
      BY <1>2 DEF Fill, callVars
    <2>3. free' \in [Assets -> Nat]
      <3>1. free' \in {free', margin'}
        OBVIOUS
      <3> QED
        BY <2>1, <3>1 DEF SpotTypeOK
    <2>4. FreshOrdersAreCovered'
      BY <2>1, <2>2, <2>3, FreshKept, NeedsAnAsset, TypeFacts
    <2>5. \A k \in Ids : order'[k].kind = order[k].kind /\ order'[k].coin = order[k].coin
      BY <2>2, TypeFacts DEF Order
    <2>6. JournalInv'
      BY <2>2, <2>5, QuietKeepsJournal
    <2> QED
      BY <1>1, <2>1, <2>4, <2>6
  <1>3. ASSUME NEW asset \in Assets, NEW n \in 0..MaxAsk, NEW from \in {"SPOT", "FUTURES"},
               NEW to \in {"SPOT", "FUTURES"}, TransferFunds(asset, n, from, to)
        PROVE  IInv'
    <2>1. order' = order /\ pc' = pc /\ job' = job
      BY <1>3 DEF TransferFunds
    <2> QED
      BY <1>1, <1>3, <2>1, TransferTypes, TransferKeepsFresh, QuietKeepsJournal
  <1> QED
    BY <1>2, <1>3

LEMMA NextIInv == IInv /\ [SystemNext]_systemVars => IInv'
  <1> SUFFICES ASSUME IInv, [SystemNext]_systemVars PROVE IInv'
    OBVIOUS
  <1> USE DEF IInv
  <1>1. CASE Quiet /\ UNCHANGED recordVars
    BY <1>1, ArrivalKeepsIInv, ProgressKeepsIInv, MarketKeepsIInv DEF Quiet
  <1>2. ASSUME NEW c \in Calls, ReportSpot(c) PROVE IInv'
    <2>1. End(c) /\ UNCHANGED <<exchangeVars, boundVars>>
      BY <1>2 DEF ReportSpot, ReportMarketBuy, ReportMarketSell, Return
    <2>2. SpotTypeOK'
      BY <2>1, EndTypes DEF SpotTypeOK, exchangeVars, boundVars
    <2>3. \A d \in Calls : pc'[d] = "placing" =>
            pc[d] = "placing" /\ job'[d] = job[d] /\ outrun'[d] = outrun[d]
      BY <2>1, TypeFacts DEF End
    <2>4. FreshOrdersAreCovered'
      BY <2>1, <2>3 DEF FreshOrdersAreCovered, Covered, exchangeVars
    <2> QED
      BY <1>2, <2>2, <2>4, ReportSpotKeepsJournal
  <1>3. ASSUME NEW kind \in Kinds, NEW coin \in Coins, ReportFutures(kind, coin) PROVE IInv'
    <2>1. ReportFuturesTrade(kind, coin)
      BY <1>3 DEF ReportFutures
    <2>2. SpotTypeOK'
      BY <2>1, ReportFuturesTypes
    <2>3. FreshOrdersAreCovered'
      BY <2>1 DEF ReportFuturesTrade, FreshOrdersAreCovered, Covered, callVars
    <2> QED
      BY <1>3, <2>2, <2>3, ReportFuturesKeepsJournal
  <1>4. ASSUME NEW i \in Ids, Records!HandlerStep(i), UNCHANGED spotVars PROVE IInv'
    <2>1. SpotTypeOK' /\ FreshOrdersAreCovered'
      BY <1>4 DEF SpotTypeOK, FreshOrdersAreCovered, Covered, spotVars, exchangeVars, callVars,
         boundVars
    <2> QED
      BY <1>4, <2>1, HandlersKeepJournal
  <1>5. CASE RestartSystem
    <2>1. Restart /\ \A c \in Calls : pc'[c] = "idle"
      BY <1>5 DEF RestartSystem, Restart
    <2>2. SpotTypeOK' /\ FreshOrdersAreCovered'
      BY <2>1, RestartTypes DEF FreshOrdersAreCovered
    <2> QED
      BY <1>5, <2>2, RestartKeepsJournal
  <1>6. CASE UNCHANGED systemVars
    <2>1. UNCHANGED spotVars /\ UNCHANGED recordVars
      BY <1>6 DEF systemVars
    <2>2. SpotTypeOK' /\ FreshOrdersAreCovered'
      BY <2>1 DEF SpotTypeOK, FreshOrdersAreCovered, Covered, spotVars, exchangeVars, callVars,
         boundVars
    <2>3. pc' = pc /\ job' = job /\ order' = order
      BY <2>1 DEF spotVars, exchangeVars, callVars
    <2>4. JournalInv'
      BY <2>1, <2>3, QuietKeepsJournal
    <2> QED
      BY <2>1, <2>2, <2>4 DEF recordVars, Records!RecordsTypeOK
  <1> QED
    BY <1>1, <1>2, <1>3, <1>4, <1>5, <1>6 DEF SystemNext

LEMMA SpecIInv == SystemSpec => []IInv
  BY InitIInv, NextIInv, PTL DEF SystemSpec

(* No account goes below zero, whatever orders, fills, cancellations and   *)
(* transfers run at once, and numbers are given in order.                  *)
THEOREM AccountsAreTyped == SystemSpec => []SpotSystemTypeOK
  BY SpecIInv, PTL DEF IInv, SpotSystemTypeOK

(* An order that is sent is one the exchange can cover unless another took *)
(* from the asset in between, for any prices, quantities and balances: in  *)
(* particular the quantity the price of a limit buy is divided into.       *)
THEOREM OrdersAreCovered == SystemSpec => []FreshOrdersAreCovered
  BY SpecIInv, PTL DEF IInv

(* However handlers interleave, fail or die half-way, for any number of    *)
(* trades: saved means a row in both tables, and no table runs ahead.      *)
THEOREM RowsAlwaysFollow == SystemSpec => []RowsFollowEachOther
  <1>1. IInv => RowsFollowEachOther
    <2> SUFFICES ASSUME IInv, NEW i \in Ids
                 PROVE  /\ stage[i] = "saved" => spotRows[i] = 1 /\ futuresRows[i] = 1
                        /\ bitcoinRows[i] <= futuresRows[i] /\ futuresRows[i] <= spotRows[i]
                        /\ bitcoinRows[i] = 1 => /\ order[i].coin = Bitcoin
                                                 /\ stage[i] \in {"saved", "killed"}
      BY DEF RowsFollowEachOther
    <2>1. RowInv(i)
      BY DEF IInv, JournalInv
    <2> QED
      BY <2>1 DEF RowInv
  <1> QED
    BY <1>1, SpecIInv, PTL

-----------------------------------------------------------------------------
(* The journal's steps.  Fates of numbers that nothing touches stay.       *)
LEMMA FatesStay ==
  ASSUME stage' = stage, \A i \in Ids : order'[i].kind = order[i].kind,
         \A i \in Ids : order[i].kind \in {"none", "limit"} \/ (AwaitsReply(i)' <=> AwaitsReply(i))
  PROVE  \A i \in Ids : FateOf(i)' = FateOf(i)
  BY DEF FateOf

(* A trade comes into being, or to one of its ends, and no other changes.  *)
LEMMA OneTradeMoves ==
  ASSUME NEW n \in Ids, \A i \in Ids \ {n} : FateOf(i)' = FateOf(i),
         \/ FateOf(n)' = FateOf(n)
         \/ FateOf(n) = "none" /\ FateOf(n)' = "executed"
         \/ FateOf(n) = "executed" /\ FateOf(n)' \in {"recorded", "told", "lost"}
  PROVE  Journal!JournalNext \/ \A i \in Ids : FateOf(i)' = FateOf(i)
  <1> DEFINE F == [i \in Ids |-> FateOf(i)]
  <1>1. CASE FateOf(n) = "none" /\ FateOf(n)' = "executed"
    <2>1. F[n] = "none" /\ F' = [F EXCEPT ![n] = "executed"]
      <3>1. F' = [i \in Ids |-> IF i = n THEN "executed" ELSE FateOf(i)]
        BY <1>1
      <3>2. F = [i \in Ids |-> FateOf(i)]
        OBVIOUS
      <3> HIDE DEF F
      <3> QED
        BY <1>1, <3>1, <3>2
    <2>2. Journal!ExecuteTrade(n)
      BY <2>1 DEF Journal!ExecuteTrade
    <2> QED
      BY <2>2 DEF Journal!JournalNext
  <1>2. ASSUME NEW how, FateOf(n) = "executed", FateOf(n)' = how PROVE Journal!Ends({n}, how)
    BY <1>2 DEF Journal!Ends
  <1>3. CASE FateOf(n) = "executed" /\ FateOf(n)' = "recorded"
    BY <1>2, <1>3 DEF Journal!JournalNext, Journal!RecordTrade
  <1>4. CASE FateOf(n) = "executed" /\ FateOf(n)' = "told"
    BY <1>2, <1>4 DEF Journal!JournalNext, Journal!TellTrade
  <1>5. CASE FateOf(n) = "executed" /\ FateOf(n)' = "lost"
    <2>1. {n} \in SUBSET Ids /\ Journal!LoseTrades({n})
      BY <1>2, <1>5 DEF Journal!LoseTrades
    <2> QED
      BY <2>1 DEF Journal!JournalNext
  <1> QED
    BY <1>1, <1>3, <1>4, <1>5

(* A call that ends awaits its reply no longer; if its order was a market  *)
(* order, that trade is lost (its reply was), or told of in the same step. *)
LEMMA EndingLosesOne ==
  ASSUME IInv, NEW c \in Calls, End(c), order' = order, stage' = stage
  PROVE  Journal!JournalNext \/ \A i \in Ids : FateOf(i)' = FateOf(i)
  <1>1. pc'[c] = "idle" /\ \A d \in Calls \ {c} : pc'[d] = pc[d] /\ job'[d] = job[d]
    BY TypeFacts DEF IInv, End
  <1>2. CASE pc[c] # "placed"
    <2>1. \A i \in Ids : AwaitsReply(i)' <=> AwaitsReply(i)
      BY <1>1, <1>2 DEF AwaitsReply
    <2> QED
      BY <2>1, FatesStay
  <1>3. CASE pc[c] = "placed"
    <2>1. PICK n \in Ids : n = job[c].id /\ stage[n] = "none" /\ order[n].kind \in {"market", "limit"}
      BY <1>3 DEF IInv, JournalInv, CallInv
    <2>2. \A i \in Ids \ {n} : AwaitsReply(i)' <=> AwaitsReply(i)
      BY <1>1, <2>1 DEF AwaitsReply
    <2>3. \A i \in Ids \ {n} : FateOf(i)' = FateOf(i)
      BY <2>2 DEF FateOf
    <2>4. AwaitsReply(n) /\ ~AwaitsReply(n)'
      BY <1>1, <1>3, <2>1 DEF AwaitsReply, IInv, JournalInv, OwnNumbers
    <2>5. \/ FateOf(n)' = FateOf(n)
          \/ FateOf(n) = "executed" /\ FateOf(n)' = "lost"
      BY <2>1, <2>4 DEF FateOf, Records!InFlight
    <2> QED
      BY <2>3, <2>5, OneTradeMoves
  <1> QED
    BY <1>2, <1>3

(* An order gets its number: a market order is a trade from then on.       *)
LEMMA NumberingExecutes ==
  ASSUME IInv, NEW c \in Calls, NEW o \in Order, NEW after, Number(c, o, after),
         o.kind \in {"market", "limit"}, pc[c] = "placing", stage' = stage
  PROVE  Journal!JournalNext \/ \A i \in Ids : FateOf(i)' = FateOf(i)
  <1>1. /\ order' = [order EXCEPT ![NextId] = o] /\ pc' = [pc EXCEPT ![c] = "placed"]
        /\ job' = [job EXCEPT ![c].id = NextId]
    BY DEF Number
  <1>2. PICK n \in Ids : /\ n = NextId /\ order[n].kind = "none" /\ stage[n] = "none"
                         /\ \A d \in Calls : pc[d] = "placed" => job[d].id # n
    BY FreshNumber DEF IInv, Number
  <1>3. /\ order'[n] = o /\ \A i \in Ids \ {n} : order'[i] = order[i]
        /\ pc'[c] = "placed" /\ job'[c].id = n
        /\ \A d \in Calls \ {c} : pc'[d] = pc[d] /\ job'[d] = job[d]
    BY <1>1, <1>2, TypeFacts DEF IInv, Job
  <1>4. \A i \in Ids \ {n} : AwaitsReply(i)' <=> AwaitsReply(i)
    BY <1>3 DEF AwaitsReply
  <1>5. \A i \in Ids \ {n} : FateOf(i)' = FateOf(i)
    BY <1>3, <1>4 DEF FateOf
  <1>6. AwaitsReply(n)'
    BY <1>3 DEF AwaitsReply
  <1>7. FateOf(n) = "none" /\ FateOf(n)' \in {"none", "executed"}
    BY <1>2, <1>3, <1>6 DEF FateOf
  <1> QED
    BY <1>5, <1>7, OneTradeMoves

LEMMA QuietIsJournalStep ==
  ASSUME IInv, Quiet, UNCHANGED recordVars
  PROVE  Journal!JournalNext \/ \A i \in Ids : FateOf(i)' = FateOf(i)
  <1>1. stage' = stage /\ SpotTypeOK
    BY DEF recordVars, IInv
  <1>2. ASSUME pc' = pc, job' = job, \A i \in Ids : order'[i].kind = order[i].kind
        PROVE  \A i \in Ids : FateOf(i)' = FateOf(i)
    BY <1>1, <1>2, FatesStay DEF AwaitsReply
  <1>3. ASSUME NEW c \in Calls, Arrival(c)
        PROVE  \A i \in Ids : FateOf(i)' = FateOf(i)
    <2>1. PICK j \in Job, await \in {"balances", "canceling"} : Begin(c, j, await)
      BY <1>3, ArrivalBegins
    <2>2. /\ pc[c] = "idle" /\ pc'[c] = await /\ order' = order
          /\ \A d \in Calls \ {c} : pc'[d] = pc[d] /\ job'[d] = job[d]
      BY <1>1, <2>1, TypeFacts DEF Begin, exchangeVars
    <2>3. \A i \in Ids : AwaitsReply(i)' <=> AwaitsReply(i)
      BY <2>2 DEF AwaitsReply
    <2> QED
      BY <1>1, <2>2, <2>3, FatesStay
  <1>4. ASSUME NEW c \in Calls, Progress(c)
        PROVE  Journal!JournalNext \/ \A i \in Ids : FateOf(i)' = FateOf(i)
    <2>1. CASE DecideOnBalance(c)
      <3>1. CASE End(c)
        BY <1>1, <2>1, <3>1, EndingLosesOne DEF DecideOnBalance, exchangeVars
      <3>2. CASE pc' = [pc EXCEPT ![c] = "placing"] /\ UNCHANGED job
        <4>1. order' = order /\ \A i \in Ids : AwaitsReply(i)' <=> AwaitsReply(i)
          BY <1>1, <2>1, <3>2, TypeFacts DEF DecideOnBalance, AwaitsReply, exchangeVars
        <4> QED
          BY <1>1, <4>1, FatesStay
      <3> QED
        BY <2>1, <3>1, <3>2 DEF DecideOnBalance
    <2>2. CASE Fail(c) \/ ReturnLimitOrder(c) \/ ReturnCancellation(c) \/ ReplyLost(c)
      <3>1. End(c) /\ order' = order
        BY <2>2 DEF Fail, ReturnLimitOrder, ReturnCancellation, Return, ReplyLost, exchangeVars
      <3> QED
        BY <1>1, <3>1, EndingLosesOne
    <2>3. CASE (\E price \in Prices : ExecuteMarketOrder(c, price)) \/ RestLimitOrder(c)
      <3>1. pc[c] = "placing"
        BY <1>1, <2>3, PlacingNumbers
      <3>2. PICK o \in Order, after \in [Assets -> Nat] :
              Number(c, o, after) /\ o.kind \in {"market", "limit"}
        BY <1>1, <2>3, PlacingNumbers
      <3> QED
        BY <1>1, <3>1, <3>2, NumberingExecutes
    <2>4. CASE CancelResting(c)
      <3>1. job[c].id \in Ids /\ pc[c] = "canceling"
        BY <2>4 DEF CancelResting, IInv, JournalInv, CallInv
      <3>2. /\ pc' = [pc EXCEPT ![c] = "canceled"] /\ job' = job
            /\ order' = [order EXCEPT ![job[c].id].left = 0]
        BY <2>4 DEF CancelResting
      <3>3. \A i \in Ids : AwaitsReply(i)' <=> AwaitsReply(i)
        BY <1>1, <3>1, <3>2, TypeFacts DEF AwaitsReply
      <3>4. \A i \in Ids : order'[i].kind = order[i].kind
        BY <1>1, <3>1, <3>2, TypeFacts DEF Order
      <3> QED
        BY <1>1, <3>3, <3>4, FatesStay
    <2> QED
      BY <1>4, <2>1, <2>2, <2>3, <2>4 DEF Progress
  <1>5. ASSUME NEW i \in Ids, NEW q \in 1..MaxAsk, Fill(i, q)
        PROVE  \A k \in Ids : FateOf(k)' = FateOf(k)
    <2>1. pc' = pc /\ job' = job /\ order' = [order EXCEPT ![i].left = @ - q]
      BY <1>5 DEF Fill, callVars
    <2>2. \A k \in Ids : order'[k].kind = order[k].kind
      BY <1>1, <2>1, TypeFacts DEF Order
    <2> QED
      BY <1>2, <2>1, <2>2
  <1>6. ASSUME NEW asset \in Assets, NEW n \in 0..MaxAsk, NEW from, NEW to,
               TransferFunds(asset, n, from, to)
        PROVE  \A k \in Ids : FateOf(k)' = FateOf(k)
    BY <1>2, <1>6 DEF TransferFunds
  <1> QED
    BY <1>3, <1>4, <1>5, <1>6 DEF Quiet

(* The reply of a market order: its event is in the handler's hands when   *)
(* the call has let go of it.                                              *)
LEMMA ReportSpotKeepsFates ==
  ASSUME IInv, NEW c \in Calls, ReportSpot(c)
  PROVE  \A i \in Ids : FateOf(i)' = FateOf(i)
  <1>1. End(c) /\ order' = order
    BY DEF ReportSpot, ReportMarketBuy, ReportMarketSell, Return, exchangeVars
  <1>2. PICK n \in Ids : n = job[c].id /\ pc[c] = "placed" /\ order[n].kind = "market"
    BY ReportSpotKeepsJournal DEF IInv
  <1>3. Records!HandleTradeExecuted(n) /\ RowInv(n)
    BY <1>2 DEF ReportSpot, IInv, JournalInv
  <1>4. order'[n].kind \in Reported
    BY <1>1, <1>2 DEF Reported
  <1>5. stage[n] = "none" /\ stage'[n] = "spot" /\ \A k \in Ids \ {n} : stage'[k] = stage[k]
    BY <1>3, <1>4, HandledAt DEF IInv
  <1>6. pc'[c] = "idle" /\ \A d \in Calls \ {c} : pc'[d] = pc[d] /\ job'[d] = job[d]
    BY <1>1, TypeFacts DEF IInv, End
  <1>7. AwaitsReply(n) /\ \A k \in Ids \ {n} : AwaitsReply(k)' <=> AwaitsReply(k)
    BY <1>2, <1>6 DEF AwaitsReply
  <1>8. FateOf(n) = "executed" /\ FateOf(n)' = "executed"
    BY <1>1, <1>2, <1>5, <1>7 DEF FateOf, Records!InFlight
  <1>9. \A k \in Ids \ {n} : FateOf(k)' = FateOf(k)
    BY <1>1, <1>5, <1>7 DEF FateOf
  <1> QED
    BY <1>8, <1>9

LEMMA ReportFuturesExecutes ==
  ASSUME IInv, NEW kind \in Kinds, NEW coin \in Coins, ReportFutures(kind, coin)
  PROVE  Journal!JournalNext \/ \A i \in Ids : FateOf(i)' = FateOf(i)
  <1>1. /\ NextId \in Ids /\ order'[NextId].kind \in Reported
        /\ \A i \in Ids \ {NextId} : order'[i] = order[i]
    BY ReportFuturesKeepsJournal DEF IInv
  <1>2. PICK n \in Ids : n = NextId /\ order[n].kind = "none"
    BY <1>1, FreshNumber DEF IInv
  <1>3. Records!HandleTradeExecuted(n) /\ RowInv(n) /\ pc' = pc /\ job' = job
    BY <1>2 DEF ReportFutures, ReportFuturesTrade, callVars, IInv, JournalInv
  <1>4. stage'[n] = "spot" /\ \A k \in Ids \ {n} : stage'[k] = stage[k]
    BY <1>1, <1>2, <1>3, HandledAt DEF IInv
  <1>5. FateOf(n) = "none" /\ FateOf(n)' = "executed"
    BY <1>1, <1>2, <1>4 DEF FateOf, Reported, Records!InFlight
  <1>6. \A k \in Ids \ {n} : FateOf(k)' = FateOf(k)
    BY <1>1, <1>2, <1>3, <1>4 DEF FateOf, AwaitsReply
  <1> QED
    BY <1>5, <1>6, OneTradeMoves

(* A handler's step ends its trade in one way, or not yet.                 *)
LEMMA HandlerEndsOne ==
  ASSUME IInv, NEW n \in Ids, Records!HandlerStep(n), UNCHANGED spotVars
  PROVE  Journal!JournalNext \/ \A i \in Ids : FateOf(i)' = FateOf(i)
  <1>1. order' = order /\ pc' = pc /\ job' = job
    BY DEF spotVars, exchangeVars, callVars
  <1>2. RowInv(n)
    BY DEF IInv, JournalInv
  <1>3. stage[n] \in Records!InFlight
    BY <1>1, <1>2, HandlerStepLeaves DEF IInv
  <1>4. PICK next \in Then, x \in {0, 1}, y \in {0, 1}, z \in {0, 1} : Leaves(n, next, x, y, z)
    BY <1>1, <1>2, HandlerStepLeaves DEF IInv
  <1>5. stage'[n] = next /\ \A k \in Ids \ {n} : stage'[k] = stage[k]
    BY <1>4, LeavesAt DEF IInv
  <1>6. order[n].kind \in Reported
    BY <1>2, <1>3 DEF RowInv, Records!InFlight
  <1>7. /\ FateOf(n) = "executed"
        /\ FateOf(n)' \in {"executed", "recorded", "told"}
    BY <1>1, <1>3, <1>5, <1>6 DEF FateOf, Reported, Then, Records!InFlight
  <1>8. \A k \in Ids \ {n} : FateOf(k)' = FateOf(k)
    BY <1>1, <1>5 DEF FateOf, AwaitsReply
  <1> QED
    BY <1>7, <1>8, OneTradeMoves

(* A restart loses every trade that was on its way, and no other.          *)
LEMMA RestartLosesTrades ==
  ASSUME IInv, RestartSystem
  PROVE  Journal!JournalNext
  <1> DEFINE ts == {i \in Ids : FateOf(i) = "executed"}
  <1>1. order' = order /\ \A c \in Calls : pc'[c] = "idle"
    BY DEF RestartSystem, Restart, exchangeVars
  <1>2. \A i \in Ids : stage'[i] = IF stage[i] \in Records!InFlight THEN "killed" ELSE stage[i]
    BY DEF RestartSystem, Records!KillHandlers
  <1>3. \A i \in Ids : ~AwaitsReply(i)'
    BY <1>1 DEF AwaitsReply
  <1>4. ASSUME NEW i \in Ids
        PROVE  FateOf(i)' = IF i \in ts THEN "lost" ELSE FateOf(i)
    <2>1. CASE order[i].kind \in {"none", "limit"}
      BY <1>1, <2>1 DEF FateOf
    <2>2. CASE order[i].kind \notin {"none", "limit"} /\ stage[i] \in {"saved", "failed"}
      BY <1>1, <1>2, <2>2 DEF FateOf, Records!InFlight
    <2>3. CASE order[i].kind \notin {"none", "limit"} /\ stage[i] \notin {"saved", "failed"}
      <3>1. FateOf(i)' = "lost"
        BY <1>1, <1>2, <1>3, <2>3 DEF FateOf, Records!InFlight
      <3>2. FateOf(i) \in {"executed", "lost"}
        BY <2>3 DEF FateOf
      <3> QED
        BY <3>1, <3>2
    <2> QED
      BY <2>1, <2>2, <2>3
  <1>5. [i \in Ids |-> FateOf(i)]' = [i \in Ids |-> IF i \in ts THEN "lost" ELSE FateOf(i)]
    BY <1>4
  <1>6. Journal!Ends(ts, "lost")
    BY <1>5 DEF Journal!Ends
  <1>7. ts \in SUBSET Ids
    OBVIOUS
  <1> QED
    BY <1>6, <1>7 DEF Journal!JournalNext, Journal!LoseTrades

(* The services implement the journal: for any number of calls, trades and *)
(* restarts, a market trade is executed once and comes to at most one end. *)
THEOREM ServicesKeepAJournal == SystemSpec => Journal!JournalSafety
  <1>1. SystemInit => Journal!JournalInit
    BY DEF SystemInit, Init, NoOrder, FateOf, Journal!JournalInit
  <1>2. IInv /\ [SystemNext]_systemVars
          => Journal!JournalNext \/ \A i \in Ids : FateOf(i)' = FateOf(i)
    <2> SUFFICES ASSUME IInv, [SystemNext]_systemVars
                 PROVE  Journal!JournalNext \/ \A i \in Ids : FateOf(i)' = FateOf(i)
      OBVIOUS
    <2>1. CASE UNCHANGED systemVars
      BY <2>1 DEF systemVars, spotVars, exchangeVars, callVars, recordVars, FateOf, AwaitsReply
    <2> QED
      BY <2>1, QuietIsJournalStep, ReportSpotKeepsFates, ReportFuturesExecutes,
         HandlerEndsOne, RestartLosesTrades DEF SystemNext
  <1>3. IInv /\ [SystemNext]_systemVars
          => [Journal!JournalNext]_([i \in Ids |-> FateOf(i)])
    BY <1>2
  <1> QED
    BY <1>1, <1>3, SpecIInv, PTL DEF SystemSpec, Journal!JournalSafety
=============================================================================
