------------------------ MODULE FuturesTrading_proofs ------------------------
(***************************************************************************)
(* What FuturesTrading guarantees for any number of symbols, calls,        *)
(* requests and restarts, any quantities and any initial account.          *)
(*                                                                         *)
(* The inductive invariant IInv says, for a call at each await, what its   *)
(* locals know: which operations can be there (OpsMatch), what a call      *)
(* knows of the position while nobody moved it (Knows), that an order      *)
(* executed on such knowledge equals the trades to report (Reports), and   *)
(* whose leverage the symbol has (Honours).                                *)
(* UnseenOnlyInFlight needs besides that what moved unseen is the sum over *)
(* the calls in flight (Tally), taken along a listing of the calls.        *)
(***************************************************************************)
EXTENDS FuturesTrading, TLAPS

Changer == {"switch", "add", "reduce"}
Closer == {"close"} \cup CloserOfAll

(* Which operation can be suspended at which await, and the part of its    *)
(* order that does not depend on the position.                             *)
OpsMatch(c) ==
  LET j == job[c]
  IN  /\ pc[c] = "signal" => j.op \in {"signal", "signalClose"}
      /\ pc[c] \in {"leverage", "checks"} => j.op \in Opener /\ j.qty >= 1
      /\ pc[c] = "closeAll" => j.op \in CloserOfAll
      /\ pc[c] = "close" => j.op \in Closer
      /\ pc[c] \in {"signal", "leverage", "checks", "closeAll", "close", "change"}
           => j.closing = 0 /\ j.entering = 0
      /\ pc[c] = "change" => j.op \in Changer /\ j.qty >= 1
      /\ pc[c] = "placing" /\ (j.op = "reduce" \/ (j.op = "close" /\ j.qty = 0))
           => j.order.reduceOnly

(* What a call knows of the position while nobody else moved it.           *)
Knows(c) ==
  LET j == job[c]
      p == position[j.symbol]
  IN  "position" \notin stale[c] =>
        /\ pc[c] \in {"leverage", "checks"} /\ j.op = "signal" /\ j.sure => p = 0
        /\ pc[c] = "close" /\ j.op \in CloserOfAll => p # 0 /\ j.closeQty = Abs(p)
        /\ pc[c] = "placing" => /\ Promise(j, p, p + Executed(p, j.order))
                                /\ Executed(p, j.order) = j.closing + j.entering

(* An order executed while its symbol has seen no race is reported exactly. *)
Reports(c) ==
  pc[c] = "placed" /\ ~raced[job[c].symbol] => filled[c] = job[c].closing + job[c].entering

Honours(c) ==
  pc[c] \in {"checks", "placing"} /\ job[c].op \in Opener /\ "leverage" \notin stale[c]
    => leverage[job[c].symbol] = job[c].lev

CallInv(c) == OpsMatch(c) /\ Knows(c) /\ Reports(c) /\ Honours(c)

IInv ==
  /\ TypeOK
  /\ \A c \in Calls : CallInv(c)
  /\ BooksBalance

-----------------------------------------------------------------------------
(* Arithmetic of signed positions. *)
LEMMA SignedIsInt ==
  ASSUME NEW q \in Int, NEW side
  PROVE  Signed(side, q) \in Int
  BY DEF Signed

LEMMA AbsIsNat ==
  ASSUME NEW p \in Int
  PROVE  Abs(p) \in Nat
  BY DEF Abs

LEMMA SidesAreSides ==
  ASSUME NEW p \in Int
  PROVE  SideOf(p) \in Side /\ Opposite(SideOf(p)) \in Side
  BY DEF SideOf, Opposite, Side

LEMMA ExecutedIsInt ==
  ASSUME NEW p \in Int, NEW o \in Order
  PROVE  Executed(p, o) \in Int
  <1>1. o.qty \in Int
    BY DEF Order
  <1> QED
    BY <1>1, SignedIsInt DEF Executed

LEMMA NewJobIsJob ==
  ASSUME NEW op \in Op, NEW s \in Symbols, NEW side \in Side,
         NEW q \in 0..MaxQty, NEW lev \in 1..125
  PROVE  /\ NewJob(op, s, side, q, lev) \in Job
         /\ NewJob(op, s, side, q, lev).op = op
         /\ NewJob(op, s, side, q, lev).symbol = s
         /\ NewJob(op, s, side, q, lev).qty = q
         /\ NewJob(op, s, side, q, lev).closing = 0
         /\ NewJob(op, s, side, q, lev).entering = 0
  BY DEF NewJob, Job, NoOrder, Order, Side

LEMMA NoJobIsJob == NoJob \in Job
  <1>1. (CHOOSE s \in Symbols : TRUE) \in Symbols
    <2>1. \E s \in Symbols : TRUE
      BY FuturesAssumption
    <2> QED
      BY <2>1, Zenon
  <1>2. 0 \in 0..MaxQty /\ 1 \in 1..125
    BY FuturesAssumption
  <1> QED
    BY <1>1, <1>2, NewJobIsJob DEF NoJob, Op, Side

(* The order of a job, typed: what PassChecks, ReadForClose and            *)
(* ReadForChange put into it.                                              *)
LEMMA OrderedJobIsJob ==
  ASSUME NEW j \in Job, NEW o \in Order, NEW x \in Int, NEW y \in Int,
         NEW n \in {"none", "opened", "closed"}
  PROVE  /\ [j EXCEPT !.order = o, !.closing = x, !.entering = y, !.notice = n] \in Job
         /\ [j EXCEPT !.order = o, !.entering = y, !.notice = n] \in Job
         /\ [j EXCEPT !.order = o, !.closing = x, !.notice = n] \in Job
         /\ [j EXCEPT !.order = o, !.closing = x, !.entering = y] \in Job
         /\ [j EXCEPT !.order = o, !.closing = x] \in Job
         /\ [j EXCEPT !.order = o, !.entering = y] \in Job
  BY DEF Job

-----------------------------------------------------------------------------
(* Type correctness. *)
LEMMA EndTypes ==
  ASSUME TypeOK, NEW c \in Calls, End(c)
  PROVE  /\ pc' \in [Calls -> Awaiting] /\ job' \in [Calls -> Job]
         /\ filled' \in [Calls -> Int]
         /\ stale' \in [Calls -> SUBSET {"position", "leverage"}]
  BY NoJobIsJob DEF TypeOK, End, Awaiting

LEMMA GotoTypes ==
  ASSUME TypeOK, NEW c \in Calls, NEW a \in Awaiting, NEW j \in Job, Goto(c, a, j)
  PROVE  /\ pc' \in [Calls -> Awaiting] /\ job' \in [Calls -> Job]
         /\ filled' \in [Calls -> Int]
  BY DEF TypeOK, Goto

LEMMA RefreshTypes ==
  ASSUME TypeOK, NEW c \in Calls, Refresh(c)
  PROVE  stale' \in [Calls -> SUBSET {"position", "leverage"}]
  BY DEF TypeOK, Refresh

LEMMA OutdateTypes ==
  ASSUME TypeOK, NEW s \in Symbols, NEW c \in Calls, NEW w \in {"position", "leverage"}
  PROVE  Outdate(s, c, w) \in [Calls -> SUBSET {"position", "leverage"}]
  BY DEF TypeOK, Outdate

LEMMA BeginTypes ==
  ASSUME TypeOK, NEW c \in Calls, NEW j \in Job, NEW a \in Awaiting, Begin(c, j, a)
  PROVE  TypeOK'
  BY DEF TypeOK, Begin, exchangeVars, auditVars

(* Every operation begins as one of five kinds of job. *)
Beginning(j, a) ==
  /\ j.closing = 0 /\ j.entering = 0
  /\ \/ a = "signal" /\ j.op \in {"signal", "signalClose"}
     \/ a = "leverage" /\ j.op = "open" /\ j.qty >= 1
     \/ a = "close" /\ j.op = "close"
     \/ a = "closeAll" /\ j.op = "closeAll"
     \/ a = "change" /\ j.op \in Changer /\ j.qty >= 1

LEMMA BeginsAs ==
  ASSUME NEW c \in Calls, NEW op \in Op, NEW s \in Symbols, NEW side \in Side,
         NEW q \in 0..MaxQty, NEW lev \in 1..125, NEW a \in Awaiting,
         Begin(c, NewJob(op, s, side, q, lev), a),
         \/ a = "signal" /\ op \in {"signal", "signalClose"}
         \/ a = "leverage" /\ op = "open" /\ q >= 1
         \/ a = "close" /\ op = "close"
         \/ a = "closeAll" /\ op = "closeAll"
         \/ a = "change" /\ op \in Changer /\ q >= 1
  PROVE  \E j \in Job, b \in Awaiting : Begin(c, j, b) /\ Beginning(j, b)
  <1>1. NewJob(op, s, side, q, lev) \in Job
    BY NewJobIsJob
  <1>2. Beginning(NewJob(op, s, side, q, lev), a)
    BY DEF Beginning, NewJob
  <1> QED
    BY <1>1, <1>2

LEMMA ArrivalBegins ==
  ASSUME NEW c \in Calls, Arrival(c)
  PROVE  \E j \in Job, a \in Awaiting : Begin(c, j, a) /\ Beginning(j, a)
  <1> DEFINE Goal == \E j \in Job, a \in Awaiting : Begin(c, j, a) /\ Beginning(j, a)
  <1>0. /\ 0 \in 0..MaxQty /\ 1 \in 1..125 /\ SignalLeverage \in 1..125
        /\ Leverages \subseteq 1..125 /\ "LONG" \in Side
    BY FuturesAssumption DEF Side
  <1>1. ASSUME NEW s \in Symbols, CloseSignalArrives(c, s)
        PROVE  Goal
    BY <1>0, <1>1, BeginsAs DEF CloseSignalArrives, Op, Awaiting, Changer
  <1>2. ASSUME NEW s \in Symbols, CloseAllPosition(c, s)
        PROVE  Goal
    BY <1>0, <1>2, BeginsAs DEF CloseAllPosition, Op, Awaiting, Changer
  <1>3. ASSUME NEW s \in Symbols, NEW q \in 0..MaxQty, ClosePosition(c, s, q)
        PROVE  Goal
    BY <1>0, <1>3, BeginsAs DEF ClosePosition, Op, Awaiting, Changer
  <1>4. ASSUME NEW s \in Symbols, NEW q \in 0..MaxQty, AddToPosition(c, s, q)
        PROVE  Goal
    BY <1>0, <1>4, BeginsAs DEF AddToPosition, Op, Awaiting, Changer
  <1>5. ASSUME NEW s \in Symbols, NEW q \in 0..MaxQty, ReducePosition(c, s, q)
        PROVE  Goal
    BY <1>0, <1>5, BeginsAs DEF ReducePosition, Op, Awaiting, Changer
  <1>6. ASSUME NEW s \in Symbols, NEW q \in 0..MaxQty, NEW side \in Side,
               SignalArrives(c, s, side, q)
        PROVE  Goal
    BY <1>0, <1>6, BeginsAs DEF SignalArrives, Op, Awaiting, Changer
  <1>7. ASSUME NEW s \in Symbols, NEW q \in 0..MaxQty, NEW side \in Side,
               SwitchPosition(c, s, side, q)
        PROVE  Goal
    BY <1>0, <1>7, BeginsAs DEF SwitchPosition, Op, Awaiting, Changer
  <1>8. ASSUME NEW s \in Symbols, NEW q \in 0..MaxQty, NEW side \in Side, NEW lev \in Leverages,
               OpenPosition(c, s, side, q, lev)
        PROVE  Goal
    BY <1>0, <1>8, BeginsAs DEF OpenPosition, ValidPositionInputs, Op, Awaiting, Changer
  <1> QED
    BY <1>1, <1>2, <1>3, <1>4, <1>5, <1>6, <1>7, <1>8 DEF Arrival

LEMMA OrderedJobs ==
  ASSUME NEW j \in Job, NEW p \in Int, p # 0
  PROVE  /\ SwitchOrder(j, p) \in Job /\ AddOrder(j, p) \in Job /\ ReduceOrder(j, p) \in Job
  <1>1. j.side \in Side /\ j.qty \in Nat /\ Abs(p) \in Nat /\ -p \in Int
    BY FuturesAssumption, AbsIsNat DEF Job
  <1>2. /\ SwitchParams(SideOf(p), Abs(p), j.qty) \in Order
        /\ AddParams(SideOf(p), j.qty) \in Order
        /\ ReduceParams(SideOf(p), j.qty) \in Order
    BY <1>1, SidesAreSides DEF Order, SwitchParams, AddParams, ReduceParams
  <1>3. /\ Signed(j.side, j.qty) \in Int /\ Signed(SideOf(p), j.qty) \in Int
        /\ Signed(Opposite(SideOf(p)), j.qty) \in Int
    BY <1>1, SignedIsInt
  <1> QED
    BY <1>1, <1>2, <1>3, OrderedJobIsJob DEF SwitchOrder, AddOrder, ReduceOrder

-----------------------------------------------------------------------------
(* The invariant of one call survives the steps of the others: a step that *)
(* moves what the call knows marks the call's knowledge stale.             *)
LEMMA Bystander ==
  ASSUME IInv, NEW d \in Calls,
         pc'[d] = pc[d], job'[d] = job[d], filled'[d] = filled[d],
         "position" \notin stale'[d] /\ pc[d] \notin {"idle", "placed"} =>
           /\ "position" \notin stale[d]
           /\ position'[job[d].symbol] = position[job[d].symbol],
         "leverage" \notin stale'[d] /\ pc[d] \notin {"idle", "placed"} =>
           /\ "leverage" \notin stale[d]
           /\ leverage'[job[d].symbol] = leverage[job[d].symbol],
         ~raced'[job[d].symbol] => ~raced[job[d].symbol]
  PROVE  CallInv(d)'
  <1>1. CallInv(d)
    BY DEF IInv
  <1>2. OpsMatch(d)'
    BY <1>1 DEF CallInv, OpsMatch
  <1>3. Knows(d)'
    BY <1>1 DEF CallInv, Knows
  <1>4. Reports(d)'
    BY <1>1 DEF CallInv, Reports
  <1>5. Honours(d)'
    BY <1>1 DEF CallInv, Honours
  <1> QED
    BY <1>2, <1>3, <1>4, <1>5 DEF CallInv

(* An idle call satisfies its invariant. *)
LEMMA IdleCall ==
  ASSUME NEW c \in Calls, pc'[c] = "idle"
  PROVE  CallInv(c)'
  BY DEF CallInv, OpsMatch, Knows, Reports, Honours

(* The call ends without touching the exchange or the audit. *)
LEMMA EndKeepsIInv ==
  ASSUME IInv, NEW c \in Calls, End(c), UNCHANGED <<exchangeVars, auditVars, boundVars>>
  PROVE  IInv'
  <1>1. TypeOK'
    BY EndTypes DEF IInv, TypeOK, exchangeVars, auditVars, boundVars
  <1>2. BooksBalance'
    BY DEF IInv, BooksBalance, exchangeVars, auditVars
  <1>3. ASSUME NEW d \in Calls PROVE CallInv(d)'
    <2>1. CASE d = c
      <3>1. pc'[c] = "idle"
        BY DEF End, IInv, TypeOK
      <3> QED
        BY <2>1, <3>1, IdleCall
    <2>2. CASE d # c
      <3>1. /\ pc'[d] = pc[d] /\ job'[d] = job[d] /\ filled'[d] = filled[d]
            /\ stale'[d] = stale[d]
        BY <2>2 DEF End, IInv, TypeOK
      <3> QED
        BY <3>1, Bystander DEF exchangeVars, auditVars
    <2> QED
      BY <2>1, <2>2
  <1> QED
    BY <1>1, <1>2, <1>3 DEF IInv

(* A call goes on to its next await with knowledge it has just read or     *)
(* already had: the others are untouched.                                  *)
LEMMA GotoKeepsIInv ==
  ASSUME IInv, NEW c \in Calls, NEW a \in Awaiting, NEW j \in Job, Goto(c, a, j),
         Refresh(c) \/ UNCHANGED stale,
         UNCHANGED <<exchangeVars, auditVars, boundVars>>,
         CallInv(c)'
  PROVE  IInv'
  <1>1. TypeOK'
    BY GotoTypes, RefreshTypes DEF IInv, TypeOK, exchangeVars, auditVars, boundVars
  <1>2. BooksBalance'
    BY DEF IInv, BooksBalance, exchangeVars, auditVars
  <1>3. ASSUME NEW d \in Calls PROVE CallInv(d)'
    <2>1. CASE d = c
      BY <2>1
    <2>2. CASE d # c
      <3>1. /\ pc'[d] = pc[d] /\ job'[d] = job[d] /\ filled'[d] = filled[d]
            /\ stale'[d] = stale[d]
        BY <2>2 DEF Goto, Refresh, IInv, TypeOK
      <3> QED
        BY <3>1, Bystander DEF exchangeVars, auditVars
    <2> QED
      BY <2>1, <2>2
  <1> QED
    BY <1>1, <1>2, <1>3 DEF IInv

LEMMA ArrivalKeepsIInv ==
  ASSUME IInv, NEW c \in Calls, Arrival(c)
  PROVE  IInv'
  <1>1. PICK j \in Job, a \in Awaiting : Begin(c, j, a) /\ Beginning(j, a)
    BY ArrivalBegins
  <1>2. TypeOK'
    BY <1>1, BeginTypes DEF IInv
  <1>3. BooksBalance'
    BY <1>1 DEF IInv, BooksBalance, Begin, exchangeVars, auditVars
  <1>4. ASSUME NEW d \in Calls PROVE CallInv(d)'
    <2>1. CASE d = c
      <3>1. pc'[c] = a /\ job'[c] = j
        BY <1>1 DEF Begin, IInv, TypeOK
      <3> QED
        BY <2>1, <3>1, <1>1
        DEF Beginning, CallInv, OpsMatch, Knows, Reports, Honours, Closer, Opener, CloserOfAll
    <2>2. CASE d # c
      <3>1. /\ pc'[d] = pc[d] /\ job'[d] = job[d] /\ filled'[d] = filled[d]
            /\ stale'[d] = stale[d]
        BY <1>1, <2>2 DEF Begin, IInv, TypeOK
      <3> QED
        BY <1>1, <3>1, Bystander DEF Begin, exchangeVars, auditVars
    <2> QED
      BY <2>1, <2>2
  <1> QED
    BY <1>2, <1>3, <1>4 DEF IInv

(* What GotoKeepsIInv asks of the call itself, for the read-only awaits. *)
LEMMA GotoState ==
  ASSUME TypeOK, NEW c \in Calls, NEW a, NEW j, Goto(c, a, j)
  PROVE  /\ pc'[c] = a /\ job'[c] = j /\ filled'[c] = filled[c]
         /\ Refresh(c) => stale'[c] = {}
  BY DEF Goto, Refresh, TypeOK

LEMMA SignalKeepsIInv ==
  ASSUME IInv, NEW c \in Calls, SignalRead(c) \/ SignalReadFails(c)
  PROVE  IInv'
  <1> DEFINE p == position[job[c].symbol]
  <1>1. PICK held \in BOOLEAN, sure \in BOOLEAN :
          DecideOnSignal(c, held, sure) /\ (sure => (held <=> p # 0))
    <2>1. CASE SignalRead(c)
      <3>1. (p # 0) \in BOOLEAN /\ TRUE \in BOOLEAN /\ DecideOnSignal(c, p # 0, TRUE)
        BY <2>1 DEF SignalRead
      <3> QED
        BY <3>1
    <2>2. CASE SignalReadFails(c)
      <3>1. DecideOnSignal(c, FALSE, FALSE)
        BY <2>2 DEF SignalReadFails
      <3> QED
        BY <3>1
    <2> QED
      BY <2>1, <2>2
  <1>2. TypeOK /\ job[c] \in Job /\ OpsMatch(c) /\ pc[c] = "signal"
    BY <1>1 DEF IInv, TypeOK, CallInv, DecideOnSignal
  <1>3. UNCHANGED <<exchangeVars, auditVars, boundVars>>
    BY <1>1 DEF DecideOnSignal
  <1>4. CASE End(c)
    BY <1>3, <1>4, EndKeepsIInv
  <1>5. CASE /\ job[c].op = "signal" /\ ~held /\ ValidPositionInputs(job[c].qty)
             /\ Goto(c, "leverage", [job[c] EXCEPT !.sure = sure]) /\ Refresh(c)
    <2> DEFINE j == [job[c] EXCEPT !.sure = sure]
    <2>1. /\ j \in Job /\ j.op = "signal" /\ j.qty = job[c].qty /\ j.sure = sure
          /\ j.symbol = job[c].symbol /\ j.closing = 0 /\ j.entering = 0
      BY <1>2, <1>5 DEF Job, OpsMatch
    <2>2. pc'[c] = "leverage" /\ job'[c] = j
      BY <1>2, <1>5, GotoState
    <2>3. position' = position /\ j.qty >= 1 /\ (sure => p = 0)
      BY <1>1, <1>3, <1>5, <2>1 DEF exchangeVars, ValidPositionInputs
    <2> HIDE DEF j
    <2>4. CallInv(c)'
      BY <2>1, <2>2, <2>3 DEF CallInv, OpsMatch, Knows, Reports, Honours, Opener
    <2> QED
      BY <1>3, <1>5, <2>1, <2>4, GotoKeepsIInv DEF j, Awaiting
  <1>6. CASE job[c].op = "signalClose" /\ Goto(c, "closeAll", job[c]) /\ Refresh(c)
    <2>1. pc'[c] = "closeAll" /\ job'[c] = job[c]
      BY <1>2, <1>6, GotoState
    <2>2. CallInv(c)'
      BY <1>2, <1>6, <2>1 DEF CallInv, OpsMatch, Knows, Reports, Honours, CloserOfAll
    <2> QED
      BY <1>2, <1>3, <1>6, <2>2, GotoKeepsIInv DEF Awaiting
  <1> QED
    BY <1>1, <1>4, <1>5, <1>6 DEF DecideOnSignal

LEMMA PassChecksKeepsIInv ==
  ASSUME IInv, NEW c \in Calls, PassChecks(c)
  PROVE  IInv'
  <1> DEFINE o == [side |-> job[c].side, qty |-> job[c].qty, reduceOnly |-> FALSE]
             x == Signed(job[c].side, job[c].qty)
             j == [job[c] EXCEPT !.order = o, !.entering = x, !.notice = "opened"]
             p == position[job[c].symbol]
  <1>1. /\ TypeOK /\ job[c] \in Job /\ CallInv(c) /\ pc[c] = "checks"
        /\ Goto(c, "placing", j) /\ UNCHANGED stale
        /\ UNCHANGED <<exchangeVars, auditVars, boundVars>>
    BY DEF IInv, TypeOK, PassChecks
  <1>2. o \in Order /\ x \in Int /\ p \in Int
    <2>1. /\ job[c].qty \in Nat /\ job[c].qty \in Int /\ job[c].side \in Side
          /\ job[c].symbol \in Symbols
      BY <1>1, FuturesAssumption DEF Job
    <2>2. o \in Order
      BY <2>1 DEF Order
    <2>3. x \in Int
      BY <2>1, SignedIsInt
    <2>4. p \in Int
      BY <1>1, <2>1 DEF TypeOK
    <2> QED
      BY <2>2, <2>3, <2>4
  <1>3. j \in Job
    <2> HIDE DEF o, x
    <2> QED
      BY <1>1, <1>2 DEF Job
  <1>4. /\ j.op = job[c].op /\ j.symbol = job[c].symbol /\ j.qty = job[c].qty
        /\ j.side = job[c].side /\ j.sure = job[c].sure /\ j.lev = job[c].lev
        /\ j.order = o /\ j.closing = job[c].closing /\ j.entering = x
    BY <1>1 DEF Job
  <1>5. /\ job[c].closing = 0 /\ job[c].op \in Opener
        /\ "position" \notin stale[c] /\ job[c].op = "signal" /\ job[c].sure => p = 0
    BY <1>1 DEF CallInv, OpsMatch, Knows
  <1>6. pc'[c] = "placing" /\ job'[c] = j /\ position' = position /\ stale' = stale
        /\ leverage' = leverage
    BY <1>1, GotoState DEF exchangeVars
  <1>7. Executed(p, o) = x
    BY DEF Executed
  <1>8. CallInv(c)'
    <2> HIDE DEF j, o, x
    <2>1. OpsMatch(c)'
      BY <1>4, <1>5, <1>6 DEF OpsMatch, Opener
    <2>2. Knows(c)'
      BY <1>2, <1>4, <1>5, <1>6, <1>7 DEF Knows, Promise, Opener, CloserOfAll, x
    <2>3. Reports(c)' /\ Honours(c)'
      BY <1>1, <1>4, <1>6 DEF Reports, Honours, CallInv
    <2> QED
      BY <2>1, <2>2, <2>3 DEF CallInv
  <1> QED
    BY <1>1, <1>3, <1>8, GotoKeepsIInv DEF Awaiting

LEMMA ReadForCloseAllKeepsIInv ==
  ASSUME IInv, NEW c \in Calls, ReadForCloseAll(c)
  PROVE  IInv'
  <1> DEFINE p == position[job[c].symbol]
             j == [job[c] EXCEPT !.closeQty = Abs(p)]
  <1>1. /\ TypeOK /\ job[c] \in Job /\ CallInv(c) /\ pc[c] = "closeAll"
        /\ UNCHANGED <<exchangeVars, auditVars, boundVars>>
        /\ End(c) \/ (p # 0 /\ Goto(c, "close", j) /\ Refresh(c))
    BY DEF IInv, TypeOK, ReadForCloseAll
  <1>2. CASE End(c)
    BY <1>1, <1>2, EndKeepsIInv
  <1>3. CASE p # 0 /\ Goto(c, "close", j) /\ Refresh(c)
    <2>1. p \in Int /\ Abs(p) \in Nat
      BY <1>1, AbsIsNat DEF TypeOK, Job
    <2>2. /\ j \in Job /\ j.op = job[c].op /\ j.symbol = job[c].symbol
          /\ j.closeQty = Abs(p) /\ j.closing = job[c].closing
          /\ j.entering = job[c].entering
      BY <1>1, <2>1 DEF Job
    <2>3. pc'[c] = "close" /\ job'[c] = j /\ position' = position
      BY <1>1, <1>3, GotoState DEF exchangeVars
    <2> HIDE DEF j
    <2>4. CallInv(c)'
      BY <1>1, <1>3, <2>2, <2>3
      DEF CallInv, OpsMatch, Knows, Reports, Honours, Closer, CloserOfAll, Opener
    <2> QED
      BY <1>1, <1>3, <2>2, <2>4, GotoKeepsIInv DEF Awaiting, j
  <1> QED
    BY <1>1, <1>2, <1>3

LEMMA FailKeepsIInv ==
  ASSUME IInv, NEW c \in Calls, Fail(c)
  PROVE  IInv'
  BY EndKeepsIInv DEF Fail

(* The close order moves the position towards zero, all the way when it    *)
(* carries the whole size or no quantity.                                  *)
LEMMA CloseOrder ==
  ASSUME NEW p \in Int, p # 0, NEW q \in Nat, q <= Abs(p)
  PROVE  LET side == Opposite(SideOf(p))
             o == [side |-> side, qty |-> q, reduceOnly |-> q = 0]
             x == IF q = 0 THEN -p ELSE Signed(side, q)
         IN  /\ o \in Order /\ x \in Int /\ Executed(p, o) = x
             /\ (0 <= p + x /\ p + x < p) \/ (p < p + x /\ p + x <= 0)
             /\ q = 0 \/ q = Abs(p) => p + x = 0
  <1> DEFINE side == Opposite(SideOf(p))
             o == [side |-> side, qty |-> q, reduceOnly |-> q = 0]
  <1>1. o \in Order
    BY SidesAreSides DEF Order
  <1>2. CASE q = 0
    <2>1. SideOf(p) # side
      BY DEF Opposite, SideOf
    <2>2. o.reduceOnly /\ o.side = side /\ o.qty = 0
      BY <1>2
    <2>3. Executed(p, o) = -p
      BY <2>1, <2>2 DEF Executed
    <2> HIDE DEF o, side
    <2>4. /\ (0 <= p + (-p) /\ p + (-p) < p) \/ (p < p + (-p) /\ p + (-p) <= 0)
          /\ p + (-p) = 0 /\ -p \in Int
      OBVIOUS
    <2> QED
      BY <1>1, <1>2, <2>3, <2>4 DEF o, side
  <1>3. CASE q # 0
    BY <1>1, <1>3 DEF Executed, Opposite, SideOf, Signed, Abs
  <1> QED
    BY <1>2, <1>3

LEMMA ReadForCloseKeepsIInv ==
  ASSUME IInv, NEW c \in Calls, ReadForClose(c)
  PROVE  IInv'
  <1> DEFINE p == position[job[c].symbol]
             q == IF job[c].op = "close" THEN job[c].qty ELSE job[c].closeQty
             side == Opposite(SideOf(p))
             o == [side |-> side, qty |-> q, reduceOnly |-> q = 0]
             x == IF q = 0 THEN -p ELSE Signed(side, q)
             j == [job[c] EXCEPT !.order = o, !.closing = x, !.notice = "closed"]
  <1>1. /\ TypeOK /\ job[c] \in Job /\ CallInv(c) /\ pc[c] = "close"
        /\ UNCHANGED <<exchangeVars, auditVars, boundVars>>
    BY DEF IInv, TypeOK, ReadForClose
  <1>2. \/ End(c)
        \/ /\ p # 0 /\ q <= Abs(p) /\ Goto(c, "placing", j)
           /\ IF job[c].op = "close" THEN Refresh(c) ELSE UNCHANGED stale
    BY DEF ReadForClose
  <1>3. CASE End(c)
    BY <1>1, <1>3, EndKeepsIInv
  <1>4. CASE /\ p # 0 /\ q <= Abs(p) /\ Goto(c, "placing", j)
             /\ IF job[c].op = "close" THEN Refresh(c) ELSE UNCHANGED stale
    <2>1. /\ p \in Int /\ q \in Nat /\ job[c].qty \in Nat
          /\ job[c].op \in Closer /\ job[c].entering = 0
      BY <1>1, FuturesAssumption DEF TypeOK, Job, CallInv, OpsMatch
    <2>2. /\ o \in Order /\ x \in Int /\ Executed(p, o) = x
          /\ (0 <= p + x /\ p + x < p) \/ (p < p + x /\ p + x <= 0)
          /\ q = 0 \/ q = Abs(p) => p + x = 0
          /\ o.reduceOnly = (q = 0)
      BY <1>4, <2>1, CloseOrder
    <2>3. job[c].op = "close" => q = job[c].qty
      OBVIOUS
    <2>4. job[c].op \in CloserOfAll /\ "position" \notin stale[c] => q = Abs(p)
      BY <1>1 DEF CallInv, Knows, CloserOfAll
    <2> HIDE DEF o, x, q, p
    <2>5. /\ j \in Job /\ j.op = job[c].op /\ j.symbol = job[c].symbol /\ j.qty = job[c].qty
          /\ j.order = o /\ j.closing = x /\ j.entering = job[c].entering
      BY <1>1, <2>2 DEF Job
    <2>6. pc'[c] = "placing" /\ job'[c] = j
      BY <1>1, <1>4, GotoState
    <2>7. position'[job[c].symbol] = p
      BY <1>1 DEF exchangeVars, p
    <2>8. job[c].op \in CloserOfAll => stale' = stale
      BY <1>4 DEF CloserOfAll
    <2> HIDE DEF j
    <2>9. OpsMatch(c)' /\ Reports(c)' /\ Honours(c)'
      BY <2>1, <2>2, <2>3, <2>5, <2>6
      DEF OpsMatch, Reports, Honours, Opener, Closer, CloserOfAll
    <2>10. Knows(c)'
      <3> SUFFICES ASSUME "position" \notin stale'[c]
                   PROVE  Promise(j, p, p + x) /\ x = x + j.entering
        BY <2>2, <2>5, <2>6, <2>7 DEF Knows
      <3>1. job[c].op \in CloserOfAll => p + x = 0
        BY <2>2, <2>4, <2>8
      <3> QED
        BY <2>1, <2>2, <2>3, <2>5, <3>1 DEF Promise, Closer, CloserOfAll
    <2> QED
      <3>1. CallInv(c)' /\ (Refresh(c) \/ UNCHANGED stale) /\ Goto(c, "placing", j)
        BY <1>4, <2>9, <2>10 DEF CallInv, j
      <3> QED
        BY <1>1, <2>5, <3>1, GotoKeepsIInv DEF Awaiting
  <1> QED
    BY <1>2, <1>3, <1>4

(* The fields the three orders of ReadForChange set and leave alone. *)
LEMMA ChangeOrders ==
  ASSUME NEW j \in Job, NEW p \in Int, p # 0,
         NEW k \in {SwitchOrder(j, p), AddOrder(j, p), ReduceOrder(j, p)}
  PROVE  /\ k \in Job /\ k.op = j.op /\ k.symbol = j.symbol
         /\ k.qty = j.qty /\ k.side = j.side
         /\ k = SwitchOrder(j, p) =>
              /\ k.order = SwitchParams(SideOf(p), Abs(p), j.qty)
              /\ k.closing = -p /\ k.entering = Signed(j.side, j.qty)
         /\ k = AddOrder(j, p) =>
              /\ k.order = AddParams(SideOf(p), j.qty)
              /\ k.closing = j.closing /\ k.entering = Signed(SideOf(p), j.qty)
         /\ k = ReduceOrder(j, p) =>
              /\ k.order = ReduceParams(SideOf(p), j.qty)
              /\ k.closing = Signed(Opposite(SideOf(p)), j.qty) /\ k.entering = j.entering
  <1>1. k \in Job
    BY OrderedJobs
  <1>2. CASE k = SwitchOrder(j, p)
    BY <1>1, <1>2 DEF SwitchOrder, AddOrder, ReduceOrder, Job
  <1>3. CASE k = AddOrder(j, p)
    BY <1>1, <1>3 DEF SwitchOrder, AddOrder, ReduceOrder, Job
  <1>4. CASE k = ReduceOrder(j, p)
    BY <1>1, <1>4 DEF SwitchOrder, AddOrder, ReduceOrder, Job
  <1> QED
    BY <1>2, <1>3, <1>4

LEMMA ReadForChangeKeepsIInv ==
  ASSUME IInv, NEW c \in Calls, ReadForChange(c)
  PROVE  IInv'
  <1> DEFINE p == position[job[c].symbol]
  <1>1. /\ TypeOK /\ job[c] \in Job /\ CallInv(c) /\ pc[c] = "change"
        /\ UNCHANGED <<exchangeVars, auditVars, boundVars>>
    BY DEF IInv, TypeOK, ReadForChange
  <1>2. CASE End(c)
    BY <1>1, <1>2, EndKeepsIInv
  <1>3. ASSUME NEW k \in {SwitchOrder(job[c], p), AddOrder(job[c], p), ReduceOrder(job[c], p)},
               p # 0, Goto(c, "placing", k), Refresh(c),
               \/ job[c].op = "switch" /\ SideOf(p) # job[c].side
                  /\ k = SwitchOrder(job[c], p)
               \/ job[c].op = "add" /\ k = AddOrder(job[c], p)
               \/ job[c].op = "reduce" /\ job[c].qty < Abs(p)
                  /\ k = ReduceOrder(job[c], p)
        PROVE  IInv'
    <2> DEFINE q == job[c].qty
               x == Executed(p, k.order)
    <2>1. /\ p \in Int /\ q \in Nat /\ q >= 1 /\ job[c].side \in Side
          /\ job[c].closing = 0 /\ job[c].entering = 0
      BY <1>1, FuturesAssumption DEF TypeOK, Job, CallInv, OpsMatch
    <2>2. /\ k \in Job /\ k.op = job[c].op /\ k.symbol = job[c].symbol
          /\ k.qty = q /\ k.side = job[c].side
      BY <1>1, <1>3, <2>1, ChangeOrders
    <2>3. pc'[c] = "placing" /\ job'[c] = k /\ position'[job[c].symbol] = p
      BY <1>1, <1>3, GotoState DEF exchangeVars
    <2>4. /\ Promise(k, p, p + x) /\ x = k.closing + k.entering
          /\ k.op \in {"switch", "add", "reduce"}
          /\ k.op = "reduce" => k.order.reduceOnly
      <3>1. CASE job[c].op = "switch" /\ SideOf(p) # job[c].side /\ k = SwitchOrder(job[c], p)
        <4>1. /\ k.order = [side |-> job[c].side, qty |-> Abs(p) + q, reduceOnly |-> FALSE]
              /\ k.closing = -p /\ k.entering = Signed(job[c].side, q)
          <5>1. Opposite(SideOf(p)) = job[c].side
            BY <2>1, <3>1 DEF Opposite, SideOf, Side
          <5> QED
            BY <1>1, <1>3, <2>1, <3>1, <5>1, ChangeOrders DEF SwitchParams
        <4>2. x = Signed(job[c].side, Abs(p) + q)
          BY <4>1 DEF Executed
        <4>3. Signed(job[c].side, Abs(p) + q) = (-p) + Signed(job[c].side, q)
          BY <2>1, <3>1 DEF Signed, Abs, SideOf, Side
        <4>4. x = k.closing + k.entering /\ p + x = Signed(job[c].side, q)
          BY <2>1, <4>1, <4>2, <4>3, SignedIsInt
        <4> QED
          BY <2>2, <3>1, <4>4 DEF Promise, CloserOfAll
      <3>2. CASE job[c].op = "add" /\ k = AddOrder(job[c], p)
        <4>1. /\ k.order = [side |-> SideOf(p), qty |-> q, reduceOnly |-> FALSE]
              /\ k.closing = 0 /\ k.entering = Signed(SideOf(p), q)
          BY <1>1, <1>3, <2>1, <3>2, ChangeOrders DEF AddParams
        <4>2. x = Signed(SideOf(p), q)
          BY <4>1 DEF Executed
        <4>3. /\ SideOf(p + Signed(SideOf(p), q)) = SideOf(p)
              /\ Abs(p + Signed(SideOf(p), q)) = Abs(p) + q
          BY <1>3, <2>1 DEF Signed, Abs, SideOf
        <4>4. x = k.closing + k.entering
          BY <2>1, <4>1, <4>2, SignedIsInt
        <4> QED
          BY <2>2, <3>2, <4>2, <4>3, <4>4 DEF Promise, CloserOfAll
      <3>3. CASE job[c].op = "reduce" /\ q < Abs(p) /\ k = ReduceOrder(job[c], p)
        <4>1. /\ k.order = [side |-> Opposite(SideOf(p)), qty |-> q, reduceOnly |-> TRUE]
              /\ k.closing = Signed(Opposite(SideOf(p)), q) /\ k.entering = 0
          BY <1>1, <1>3, <2>1, <3>3, ChangeOrders DEF ReduceParams
        <4>2. SideOf(p) # Opposite(SideOf(p)) /\ ~(q = 0 \/ q > Abs(p))
          BY <2>1, <3>3, AbsIsNat DEF SideOf, Opposite
        <4>3. x = Signed(Opposite(SideOf(p)), q)
          BY <1>3, <4>1, <4>2 DEF Executed
        <4>4. /\ SideOf(p + Signed(Opposite(SideOf(p)), q)) = SideOf(p)
              /\ Abs(p + Signed(Opposite(SideOf(p)), q)) = Abs(p) - q
          BY <2>1, <3>3 DEF Signed, Abs, SideOf, Opposite
        <4>5. x = k.closing + k.entering
          BY <2>1, <4>1, <4>3, SignedIsInt
        <4> QED
          BY <2>2, <3>3, <4>1, <4>3, <4>4, <4>5 DEF Promise, CloserOfAll
      <3> QED
        BY <1>3, <3>1, <3>2, <3>3
    <2>5. CallInv(c)'
      <3>1. OpsMatch(c)' /\ Reports(c)' /\ Honours(c)'
        BY <2>3, <2>4 DEF OpsMatch, Reports, Honours, Opener
      <3>2. Knows(c)'
        BY <2>2, <2>3, <2>4 DEF Knows
      <3> QED
        BY <3>1, <3>2 DEF CallInv
    <2> QED
      BY <1>1, <1>3, <2>2, <2>5, GotoKeepsIInv DEF Awaiting
  <1>4. /\ p \in Int /\ job[c].qty \in Nat /\ Abs(p) \in Nat
    <2>1. p \in Int /\ job[c].qty \in Nat
      BY <1>1, FuturesAssumption DEF TypeOK, Job
    <2> QED
      BY <2>1, AbsIsNat
  <1> QED
    BY <1>2, <1>3, <1>4 DEF ReadForChange

(* A change of the symbol's leverage marks every other open on it. *)
LEMMA OutdateMarks ==
  ASSUME TypeOK, NEW s \in Symbols, NEW c \in Calls, NEW w, NEW d \in Calls, d # c
  PROVE  /\ stale[d] \subseteq Outdate(s, c, w)[d]
         /\ Outdate(s, c, w)[d] \subseteq stale[d] \cup {w}
         /\ pc[d] \notin {"idle", "placed"} /\ job[d].symbol = s => w \in Outdate(s, c, w)[d]
  BY DEF TypeOK, Outdate

LEMMA LeverageKeepsIInv ==
  ASSUME IInv, NEW c \in Calls, SetLeverage(c) \/ SetLeverageReplyLost(c)
  PROVE  IInv'
  <1> DEFINE s == job[c].symbol
             out == Outdate(s, c, "leverage")
  <1>1. /\ TypeOK /\ job[c] \in Job /\ CallInv(c) /\ pc[c] = "leverage"
        /\ s \in Symbols /\ job[c].lev \in 1..125
        /\ leverage' = [leverage EXCEPT ![s] = job[c].lev]
        /\ UNCHANGED <<position, auditVars, boundVars>> /\ filled' = filled
    BY DEF IInv, TypeOK, Job, SetLeverage, SetLeverageReplyLost, Goto
  <1>2. \/ /\ stale' = [out EXCEPT ![c] = @ \ {"leverage"}]
           /\ Goto(c, "checks", job[c])
        \/ /\ stale' = [out EXCEPT ![c] = {}]
           /\ pc' = [pc EXCEPT ![c] = "idle"] /\ job' = [job EXCEPT ![c] = NoJob]
    BY DEF SetLeverage, SetLeverageReplyLost
  <1>3. out \in [Calls -> SUBSET {"position", "leverage"}]
    BY <1>1, OutdateTypes
  <1>4. TypeOK'
    <2>1. /\ pc' \in [Calls -> Awaiting] /\ job' \in [Calls -> Job]
          /\ stale' \in [Calls -> SUBSET {"position", "leverage"}]
      BY <1>1, <1>2, <1>3, NoJobIsJob DEF TypeOK, Goto, Awaiting
    <2> QED
      BY <1>1, <2>1 DEF TypeOK, auditVars, boundVars
  <1>5. BooksBalance'
    BY <1>1 DEF IInv, BooksBalance, auditVars
  <1>6. ASSUME NEW d \in Calls PROVE CallInv(d)'
    <2>1. CASE d = c
      <3>1. CASE pc'[c] = "idle"
        BY <2>1, <3>1, IdleCall
      <3>2. CASE /\ stale' = [out EXCEPT ![c] = @ \ {"leverage"}]
                 /\ Goto(c, "checks", job[c])
        <4>1. pc'[c] = "checks" /\ job'[c] = job[c]
          BY <1>1, <3>2, GotoState
        <4>2. out[c] = stale[c]
          BY <1>1 DEF Outdate
        <4>3. "position" \notin stale'[c] => "position" \notin stale[c]
          BY <1>3, <3>2, <4>2
        <4>4. leverage'[s] = job[c].lev
          BY <1>1 DEF TypeOK
        <4> QED
          BY <1>1, <2>1, <4>1, <4>3, <4>4
          DEF CallInv, OpsMatch, Knows, Reports, Honours
      <3> QED
        BY <1>1, <1>2, <3>1, <3>2 DEF TypeOK
    <2>2. CASE d # c
      <3>1. /\ pc'[d] = pc[d] /\ job'[d] = job[d] /\ filled'[d] = filled[d]
        BY <1>1, <1>2, <2>2 DEF Goto, TypeOK
      <3>2. stale'[d] = out[d]
        BY <1>2, <1>3, <2>2
      <3>3. /\ stale[d] \subseteq out[d]
            /\ pc[d] \notin {"idle", "placed"} /\ job[d].symbol = s => "leverage" \in out[d]
        BY <1>1, <2>2, OutdateMarks
      <3>4. job[d].symbol # s => leverage'[job[d].symbol] = leverage[job[d].symbol]
        BY <1>1 DEF TypeOK
      <3>5. /\ "position" \notin stale'[d] =>
                 "position" \notin stale[d] /\ position'[job[d].symbol] = position[job[d].symbol]
            /\ "leverage" \notin stale'[d] /\ pc[d] \notin {"idle", "placed"} =>
                 "leverage" \notin stale[d] /\ leverage'[job[d].symbol] = leverage[job[d].symbol]
            /\ ~raced'[job[d].symbol] => ~raced[job[d].symbol]
        BY <1>1, <3>2, <3>3, <3>4 DEF auditVars
      <3> QED
        BY <3>1, <3>5, Bystander
    <2> QED
      BY <2>1, <2>2
  <1> QED
    BY <1>4, <1>5, <1>6 DEF IInv

LEMMA ExecuteKeepsIInv ==
  ASSUME IInv, NEW c \in Calls, Execute(c)
  PROVE  IInv'
  <1> DEFINE s == job[c].symbol
             x == Executed(position[s], job[c].order)
             out == Outdate(s, c, "position")
  <1>1. /\ TypeOK /\ job[c] \in Job /\ CallInv(c) /\ pc[c] = "placing"
        /\ s \in Symbols /\ job[c].order \in Order /\ position[s] \in Int
        /\ BooksBalance
    BY DEF IInv, TypeOK, Job, Execute
  <1>2. x \in Int
    BY <1>1, ExecutedIsInt
  <1> HIDE DEF x
  <1>3. /\ position' = [position EXCEPT ![s] = @ + x]
        /\ filled' = [filled EXCEPT ![c] = x]
        /\ unseen' = [unseen EXCEPT ![s] = @ + x]
        /\ raced' = [raced EXCEPT ![s] = @ \/ "position" \in stale[c]]
        /\ stale' = [out EXCEPT ![c] = {}]
        /\ pc' = [pc EXCEPT ![c] = "placed"]
        /\ UNCHANGED <<leverage, job, ledger, missed, boundVars>>
    BY DEF Execute, x
  <1>4. out \in [Calls -> SUBSET {"position", "leverage"}]
    BY <1>1, OutdateTypes
  <1>5. raced' \in [Symbols -> BOOLEAN]
    <2>1. (raced[s] \/ "position" \in stale[c]) \in BOOLEAN
      OBVIOUS
    <2> QED
      BY <1>1, <1>3, <2>1, Zenon DEF TypeOK
  <1>6. TypeOK'
    <2>1. /\ position' \in [Symbols -> Int] /\ unseen' \in [Symbols -> Int]
          /\ filled' \in [Calls -> Int] /\ pc' \in [Calls -> Awaiting]
      BY <1>1, <1>2, <1>3 DEF TypeOK, Awaiting
    <2>2. stale' \in [Calls -> SUBSET {"position", "leverage"}]
      BY <1>3, <1>4
    <2> QED
      BY <1>1, <1>3, <1>5, <2>1, <2>2 DEF TypeOK, boundVars
  <1>7. \A t \in Symbols : ~raced'[t] => ~raced[t]
    BY <1>1, <1>3 DEF TypeOK
  <1>8. ~raced'[s] => "position" \notin stale[c]
    BY <1>1, <1>3 DEF TypeOK
  <1>9. BooksBalance'
    <2> SUFFICES ASSUME NEW t \in Symbols, ~raced'[t]
                 PROVE  position'[t] = ledger'[t] + unseen'[t]
      BY DEF BooksBalance
    <2>1. position[t] = ledger[t] + unseen[t]
      BY <1>1, <1>7 DEF BooksBalance
    <2>2. CASE t = s
      BY <1>1, <1>2, <1>3, <2>1, <2>2 DEF TypeOK
    <2>3. CASE t # s
      BY <1>1, <1>3, <2>1, <2>3 DEF TypeOK
    <2> QED
      BY <2>2, <2>3
  <1>10. ASSUME NEW d \in Calls PROVE CallInv(d)'
    <2>1. CASE d = c
      <3>1. pc'[c] = "placed" /\ job'[c] = job[c] /\ filled'[c] = x
        BY <1>1, <1>2, <1>3 DEF TypeOK
      <3>2. "position" \notin stale[c] => x = job[c].closing + job[c].entering
        BY <1>1 DEF CallInv, Knows, x
      <3>3. Reports(c)'
        BY <1>8, <3>1, <3>2 DEF Reports
      <3> QED
        BY <2>1, <3>1, <3>3 DEF CallInv, OpsMatch, Knows, Honours
    <2>2. CASE d # c
      <3>1. pc'[d] = pc[d] /\ job'[d] = job[d] /\ filled'[d] = filled[d] /\ stale'[d] = out[d]
        BY <1>1, <1>3, <1>4, <2>2 DEF TypeOK
      <3>2. /\ stale[d] \subseteq out[d]
            /\ pc[d] \notin {"idle", "placed"} /\ job[d].symbol = s => "position" \in out[d]
        BY <1>1, <2>2, OutdateMarks
      <3>3. job[d].symbol # s => position'[job[d].symbol] = position[job[d].symbol]
        BY <1>1, <1>3 DEF TypeOK
      <3>4. job[d].symbol \in Symbols
        BY <1>1 DEF TypeOK, Job
      <3> QED
        BY <1>3, <1>7, <3>1, <3>2, <3>3, <3>4, Bystander
    <2> QED
      BY <2>1, <2>2
  <1> QED
    BY <1>6, <1>9, <1>10 DEF IInv

LEMMA ReplyKeepsIInv ==
  ASSUME IInv, NEW c \in Calls, Reply(c) \/ ReplyLost(c)
  PROVE  IInv'
  <1> DEFINE s == job[c].symbol
             reported == job[c].closing + job[c].entering
  <1>1. /\ TypeOK /\ job[c] \in Job /\ CallInv(c) /\ pc[c] = "placed"
        /\ s \in Symbols /\ job[c].closing \in Int /\ job[c].entering \in Int
        /\ filled[c] \in Int /\ BooksBalance
        /\ End(c) /\ UNCHANGED <<exchangeVars, raced, boundVars>>
    BY DEF IInv, TypeOK, Job, Reply, ReplyLost
  <1>2. \/ /\ ledger' = [ledger EXCEPT ![s] = @ + job[c].closing + job[c].entering]
           /\ unseen' = [unseen EXCEPT ![s] = @ - filled[c]]
           /\ UNCHANGED missed
        \/ /\ missed' = [missed EXCEPT ![s] = TRUE]
           /\ UNCHANGED <<ledger, unseen>>
    BY DEF Reply, ReplyLost
  <1>3. TypeOK'
    <2>1. ledger' \in [Symbols -> Int] /\ unseen' \in [Symbols -> Int]
      BY <1>1, <1>2 DEF TypeOK
    <2>2. missed' \in [Symbols -> BOOLEAN]
      <3>1. [missed EXCEPT ![s] = TRUE] \in [Symbols -> BOOLEAN]
        BY <1>1, Zenon DEF TypeOK
      <3> QED
        BY <1>1, <1>2, <3>1 DEF TypeOK
    <2> QED
      BY <1>1, <2>1, <2>2, EndTypes DEF TypeOK, exchangeVars, boundVars
  <1>4. BooksBalance'
    <2> SUFFICES ASSUME NEW t \in Symbols, ~raced[t]
                 PROVE  position[t] = ledger'[t] + unseen'[t]
      BY <1>1 DEF BooksBalance, exchangeVars
    <2>1. position[t] = ledger[t] + unseen[t]
      BY <1>1 DEF BooksBalance
    <2>2. t = s => filled[c] = reported
      BY <1>1 DEF CallInv, Reports
    <2> QED
      BY <1>1, <1>2, <2>1, <2>2 DEF TypeOK
  <1>5. ASSUME NEW d \in Calls PROVE CallInv(d)'
    <2>1. CASE d = c
      <3>1. pc'[c] = "idle"
        BY <1>1 DEF End, TypeOK
      <3> QED
        BY <2>1, <3>1, IdleCall
    <2>2. CASE d # c
      <3>1. /\ pc'[d] = pc[d] /\ job'[d] = job[d] /\ filled'[d] = filled[d]
            /\ stale'[d] = stale[d]
        BY <1>1, <2>2 DEF End, TypeOK
      <3> QED
        BY <1>1, <3>1, Bystander DEF exchangeVars
    <2> QED
      BY <2>1, <2>2
  <1> QED
    BY <1>3, <1>4, <1>5 DEF IInv

LEMMA LiquidateKeepsIInv ==
  ASSUME IInv, NEW s \in Symbols, Liquidate(s)
  PROVE  IInv'
  <1>1. /\ TypeOK /\ BooksBalance /\ position[s] \in Int
        /\ position' = [position EXCEPT ![s] = 0]
        /\ unseen' = [unseen EXCEPT ![s] = @ - position[s]]
        /\ missed' = [missed EXCEPT ![s] = TRUE]
        /\ UNCHANGED <<leverage, pc, job, filled, ledger, raced, boundVars>>
    BY DEF IInv, TypeOK, Liquidate
  <1>2. stale' = [d \in Calls |->
                    IF pc[d] \notin {"idle", "placed"} /\ job[d].symbol = s
                    THEN stale[d] \cup {"position"} ELSE stale[d]]
    BY DEF Liquidate
  <1>3. TypeOK'
    <2>1. /\ position' \in [Symbols -> Int] /\ unseen' \in [Symbols -> Int]
          /\ missed' \in [Symbols -> BOOLEAN]
      BY <1>1 DEF TypeOK
    <2>2. stale' \in [Calls -> SUBSET {"position", "leverage"}]
      BY <1>1, <1>2 DEF TypeOK
    <2> QED
      BY <1>1, <2>1, <2>2 DEF TypeOK, boundVars
  <1>4. BooksBalance'
    <2> SUFFICES ASSUME NEW t \in Symbols, ~raced[t]
                 PROVE  position'[t] = ledger[t] + unseen'[t]
      BY <1>1 DEF BooksBalance
    <2>1. position[t] = ledger[t] + unseen[t]
      BY <1>1 DEF BooksBalance
    <2> QED
      BY <1>1, <2>1 DEF TypeOK
  <1>5. ASSUME NEW d \in Calls PROVE CallInv(d)'
    <2>1. job[d].symbol # s => position'[job[d].symbol] = position[job[d].symbol]
      BY <1>1 DEF TypeOK
    <2>2. stale'[d] = IF pc[d] \notin {"idle", "placed"} /\ job[d].symbol = s
                      THEN stale[d] \cup {"position"} ELSE stale[d]
      BY <1>2
    <2> QED
      BY <1>1, <2>1, <2>2, Bystander
  <1> QED
    BY <1>3, <1>4, <1>5 DEF IInv

(* A request that sets the leverage outdates what the opens in flight on   *)
(* the symbol know of it, and disturbs nothing else.                       *)
LEMMA LeverageRequestKeepsIInv ==
  ASSUME IInv, NEW s \in Symbols, NEW lev \in Leverages, SetLeverageRequest(s, lev)
  PROVE  IInv'
  <1>1. /\ TypeOK /\ BooksBalance
        /\ lev \in 0..125 /\ started' = started + 1
        /\ leverage' = [leverage EXCEPT ![s] = lev]
        /\ UNCHANGED <<position, pc, job, filled, ledger, unseen, raced, missed, restarts>>
    BY DEF IInv, SetLeverageRequest, auditVars
  <1>2. stale' = [d \in Calls |->
                    IF pc[d] \notin {"idle", "placed"} /\ job[d].symbol = s
                    THEN stale[d] \cup {"leverage"} ELSE stale[d]]
    BY DEF SetLeverageRequest
  <1>3. TypeOK'
    <2>1. leverage' \in [Symbols -> 0..125] /\ started' \in Nat
      BY <1>1 DEF TypeOK
    <2>2. stale' \in [Calls -> SUBSET {"position", "leverage"}]
      BY <1>1, <1>2 DEF TypeOK
    <2> QED
      BY <1>1, <2>1, <2>2 DEF TypeOK
  <1>4. BooksBalance'
    BY <1>1 DEF BooksBalance
  <1>5. ASSUME NEW d \in Calls PROVE CallInv(d)'
    <2>1. job[d].symbol # s => leverage'[job[d].symbol] = leverage[job[d].symbol]
      BY <1>1 DEF TypeOK
    <2>2. stale'[d] = IF pc[d] \notin {"idle", "placed"} /\ job[d].symbol = s
                      THEN stale[d] \cup {"leverage"} ELSE stale[d]
      BY <1>2
    <2> QED
      BY <1>1, <2>1, <2>2, Bystander
  <1> QED
    BY <1>3, <1>4, <1>5 DEF IInv

LEMMA RestartKeepsIInv ==
  ASSUME IInv, Restart
  PROVE  IInv'
  <1>1. TypeOK'
    <2>1. missed' \in [Symbols -> BOOLEAN]
      <3> SUFFICES ASSUME NEW s \in Symbols
                   PROVE (missed[s] \/ \E c \in Calls : pc[c] = "placed" /\ job[c].symbol = s)
                           \in BOOLEAN
        BY Zenon DEF Restart
      <3> QED
        OBVIOUS
    <2>2. /\ pc' \in [Calls -> Awaiting] /\ job' \in [Calls -> Job]
          /\ filled' \in [Calls -> Int]
          /\ stale' \in [Calls -> SUBSET {"position", "leverage"}]
      BY NoJobIsJob DEF Restart, Awaiting
    <2> QED
      BY <2>1, <2>2 DEF IInv, TypeOK, Restart, exchangeVars
  <1>2. BooksBalance'
    BY DEF IInv, BooksBalance, Restart, exchangeVars
  <1>3. ASSUME NEW c \in Calls PROVE CallInv(c)'
    BY IdleCall DEF Restart
  <1> QED
    BY <1>1, <1>2, <1>3 DEF IInv

-----------------------------------------------------------------------------
(* The invariant is inductive. *)
LEMMA InitIInv == Init => IInv
  <1> SUFFICES ASSUME Init PROVE IInv
    OBVIOUS
  <1>1. TypeOK
    <2>1. position \in [Symbols -> Int]
      BY FuturesAssumption DEF Init
    <2>2. /\ leverage \in [Symbols -> 0..125] /\ ledger \in [Symbols -> Int]
          /\ unseen \in [Symbols -> Int] /\ started \in Nat /\ restarts \in Nat
      BY <2>1 DEF Init
    <2>3. /\ pc \in [Calls -> Awaiting] /\ job \in [Calls -> Job]
          /\ filled \in [Calls -> Int]
          /\ stale \in [Calls -> SUBSET {"position", "leverage"}]
      BY NoJobIsJob DEF Init, Awaiting
    <2>4. raced \in [Symbols -> BOOLEAN] /\ missed \in [Symbols -> BOOLEAN]
      BY Zenon DEF Init
    <2> QED
      BY <2>1, <2>2, <2>3, <2>4 DEF TypeOK
  <1>2. BooksBalance
    <2>1. ASSUME NEW s \in Symbols PROVE position[s] \in Int
      BY <1>1 DEF TypeOK
    <2> QED
      BY <2>1 DEF Init, BooksBalance
  <1>3. ASSUME NEW c \in Calls PROVE CallInv(c)
    <2>1. pc[c] = "idle"
      BY DEF Init
    <2> QED
      BY <2>1 DEF CallInv, OpsMatch, Knows, Reports, Honours
  <1> QED
    BY <1>1, <1>2, <1>3 DEF IInv

LEMMA NextIInv == IInv /\ [Next]_vars => IInv'
  <1> SUFFICES ASSUME IInv, [Next]_vars PROVE IInv'
    OBVIOUS
  <1>1. ASSUME NEW c \in Calls, Arrival(c) \/ Progress(c) \/ Reply(c)
        PROVE  IInv'
    <2>1. CASE Arrival(c)
      BY <2>1, ArrivalKeepsIInv
    <2>2. CASE Progress(c)
      BY <2>2, SignalKeepsIInv, LeverageKeepsIInv, PassChecksKeepsIInv,
         ReadForCloseAllKeepsIInv, ReadForCloseKeepsIInv, ReadForChangeKeepsIInv,
         ExecuteKeepsIInv, ReplyKeepsIInv, FailKeepsIInv
      DEF Progress
    <2>3. CASE Reply(c)
      BY <2>3, ReplyKeepsIInv
    <2> QED
      BY <1>1, <2>1, <2>2, <2>3
  <1>2. ASSUME NEW s \in Liquidatable, Liquidate(s)
        PROVE  IInv'
    BY <1>2, FuturesAssumption, LiquidateKeepsIInv
  <1>5. ASSUME NEW s \in Symbols, NEW lev \in Leverages, SetLeverageRequest(s, lev)
        PROVE  IInv'
    BY <1>5, LeverageRequestKeepsIInv
  <1>3. CASE Restart
    BY <1>3, RestartKeepsIInv
  <1>4. CASE UNCHANGED vars
    <2>1. TypeOK' /\ BooksBalance'
      BY <1>4
      DEF IInv, TypeOK, BooksBalance, vars, exchangeVars, callVars, auditVars, boundVars
    <2>2. ASSUME NEW d \in Calls PROVE CallInv(d)'
      BY <1>4, Bystander DEF vars, exchangeVars, callVars, auditVars, boundVars
    <2> QED
      BY <2>1, <2>2 DEF IInv
  <1> QED
    BY <1>1, <1>2, <1>3, <1>4, <1>5 DEF Next

LEMMA SpecIInv == Spec => []IInv
  BY InitIInv, NextIInv, PTL DEF Spec

-----------------------------------------------------------------------------
(* What FuturesService guarantees in every reachable state. *)

(* The locals of every call and the exchange's numbers keep their types,   *)
(* for any account, any number of calls and any number of restarts.        *)
THEOREM TypeCorrect == Spec => []TypeOK
  <1>1. IInv => TypeOK
    BY DEF IInv
  <1> QED
    BY <1>1, SpecIInv, PTL

(* An order sent on a position that did not move since the call read it    *)
(* does what openPosition, closePosition, closeAllPosition, switchPosition,*)
(* addToPosition, reducePosition or a signal promised.                     *)
THEOREM OrdersKeepPromises == Spec => []FreshOrdersKeepPromises
  <1>1. IInv => FreshOrdersKeepPromises
    BY DEF IInv, CallInv, Knows, FreshOrdersKeepPromises
  <1> QED
    BY <1>1, SpecIInv, PTL

(* A position is opened at the leverage openPosition asked for, unless     *)
(* another call set the symbol's leverage in between.                      *)
THEOREM LeverageIsHonoured == Spec => []LeverageHonoured
  <1>1. IInv => LeverageHonoured
    BY DEF IInv, CallInv, Honours, LeverageHonoured
  <1> QED
    BY <1>1, SpecIInv, PTL

(* The trade.executed events of all operations together account for the    *)
(* position of every symbol that saw no order decided on a stale read.     *)
THEOREM BooksAlwaysBalance == Spec => []BooksBalance
  <1>1. IInv => BooksBalance
    BY DEF IInv
  <1> QED
    BY <1>1, SpecIInv, PTL

-----------------------------------------------------------------------------
(* Only Execute takes a call from `placing` to `placed`. *)
LEMMA OnlyExecutePlaces ==
  ASSUME IInv, [Next]_vars, NEW c \in Calls, pc[c] = "placing", pc'[c] = "placed"
  PROVE  Execute(c)
  <1> USE DEF IInv, TypeOK
  <1>1. ASSUME NEW d \in Calls, Arrival(d) PROVE FALSE
    <2>1. \E a \in {"signal", "leverage", "close", "closeAll", "change"} :
            pc[d] = "idle" /\ pc' = [pc EXCEPT ![d] = a]
      BY <1>1 DEF Arrival, CloseSignalArrives, CloseAllPosition, ClosePosition,
         AddToPosition, ReducePosition, SignalArrives, SwitchPosition, OpenPosition, Begin
    <2> QED
      BY <2>1
  <1>2. ASSUME NEW d \in Calls, Progress(d) \/ Reply(d), ~Execute(d) PROVE FALSE
    <2>1. \/ \E a \in Awaiting \ {"placed"} : pc' = [pc EXCEPT ![d] = a]
      BY <1>2 DEF Progress, Reply, ReplyLost, SignalRead, SignalReadFails, DecideOnSignal,
         SetLeverage, SetLeverageReplyLost, PassChecks, ReadForCloseAll, ReadForClose,
         ReadForChange, Fail, End, Goto, Awaiting
    <2> QED
      BY <2>1
  <1>3. ASSUME NEW d \in Calls, Execute(d) PROVE d = c
    BY <1>3 DEF Execute
  <1>4. ASSUME NEW s \in Liquidatable, Liquidate(s) PROVE FALSE
    BY <1>4 DEF Liquidate
  <1>5. ASSUME NEW s \in Symbols, NEW lev \in Leverages, SetLeverageRequest(s, lev)
        PROVE  FALSE
    BY <1>5 DEF SetLeverageRequest
  <1>6. CASE Restart
    BY <1>6 DEF Restart
  <1>7. CASE UNCHANGED vars
    BY <1>7 DEF vars, callVars
  <1> QED
    BY <1>1, <1>2, <1>3, <1>4, <1>5, <1>6, <1>7 DEF Next

(* A reduce-only order moves a position towards zero and not past it.      *)
LEMMA ReduceOnlyShrinks ==
  ASSUME NEW p \in Int, NEW o \in Order, o.reduceOnly, Executed(p, o) # 0
  PROVE  \/ 0 <= p + Executed(p, o) /\ p + Executed(p, o) < p
         \/ p < p + Executed(p, o) /\ p + Executed(p, o) <= 0
  <1>1. o.qty \in Nat /\ o.side \in {"LONG", "SHORT"}
    BY DEF Order, Side
  <1> QED
    BY <1>1 DEF Executed, Signed, SideOf, Abs

(* Whatever other calls, liquidations or restarts do while it is in flight,*)
(* reducePosition and a closePosition without quantity never turn a        *)
(* position over: the reduceOnly flag FuturesService sets protects them    *)
(* where a plain quantity (closeAllPosition) does not.                     *)
THEOREM ReduceOnlyProtects == Spec => ReduceOnlyNeverFlips
  <1> DEFINE
    Protected(c) ==
      pc[c] = "placing" /\ pc'[c] = "placed"
        /\ \/ job[c].op = "reduce"
           \/ job[c].op = "close" /\ job[c].qty = 0
      => LET s == job[c].symbol
         IN  \/ 0 <= position'[s] /\ position'[s] < position[s]
             \/ position[s] < position'[s] /\ position'[s] <= 0
  <1>1. ASSUME IInv, [Next]_vars, NEW c \in Calls
        PROVE  Protected(c)
    <2> SUFFICES ASSUME pc[c] = "placing", pc'[c] = "placed",
                        job[c].op = "reduce" \/ (job[c].op = "close" /\ job[c].qty = 0)
                 PROVE  LET s == job[c].symbol
                        IN  \/ 0 <= position'[s] /\ position'[s] < position[s]
                            \/ position[s] < position'[s] /\ position'[s] <= 0
      OBVIOUS
    <2> DEFINE s == job[c].symbol
    <2>1. Execute(c)
      BY <1>1, OnlyExecutePlaces
    <2>2. /\ s \in Symbols /\ job[c].order \in Order /\ position[s] \in Int
          /\ job[c].order.reduceOnly
      BY <1>1 DEF IInv, TypeOK, CallInv, OpsMatch, Job
    <2>3. /\ Executed(position[s], job[c].order) # 0
          /\ position'[s] = position[s] + Executed(position[s], job[c].order)
      BY <1>1, <2>1, <2>2 DEF Execute, IInv, TypeOK
    <2> QED
      BY <2>2, <2>3, ReduceOnlyShrinks
  <1>2. IInv /\ [Next]_vars => [\A c \in Calls : Protected(c)]_vars
    BY <1>1
  <1> QED
    BY <1>2, SpecIInv, PTL DEF Spec, ReduceOnlyNeverFlips

-----------------------------------------------------------------------------
(* What is unreported is what the calls awaiting their reply have filled,  *)
(* summed in the order in which the calls of P are listed by e.            *)
Lists(e, n, P) ==
  /\ \A i \in 1..n : e[i] \in P
  /\ \A i, k \in 1..n : e[i] = e[k] => i = k
  /\ \A c \in P : \E i \in 1..n : e[i] = c

Sums(g, e, n, f) == g[0] = 0 /\ \A i \in 1..n : g[i] = g[i - 1] + f[e[i]]

Tally(P, f, total) ==
  \E n \in Nat : \E e \in [1..n -> Calls], g \in [0..n -> Int] :
    Lists(e, n, P) /\ Sums(g, e, n, f) /\ g[n] = total

LEMMA TallyOfNone ==
  ASSUME NEW f, NEW total \in Int
  PROVE  Tally({}, f, total) <=> total = 0
  <1>1. ASSUME Tally({}, f, total) PROVE total = 0
    <2>1. PICK n \in Nat : \E e \in [1..n -> Calls], g \in [0..n -> Int] :
                             Lists(e, n, {}) /\ Sums(g, e, n, f) /\ g[n] = total
      BY <1>1 DEF Tally
    <2>2. n = 0
      BY <2>1 DEF Lists
    <2> QED
      BY <2>1, <2>2 DEF Sums
  <1>2. ASSUME total = 0 PROVE Tally({}, f, total)
    <2> DEFINE e == [i \in 1..0 |-> CHOOSE c \in Calls : TRUE]
               g == [i \in 0..0 |-> 0]
    <2>1. e \in [1..0 -> Calls] /\ g \in [0..0 -> Int] /\ g[0] = 0
      OBVIOUS
    <2>2. Lists(e, 0, {}) /\ Sums(g, e, 0, f)
      BY <2>1 DEF Lists, Sums
    <2> QED
      BY <1>2, <2>1, <2>2 DEF Tally
  <1> QED
    BY <1>1, <1>2

LEMMA TallyAgrees ==
  ASSUME NEW P, NEW f, NEW h, NEW total, Tally(P, f, total), \A c \in P : h[c] = f[c]
  PROVE  Tally(P, h, total)
  <1>1. PICK n \in Nat : \E e \in [1..n -> Calls], g \in [0..n -> Int] :
                           Lists(e, n, P) /\ Sums(g, e, n, f) /\ g[n] = total
    BY DEF Tally
  <1>2. PICK e \in [1..n -> Calls], g \in [0..n -> Int] :
          Lists(e, n, P) /\ Sums(g, e, n, f) /\ g[n] = total
    BY <1>1
  <1>3. Sums(g, e, n, h)
    BY <1>2 DEF Sums, Lists
  <1> QED
    BY <1>2, <1>3 DEF Tally

LEMMA TallyAdds ==
  ASSUME NEW P, NEW c \in Calls, c \notin P, NEW f \in [Calls -> Int], NEW total \in Int,
         Tally(P, f, total)
  PROVE  Tally(P \cup {c}, f, total + f[c])
  <1>1. PICK n \in Nat : \E e \in [1..n -> Calls], g \in [0..n -> Int] :
                           Lists(e, n, P) /\ Sums(g, e, n, f) /\ g[n] = total
    BY DEF Tally
  <1>2. PICK e \in [1..n -> Calls], g \in [0..n -> Int] :
          Lists(e, n, P) /\ Sums(g, e, n, f) /\ g[n] = total
    BY <1>1
  <1> DEFINE m == n + 1
             e2 == [i \in 1..m |-> IF i = m THEN c ELSE e[i]]
             g2 == [i \in 0..m |-> IF i = m THEN total + f[c] ELSE g[i]]
  <1>3. e2 \in [1..m -> Calls] /\ g2 \in [0..m -> Int] /\ g2[m] = total + f[c] /\ m \in Nat
    OBVIOUS
  <1>4. /\ e2[m] = c /\ \A i \in 1..n : e2[i] = e[i]
        /\ \A i \in 0..n : g2[i] = g[i]
        /\ \A i \in 1..m : i = m \/ i \in 1..n
        /\ m \in 1..m /\ \A i \in 1..n : i \in 1..m /\ i # m
    OBVIOUS
  <1> HIDE DEF e2, g2, m
  <1>5. Lists(e2, m, P \cup {c})
    <2>1. \A i \in 1..m : e2[i] \in P \cup {c}
      BY <1>2, <1>4 DEF Lists
    <2>2. ASSUME NEW i \in 1..m, NEW k \in 1..m, e2[i] = e2[k] PROVE i = k
      BY <1>2, <1>4, <2>2 DEF Lists
    <2>3. \A d \in P \cup {c} : \E i \in 1..m : e2[i] = d
      BY <1>2, <1>4 DEF Lists
    <2> QED
      BY <2>1, <2>2, <2>3 DEF Lists
  <1>6. Sums(g2, e2, m, f)
    <2>1. g2[0] = 0
      BY <1>2, <1>4 DEF Sums
    <2>2. ASSUME NEW i \in 1..n PROVE g2[i] = g2[i - 1] + f[e2[i]]
      <3>1. i \in 0..n /\ i - 1 \in 0..n
        OBVIOUS
      <3> QED
        BY <1>2, <1>4, <3>1 DEF Sums
    <2>3. g2[m] = g2[m - 1] + f[e2[m]]
      <3>1. m - 1 = n /\ n \in 0..n
        BY DEF m
      <3> QED
        BY <1>2, <1>3, <1>4, <3>1
    <2> QED
      BY <1>4, <2>1, <2>2, <2>3 DEF Sums
  <1> QED
    BY <1>3, <1>5, <1>6 DEF Tally

LEMMA TallyRemoves ==
  ASSUME NEW P, NEW c \in P, NEW f \in [Calls -> Int], NEW total \in Int,
         Tally(P, f, total)
  PROVE  Tally(P \ {c}, f, total - f[c])
  <1>1. PICK n \in Nat : \E e \in [1..n -> Calls], g \in [0..n -> Int] :
                           Lists(e, n, P) /\ Sums(g, e, n, f) /\ g[n] = total
    BY DEF Tally
  <1>2. PICK e \in [1..n -> Calls], g \in [0..n -> Int] :
          Lists(e, n, P) /\ Sums(g, e, n, f) /\ g[n] = total
    BY <1>1
  <1>3. PICK k \in 1..n : e[k] = c
    BY <1>2 DEF Lists
  <1> DEFINE m == n - 1
             e2 == [i \in 1..m |-> IF i < k THEN e[i] ELSE e[i + 1]]
             g2 == [i \in 0..m |-> IF i < k THEN g[i] ELSE g[i + 1] - f[c]]
  <1>4. f[c] \in Int /\ m \in Nat /\ \A i \in 0..n : g[i] \in Int
    BY <1>3
  <1>5. e2 \in [1..m -> Calls] /\ g2 \in [0..m -> Int]
    BY <1>3, <1>4
  <1>6. \A i \in 1..m : /\ i \in 1..n /\ i + 1 \in 1..n
                        /\ i < k => e2[i] = e[i]
                        /\ ~(i < k) => e2[i] = e[i + 1]
    BY <1>3
  <1>7. \A i \in 0..m : /\ i \in 0..n /\ i + 1 \in 0..n
                        /\ i < k => g2[i] = g[i]
                        /\ ~(i < k) => g2[i] = g[i + 1] - f[c]
    BY <1>3
  <1>8. Lists(e2, m, P \ {c})
    <2>1. ASSUME NEW i \in 1..m PROVE e2[i] \in P \ {c}
      BY <1>2, <1>3, <1>6 DEF Lists
    <2>2. ASSUME NEW i \in 1..m, NEW l \in 1..m, e2[i] = e2[l] PROVE i = l
      <3>1. CASE i < k /\ l < k
        BY <1>2, <1>6, <2>2, <3>1 DEF Lists
      <3>2. CASE i < k /\ ~(l < k)
        <4>1. i = l + 1
          BY <1>2, <1>6, <2>2, <3>2 DEF Lists
        <4> QED
          BY <3>2, <4>1
      <3>3. CASE ~(i < k) /\ l < k
        <4>1. i + 1 = l
          BY <1>2, <1>6, <2>2, <3>3 DEF Lists
        <4> QED
          BY <3>3, <4>1
      <3>4. CASE ~(i < k) /\ ~(l < k)
        <4>1. i + 1 = l + 1
          BY <1>2, <1>6, <2>2, <3>4 DEF Lists
        <4> QED
          BY <4>1
      <3> QED
        BY <3>1, <3>2, <3>3, <3>4
    <2>3. ASSUME NEW d \in P \ {c} PROVE \E i \in 1..m : e2[i] = d
      <3>1. PICK i \in 1..n : e[i] = d
        BY <1>2, <2>3 DEF Lists
      <3>2. i # k
        BY <1>3, <2>3, <3>1
      <3>3. CASE i < k
        <4>1. i \in 1..m
          BY <3>3
        <4> QED
          BY <1>6, <3>1, <3>3, <4>1
      <3>4. CASE i > k
        <4>1. i - 1 \in 1..m /\ ~(i - 1 < k) /\ (i - 1) + 1 = i
          BY <3>4
        <4> QED
          BY <1>6, <3>1, <4>1
      <3> QED
        BY <3>2, <3>3, <3>4
    <2> QED
      BY <2>1, <2>2, <2>3 DEF Lists
  <1>9. Sums(g2, e2, m, f)
    <2>1. g2[0] = 0
      <3>1. 0 \in 0..m /\ 0 < k
        BY <1>4
      <3> QED
        BY <1>2, <1>7, <3>1 DEF Sums
    <2>2. ASSUME NEW i \in 1..m PROVE g2[i] = g2[i - 1] + f[e2[i]]
      <3>1. i \in 0..m /\ i - 1 \in 0..m /\ i \in 1..n /\ i + 1 \in 1..n
        BY <1>6, <1>7
      <3>2. /\ g[i] = g[i - 1] + f[e[i]] /\ g[i + 1] = g[i] + f[e[i + 1]]
        <4>1. (i + 1) - 1 = i
          OBVIOUS
        <4> QED
          BY <1>2, <3>1, <4>1 DEF Sums
      <3>3. g[i] \in Int /\ g[i - 1] \in Int /\ g[i + 1] \in Int
        BY <1>4, <3>1
      <3>4. f[e[i]] \in Int /\ f[e[i + 1]] \in Int
        BY <3>1
      <3>5. CASE i < k
        BY <1>6, <1>7, <3>1, <3>2, <3>5
      <3>6. CASE i = k
        <4>1. g2[i] = g[i + 1] - f[c] /\ g2[i - 1] = g[i - 1] /\ e2[i] = e[i + 1] /\ f[e[i]] = f[c]
          BY <1>3, <1>6, <1>7, <3>1, <3>6
        <4> HIDE DEF e2, g2, m
        <4>2. g[i + 1] = (g[i - 1] + f[c]) + f[e[i + 1]]
          BY <3>2, <4>1, Zenon
        <4>3. ((g[i - 1] + f[c]) + f[e[i + 1]]) - f[c] = g[i - 1] + f[e[i + 1]]
          BY <1>4, <3>3, <3>4
        <4> QED
          BY <4>1, <4>2, <4>3, Zenon
      <3>7. CASE i > k
        <4>1. g2[i] = g[i + 1] - f[c] /\ g2[i - 1] = g[i] - f[c] /\ e2[i] = e[i + 1]
          <5>1. ~(i < k) /\ ~(i - 1 < k) /\ (i - 1) + 1 = i
            BY <3>7
          <5> QED
            BY <1>6, <1>7, <3>1, <5>1
        <4> HIDE DEF e2, g2, m
        <4>2. (g[i] + f[e[i + 1]]) - f[c] = (g[i] - f[c]) + f[e[i + 1]]
          BY <1>4, <3>3, <3>4
        <4>3. g2[i] = (g[i] - f[c]) + f[e[i + 1]]
          BY <3>2, <4>1, <4>2, Zenon
        <4> QED
          BY <4>1, <4>3, Zenon
      <3> QED
        BY <3>5, <3>6, <3>7
    <2> QED
      BY <2>1, <2>2 DEF Sums
  <1>10. g2[m] = total - f[c]
    <2>1. m \in 0..m /\ m + 1 = n
      BY <1>4
    <2>2. CASE k = n
      <3>1. g2[m] = g[m] /\ g[n] = g[m] + f[c]
        <4>1. n \in 1..n /\ n - 1 = m
          BY <2>2
        <4> QED
          BY <1>2, <1>3, <1>7, <2>1, <2>2, <4>1 DEF Sums
      <3>2. g[m] \in Int
        BY <1>4, <1>7, <2>1
      <3> QED
        BY <1>2, <1>4, <3>1, <3>2
    <2>3. CASE k # n
      BY <1>2, <1>7, <2>1, <2>3
    <2> QED
      BY <2>2, <2>3
  <1> HIDE DEF e2, g2, m
  <1> QED
    BY <1>4, <1>5, <1>8, <1>9, <1>10 DEF Tally

Placed(s) == {c \in Calls : pc[c] = "placed" /\ job[c].symbol = s}

UnseenInv == \A s \in Symbols : ~missed[s] => Tally(Placed(s), filled, unseen[s])

(* A step of a call other than its order and its reply: nothing is moved   *)
(* at the exchange and the call was not, and is not, awaiting its reply.   *)
LEMMA UnplacedStep ==
  ASSUME TypeOK, NEW c \in Calls,
         Arrival(c) \/ (Progress(c) /\ ~Execute(c) /\ ~ReplyLost(c))
  PROVE  /\ pc[c] # "placed" /\ pc'[c] # "placed" /\ unseen' = unseen /\ missed' = missed
         /\ \A d \in Calls \ {c} : pc'[d] = pc[d] /\ job'[d] = job[d] /\ filled'[d] = filled[d]
  <1>1. CASE Arrival(c)
    <2>1. PICK j \in Job, a \in Awaiting : Begin(c, j, a) /\ Beginning(j, a)
      BY <1>1, ArrivalBegins
    <2> QED
      BY <2>1 DEF Begin, Beginning, TypeOK, auditVars
  <1>2. CASE Progress(c) /\ ~Execute(c) /\ ~ReplyLost(c)
    <2>1. /\ pc[c] # "placed" /\ unseen' = unseen /\ missed' = missed
          /\ \E a \in Awaiting \ {"placed"} : pc' = [pc EXCEPT ![c] = a]
          /\ \E j : job' = [job EXCEPT ![c] = j]
          /\ filled' = filled \/ filled' = [filled EXCEPT ![c] = 0]
      <3>1. CASE SignalRead(c) \/ SignalReadFails(c)
        BY <3>1 DEF SignalRead, SignalReadFails, DecideOnSignal, End, Goto, Awaiting, auditVars
      <3>2. CASE SetLeverage(c) \/ SetLeverageReplyLost(c) \/ PassChecks(c)
        BY <3>2 DEF SetLeverage, SetLeverageReplyLost, PassChecks, Goto, Awaiting, auditVars
      <3>3. CASE ReadForCloseAll(c) \/ ReadForClose(c) \/ Fail(c)
        BY <3>3 DEF ReadForCloseAll, ReadForClose, Fail, End, Goto, Awaiting, auditVars
      <3>4. CASE ReadForChange(c)
        BY <3>4 DEF ReadForChange, End, Goto, Awaiting, auditVars
      <3> QED
        BY <1>2, <3>1, <3>2, <3>3, <3>4 DEF Progress
    <2> QED
      BY <2>1 DEF TypeOK
  <1> QED
    BY <1>1, <1>2

LEMMA SameTally ==
  ASSUME UnseenInv, NEW s \in Symbols, ~missed'[s], ~missed[s], unseen'[s] = unseen[s],
         Placed(s)' = Placed(s), \A c \in Placed(s) : filled'[c] = filled[c]
  PROVE  Tally(Placed(s)', filled', unseen'[s])
  <1>1. Tally(Placed(s), filled, unseen[s])
    BY DEF UnseenInv
  <1>2. Tally(Placed(s), filled', unseen[s])
    BY <1>1, TallyAgrees
  <1> QED
    BY <1>2

LEMMA ExecuteTallies ==
  ASSUME TypeOK, UnseenInv, NEW c \in Calls, Execute(c)
  PROVE  UnseenInv'
  <1> DEFINE x == Executed(position[job[c].symbol], job[c].order)
  <1>1. /\ pc[c] = "placing" /\ pc' = [pc EXCEPT ![c] = "placed"] /\ job' = job
        /\ filled' = [filled EXCEPT ![c] = x]
        /\ unseen' = [unseen EXCEPT ![job[c].symbol] = @ + x] /\ missed' = missed
    BY DEF Execute
  <1>2. job[c].symbol \in Symbols /\ x \in Int
    BY ExecutedIsInt DEF TypeOK, Job
  <1> HIDE DEF x
  <1>3. filled' \in [Calls -> Int] /\ filled'[c] = x /\ \A d \in Calls \ {c} : filled'[d] = filled[d]
    BY <1>1, <1>2 DEF TypeOK
  <1>4. pc'[c] = "placed" /\ \A d \in Calls \ {c} : pc'[d] = pc[d]
    BY <1>1 DEF TypeOK
  <1>5. ASSUME NEW s \in Symbols, ~missed'[s] PROVE Tally(Placed(s)', filled', unseen'[s])
    <2>1. CASE s # job[c].symbol
      <3>1. Placed(s)' = Placed(s)
        BY <1>1, <1>4, <2>1 DEF Placed
      <3>2. unseen'[s] = unseen[s]
        BY <1>1, <1>2, <2>1 DEF TypeOK
      <3>3. \A d \in Placed(s) : filled'[d] = filled[d]
        BY <1>1, <1>3 DEF Placed
      <3> QED
        BY <1>1, <1>5, <3>1, <3>2, <3>3, SameTally
    <2>2. CASE s = job[c].symbol
      <3>1. Placed(s)' = Placed(s) \cup {c} /\ c \notin Placed(s)
        BY <1>1, <1>4, <2>2 DEF Placed
      <3>2. unseen'[s] = unseen[s] + x /\ unseen[s] \in Int
        BY <1>1, <1>2, <2>2 DEF TypeOK
      <3>3. Tally(Placed(s), filled, unseen[s])
        BY <1>1, <1>5 DEF UnseenInv
      <3>4. \A d \in Placed(s) : filled'[d] = filled[d]
        BY <1>3, <3>1 DEF Placed
      <3>5. Tally(Placed(s), filled', unseen[s])
        BY <3>3, <3>4, TallyAgrees
      <3>6. Tally(Placed(s) \cup {c}, filled', unseen[s] + x)
        BY <1>3, <3>1, <3>2, <3>5, TallyAdds
      <3> QED
        BY <3>1, <3>2, <3>6
    <2> QED
      BY <2>1, <2>2
  <1> QED
    BY <1>5 DEF UnseenInv

LEMMA ReplyTallies ==
  ASSUME TypeOK, UnseenInv, NEW c \in Calls, Reply(c)
  PROVE  UnseenInv'
  <1>1. /\ pc[c] = "placed" /\ End(c) /\ missed' = missed
        /\ unseen' = [unseen EXCEPT ![job[c].symbol] = @ - filled[c]]
    BY DEF Reply
  <1>2. job[c].symbol \in Symbols /\ filled[c] \in Int
    BY DEF TypeOK, Job
  <1>3. pc'[c] = "idle" /\ \A d \in Calls \ {c} : /\ pc'[d] = pc[d] /\ job'[d] = job[d]
                                                 /\ filled'[d] = filled[d]
    BY <1>1 DEF TypeOK, End
  <1>4. ASSUME NEW s \in Symbols, ~missed'[s] PROVE Tally(Placed(s)', filled', unseen'[s])
    <2>1. CASE s # job[c].symbol
      <3>1. Placed(s)' = Placed(s) /\ \A d \in Placed(s) : filled'[d] = filled[d]
        BY <1>3, <2>1 DEF Placed
      <3>2. unseen'[s] = unseen[s]
        BY <1>1, <1>2, <2>1 DEF TypeOK
      <3> QED
        BY <1>1, <1>4, <3>1, <3>2, SameTally
    <2>2. CASE s = job[c].symbol
      <3>1. Placed(s)' = Placed(s) \ {c} /\ c \in Placed(s)
        BY <1>1, <1>3, <2>2 DEF Placed
      <3>2. unseen'[s] = unseen[s] - filled[c] /\ unseen[s] \in Int /\ filled \in [Calls -> Int]
        BY <1>1, <1>2, <2>2 DEF TypeOK
      <3>3. Tally(Placed(s), filled, unseen[s])
        BY <1>1, <1>4 DEF UnseenInv
      <3>4. Tally(Placed(s) \ {c}, filled, unseen[s] - filled[c])
        BY <3>1, <3>2, <3>3, TallyRemoves
      <3>5. \A d \in Placed(s) \ {c} : filled'[d] = filled[d]
        BY <1>3 DEF Placed
      <3>6. Tally(Placed(s) \ {c}, filled', unseen[s] - filled[c])
        BY <3>4, <3>5, TallyAgrees
      <3> QED
        BY <3>1, <3>2, <3>6
    <2> QED
      BY <2>1, <2>2
  <1> QED
    BY <1>4 DEF UnseenInv

(* A lost reply, a liquidation and a restart say what they leave untold.   *)
LEMMA NextTallies == TypeOK /\ UnseenInv /\ [Next]_vars => UnseenInv'
  <1> SUFFICES ASSUME TypeOK, UnseenInv, [Next]_vars PROVE UnseenInv'
    OBVIOUS
  <1>1. ASSUME NEW c \in Calls, Arrival(c) \/ (Progress(c) /\ ~Execute(c) /\ ~ReplyLost(c))
        PROVE  UnseenInv'
    <2>1. ASSUME NEW s \in Symbols, ~missed'[s] PROVE Tally(Placed(s)', filled', unseen'[s])
      <3>1. Placed(s)' = Placed(s) /\ \A d \in Placed(s) : filled'[d] = filled[d]
        BY <1>1, UnplacedStep DEF Placed
      <3> QED
        BY <1>1, <2>1, <3>1, UnplacedStep, SameTally
    <2> QED
      BY <2>1 DEF UnseenInv
  <1>2. ASSUME NEW c \in Calls, ReplyLost(c) PROVE UnseenInv'
    <2>1. /\ End(c) /\ missed' = [missed EXCEPT ![job[c].symbol] = TRUE] /\ unseen' = unseen
      BY <1>2 DEF ReplyLost
    <2>2. \A d \in Calls \ {c} : pc'[d] = pc[d] /\ job'[d] = job[d] /\ filled'[d] = filled[d]
      BY <2>1 DEF TypeOK, End
    <2>3. pc'[c] = "idle" /\ job[c].symbol \in Symbols
      BY <2>1 DEF TypeOK, End, Job
    <2>4. ASSUME NEW s \in Symbols, ~missed'[s] PROVE Tally(Placed(s)', filled', unseen'[s])
      <3>1. s # job[c].symbol /\ ~missed[s]
        BY <2>1, <2>3, <2>4 DEF TypeOK
      <3>2. Placed(s)' = Placed(s) /\ \A d \in Placed(s) : filled'[d] = filled[d]
        BY <2>2, <2>3, <3>1 DEF Placed
      <3> QED
        BY <2>1, <2>4, <3>1, <3>2, SameTally
    <2> QED
      BY <2>4 DEF UnseenInv
  <1>3. ASSUME NEW s \in Symbols, NEW lev \in Leverages, SetLeverageRequest(s, lev)
        PROVE  UnseenInv'
    <2>1. /\ pc' = pc /\ job' = job /\ filled' = filled /\ unseen' = unseen /\ missed' = missed
      BY <1>3 DEF SetLeverageRequest, auditVars
    <2>2. \A t \in Symbols : Placed(t)' = Placed(t)
      BY <2>1 DEF Placed
    <2> QED
      BY <2>1, <2>2 DEF UnseenInv
  <1>4. ASSUME NEW s \in Liquidatable, Liquidate(s) PROVE UnseenInv'
    <2>1. s \in Symbols /\ pc' = pc /\ job' = job /\ filled' = filled
      BY <1>4, FuturesAssumption DEF Liquidate
    <2>2. ASSUME NEW t \in Symbols, ~missed'[t] PROVE Tally(Placed(t)', filled', unseen'[t])
      <3>1. t # s /\ ~missed[t] /\ unseen'[t] = unseen[t]
        BY <1>4, <2>1, <2>2 DEF Liquidate, TypeOK
      <3>2. Placed(t)' = Placed(t)
        BY <2>1 DEF Placed
      <3> QED
        BY <2>1, <2>2, <3>1, <3>2, SameTally
    <2> QED
      BY <2>2 DEF UnseenInv
  <1>5. CASE Restart
    <2>1. ASSUME NEW s \in Symbols, ~missed'[s] PROVE Tally(Placed(s)', filled', unseen'[s])
      <3>1. ~missed[s] /\ Placed(s) = {} /\ Placed(s)' = {} /\ unseen'[s] = unseen[s]
        BY <1>5, <2>1 DEF Restart, Placed
      <3>2. Placed(s)' = Placed(s) /\ \A d \in Placed(s) : filled'[d] = filled[d]
        BY <3>1
      <3> QED
        BY <2>1, <3>1, <3>2, SameTally
    <2> QED
      BY <2>1 DEF UnseenInv
  <1>6. CASE UNCHANGED vars
    <2>1. /\ pc' = pc /\ job' = job /\ filled' = filled /\ unseen' = unseen /\ missed' = missed
      BY <1>6 DEF vars, callVars, auditVars
    <2>2. \A t \in Symbols : Placed(t)' = Placed(t)
      BY <2>1 DEF Placed
    <2> QED
      BY <2>1, <2>2 DEF UnseenInv
  <1> QED
    BY <1>1, <1>2, <1>3, <1>4, <1>5, <1>6, ExecuteTallies, ReplyTallies DEF Next

(* Nothing moves at the exchange unreported but by an order whose reply is *)
(* awaited, unless a reply was lost, a position liquidated or the process  *)
(* restarted: for any number of calls in flight on a symbol.               *)
THEOREM NothingGoesUnreported == Spec => []UnseenOnlyInFlight
  <1>1. Init => UnseenInv
    <2> SUFFICES ASSUME Init, NEW s \in Symbols PROVE Tally(Placed(s), filled, unseen[s])
      BY DEF UnseenInv
    <2>1. Placed(s) = {} /\ unseen[s] = 0
      BY DEF Init, Placed
    <2> QED
      BY <2>1, TallyOfNone
  <1>2. TypeOK /\ UnseenInv => UnseenOnlyInFlight
    <2> SUFFICES ASSUME TypeOK, UnseenInv, NEW s \in Symbols, unseen[s] # 0, ~missed[s]
                 PROVE  \E c \in Calls : pc[c] = "placed" /\ job[c].symbol = s
      BY DEF UnseenOnlyInFlight
    <2>1. Tally(Placed(s), filled, unseen[s]) /\ unseen[s] \in Int
      BY DEF UnseenInv, TypeOK
    <2>2. Placed(s) # {}
      BY <2>1, TallyOfNone
    <2> QED
      BY <2>2 DEF Placed
  <1> QED
    BY <1>1, <1>2, NextTallies, TypeCorrect, PTL DEF Spec
=============================================================================
