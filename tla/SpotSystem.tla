----------------------------- MODULE SpotSystem -----------------------------
(***************************************************************************)
(* OrderService and FuturesService with TransactionService behind the      *)
(* event bus, as a journal of the trades they execute.                     *)
(***************************************************************************)
EXTENDS SpotTrading

VARIABLES stage, spotRows, futuresRows, bitcoinRows

Records == INSTANCE TradeRecords

recordVars == <<stage, spotRows, futuresRows, bitcoinRows>>
systemVars == <<spotVars, recordVars>>

SystemInit == Init /\ Records!RecordsInit

(* The event is handled inside the emit, up to its first insert.           *)
ReportSpot(c) ==
  /\ ReportMarketBuy(c) \/ ReportMarketSell(c)
  /\ Records!HandleTradeExecuted(job[c].id)
ReportFutures(kind, coin) ==
  ReportFuturesTrade(kind, coin) /\ Records!HandleTradeExecuted(NextId)

RestartSystem == Restart /\ Records!KillHandlers

SystemNext ==
  \/ Quiet /\ UNCHANGED recordVars
  \/ \E c \in Calls : ReportSpot(c)
  \/ \E kind \in Kinds, coin \in Coins : ReportFutures(kind, coin)
  \/ \E i \in Ids : Records!HandlerStep(i) /\ UNCHANGED spotVars
  \/ RestartSystem

(* Every request to the exchange and every insert is answered in the end,  *)
(* well or badly: sockets time out.                                        *)
Fairness ==
  /\ \A c \in Calls : WF_systemVars(ReportSpot(c) \/ (ReplyLost(c) /\ UNCHANGED recordVars))
  /\ \A i \in Ids : WF_systemVars(Records!HandlerStep(i) /\ UNCHANGED spotVars)

SystemSpec == SystemInit /\ [][SystemNext]_systemVars /\ Fairness

-----------------------------------------------------------------------------
SpotSystemTypeOK == SpotTypeOK /\ Records!RecordsTypeOK

(* The tables can be trusted on what was announced: a trade announced as   *)
(* saved has its row in both tables, the second table has nothing the      *)
(* first has not, and a parsed transaction belongs to a recorded trade of  *)
(* bitcoin, however handlers interleave, fail or die half-way.             *)
RowsFollowEachOther ==
  \A i \in Ids :
    /\ stage[i] = "saved" => spotRows[i] = 1 /\ futuresRows[i] = 1
    /\ bitcoinRows[i] <= futuresRows[i] /\ futuresRows[i] <= spotRows[i]
    /\ bitcoinRows[i] = 1 => order[i].coin = Bitcoin /\ stage[i] \in {"saved", "killed"}

(* The fate of a number, as the journal sees it.  A limit order is filled  *)
(* without an event and is no trade of the journal.                        *)
AwaitsReply(i) == \E c \in Calls : pc[c] = "placed" /\ job[c].id = i
FateOf(i) ==
  IF order[i].kind \in {"none", "limit"} THEN "none"
  ELSE IF stage[i] = "saved" THEN "recorded"
  ELSE IF stage[i] = "failed" THEN "told"
  ELSE IF AwaitsReply(i) \/ stage[i] \in Records!InFlight THEN "executed"
  ELSE "lost"

Journal == INSTANCE TradeJournal WITH Trades <- Ids, fate <- [i \in Ids |-> FateOf(i)]

(* The services keep the journal's promise: a market trade is reported at  *)
(* most once and comes to exactly one end, in both tables, in              *)
(* transaction.trade.save.failed, or lost with a reply or a restart.       *)
KeepsTheJournal == Journal!JournalSpec
=============================================================================
