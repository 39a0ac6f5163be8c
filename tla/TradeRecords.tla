---------------------------- MODULE TradeRecords ----------------------------
(***************************************************************************)
(* TransactionService: the listener of trade.executed and the three tables *)
(* it writes.  The event is one of an order number; its handler runs to    *)
(* the first insert inside the emit and the emitter does not wait for it,  *)
(* so the handlers of several trades interleave.  Nothing is retried.      *)
(***************************************************************************)
EXTENDS Integers

CONSTANTS
  Ids,      \* numbers of orders
  Bitcoin   \* the coin whose trades are parsed on chain

VARIABLES
  order,         \* what the event of a number says: its kind and its coin
  stage,         \* handler: the insert it waits for, or how it ended
  spotRows,      \* spot_trade_records: rows of a number
  futuresRows,   \* futures_trade_records
  bitcoinRows    \* bitcoin_transactions

tables == <<spotRows, futuresRows, bitcoinRows>>
recordVars == <<stage, tables>>

InFlight == {"spot", "futures", "bitcoin"}
Stage == InFlight \cup {"none", "saved", "failed", "killed"}

RecordsInit ==
  /\ stage = [i \in Ids |-> "none"]
  /\ spotRows = [i \in Ids |-> 0]
  /\ futuresRows = [i \in Ids |-> 0]
  /\ bitcoinRows = [i \in Ids |-> 0]

(* trade.executed: every event goes to the spot table first.               *)
HandleTradeExecuted(i) ==
  /\ stage[i] = "none"
  /\ stage' = [stage EXCEPT ![i] = "spot"]
  /\ UNCHANGED tables

(* The column orderId of both trade tables is a bigint, which "<n>_close"  *)
(* is not.                                                                 *)
Insertable(i) == order[i].kind # "closeLeg"

Moves(i, next) == stage' = [stage EXCEPT ![i] = next]

(* Variants: the first error does not keep the second table from being     *)
(* written; a save that was announced as failed is tried again.            *)
SpotSaveFailsOn(i) ==
  /\ stage[i] = "spot"
  /\ Moves(i, "futures")
  /\ UNCHANGED tables
SaveSpotTradeRecordAgain(i) ==
  /\ stage[i] \in {"spot", "failed"} /\ Insertable(i)
  /\ Moves(i, "futures")
  /\ spotRows' = [spotRows EXCEPT ![i] = @ + 1]
  /\ UNCHANGED <<futuresRows, bitcoinRows>>

(* An insert that fails has added no row, unless only its reply failed.    *)
(* The catch announces transaction.trade.save.failed and that is all.      *)
SpotSaveFails(i) ==
  /\ stage[i] = "spot"
  /\ Moves(i, "failed")
  /\ \E rows \in IF Insertable(i) THEN {0, 1} ELSE {0} :
       spotRows' = [spotRows EXCEPT ![i] = @ + rows]
  /\ UNCHANGED <<futuresRows, bitcoinRows>>

SaveSpotTradeRecord(i) ==
  /\ stage[i] = "spot" /\ Insertable(i)
  /\ Moves(i, "futures")
  /\ spotRows' = [spotRows EXCEPT ![i] = @ + 1]
  /\ UNCHANGED <<futuresRows, bitcoinRows>>

FuturesSaveFails(i) ==
  /\ stage[i] = "futures"
  /\ Moves(i, "failed")
  /\ \E rows \in IF Insertable(i) THEN {0, 1} ELSE {0} :
       futuresRows' = [futuresRows EXCEPT ![i] = @ + rows]
  /\ UNCHANGED <<spotRows, bitcoinRows>>

(* triggerTransactionParsing: bitcoin trades have one more insert before   *)
(* transaction.trade.saved is announced.                                   *)
SaveFuturesTradeRecord(i) ==
  /\ stage[i] = "futures" /\ Insertable(i)
  /\ Moves(i, IF order[i].coin = Bitcoin THEN "bitcoin" ELSE "saved")
  /\ futuresRows' = [futuresRows EXCEPT ![i] = @ + 1]
  /\ UNCHANGED <<spotRows, bitcoinRows>>

(* Its failure has a catch of its own and does not undo the record.        *)
ParseBitcoinTransaction(i) ==
  /\ stage[i] = "bitcoin"
  /\ Moves(i, "saved")
  /\ \E rows \in {0, 1} : bitcoinRows' = [bitcoinRows EXCEPT ![i] = @ + rows]
  /\ UNCHANGED <<spotRows, futuresRows>>

HandlerStep(i) ==
  \/ SaveSpotTradeRecord(i) \/ SpotSaveFails(i)
  \/ SaveFuturesTradeRecord(i) \/ FuturesSaveFails(i)
  \/ ParseBitcoinTransaction(i)

(* The process restarts: a handler in flight is gone for good, whether or  *)
(* not the table took the insert it waited for.                            *)
Landed(rows, done, at) ==
  [i \in Ids |-> IF i \in done /\ stage[i] = at THEN rows[i] + 1 ELSE rows[i]]

KillHandlers ==
  /\ stage' = [i \in Ids |-> IF stage[i] \in InFlight THEN "killed" ELSE stage[i]]
  /\ \E done \in SUBSET {i \in Ids : stage[i] \in InFlight /\ Insertable(i)} :
       /\ spotRows' = Landed(spotRows, done, "spot")
       /\ futuresRows' = Landed(futuresRows, done, "futures")
       /\ bitcoinRows' = Landed(bitcoinRows, done, "bitcoin")

RecordsTypeOK ==
  /\ stage \in [Ids -> Stage]
  /\ {spotRows, futuresRows, bitcoinRows} \subseteq [Ids -> {0, 1}]
=============================================================================
