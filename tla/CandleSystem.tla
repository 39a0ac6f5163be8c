---------------------------- MODULE CandleSystem ----------------------------
(***************************************************************************)
(* The live stream and the history collector over one table: handlers of   *)
(* klines and calls of collectHistoricalData save the same candles, each   *)
(* with what it knew of them when it was told.                             *)
(***************************************************************************)
EXTENDS CandleIngestion, HistoryCollection

systemVars == <<ingestionVars, now, job>>

SystemInit == Init /\ HistoryInit

(* The clock of the exchange: an in-progress kline comes while its candle  *)
(* lasts or later, the final one when it is over (external).               *)
IsOut(k) == IF Kline(k).v = Final THEN Kline(k).t < now ELSE Kline(k).t <= now

StreamStep ==
  /\ \/ \E w \in Sockets : (Deliver(w) \/ Lose(w)) /\ IsOut(cursor[w] + 1)
     \/ \E h \in Handlers : Answer(h)
     \/ UnsubscribeSymbol \/ SubscribeSymbol \/ LoadRows \/ LoadLatest \/ LoadFails
  /\ UNCHANGED <<now, job>>

CollectorStep ==
  /\ Tick \/ \E c \in Collectors : Collect(c) \/ Progress(c)
  /\ UNCHANGED <<cursor, cacheVars, serviceVars, handler, restarts>>

(* A restart ends the handlers and the calls together. *)
RestartSystem == Restart /\ CallsEnd /\ UNCHANGED now

SystemNext == StreamStep \/ CollectorStep \/ RestartSystem

SystemSpec == SystemInit /\ [][SystemNext]_systemVars

-----------------------------------------------------------------------------

(* "UPSERT ensures data integrity" (market-data/README.md 18): a row with  *)
(* the whole candle is not replaced by a partial one.                      *)
FinalRowsStay ==
  [][\A t \in Times : row[t] = Final => row'[t] = Final]_systemVars
=============================================================================
