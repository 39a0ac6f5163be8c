------------------------- MODULE PositionMonitoring -------------------------
(***************************************************************************)
(* PositionMonitoringService: the first position of a symbol subscribes    *)
(* its trade, 1m and 5m streams, the close of the last one unsubscribes    *)
(* them.  The service knows positions only by the 'futures.position.opened'*)
(* and 'futures.position.closed' events; both handlers run synchronously   *)
(* inside the emit.  What the client then holds is modelled with its own   *)
(* unsubscribe, which finds the trade stream only.                         *)
(***************************************************************************)
EXTENDS Integers

CONSTANTS Symbols

VARIABLES
  refCount,     \* subscriptions Map: refCount per symbol, 0 when absent
  subscribed    \* the symbol's streams in the client's subscription set

monitorVars == <<refCount, subscribed>>

Streams == {"trade", "kline_1m", "kline_5m"}

(* BinanceWebSocketClient.unsubscribe splits the key at '_' and keeps two  *)
(* parts: the name of a kline stream loses its interval, matches nothing   *)
(* and stays in the set.                                                   *)
KlineStreams == {"kline_1m", "kline_5m"}
Unsubscribed(held) == held \ (Streams \ KlineStreams)

MonitorInit ==
  /\ refCount = [s \in Symbols |-> 0]
  /\ subscribed = [s \in Symbols |-> {}]

(* The first reference subscribes; a later one only counts. *)
HandlePositionOpened(s) ==
  /\ refCount' = [refCount EXCEPT ![s] = @ + 1]
  /\ subscribed' = [subscribed EXCEPT ![s] = IF refCount[s] > 0 THEN @ ELSE @ \cup Streams]

(* Variants: no check that the symbol is in the map; the last-but-one      *)
(* reference unsubscribes already.                                         *)
HandlePositionClosedUnchecked(s) ==
  /\ refCount' = [refCount EXCEPT ![s] = @ - 1]
  /\ subscribed' = [subscribed EXCEPT ![s] = IF refCount[s] > 1 THEN @ ELSE Unsubscribed(@)]
HandlePositionClosedEarly(s) ==
  \/ refCount[s] = 0 /\ UNCHANGED monitorVars
  \/ /\ refCount[s] > 0
     /\ refCount' = [refCount EXCEPT ![s] = @ - 1]
     /\ subscribed' = [subscribed EXCEPT ![s] = IF refCount[s] > 2 THEN @ ELSE Unsubscribed(@)]

(* A close of a symbol that is not in the map is ignored; the last         *)
(* reference unsubscribes the three keys and removes the entry.            *)
HandlePositionClosed(s) ==
  \/ refCount[s] = 0 /\ UNCHANGED monitorVars
  \/ /\ refCount[s] > 0
     /\ refCount' = [refCount EXCEPT ![s] = @ - 1]
     /\ subscribed' = [subscribed EXCEPT ![s] = IF refCount[s] > 1 THEN @ ELSE Unsubscribed(@)]

MonitorTypeOK ==
  /\ refCount \in [Symbols -> Nat]
  /\ subscribed \in [Symbols -> SUBSET Streams]
=============================================================================
