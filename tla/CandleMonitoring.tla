-------------------------- MODULE CandleMonitoring --------------------------
(***************************************************************************)
(* How Candle15MService keeps its symbols streamed, and how its health     *)
(* check tells when one is not, over the client it shares with             *)
(* PositionMonitoringService.  A symbol is named by its 15-minute kline    *)
(* stream.  Time is counted in steps of five minutes.                      *)
(*                                                                         *)
(* Subscribing runs in one turn of the event loop: subscribeKline returns  *)
(* a key and no promise, and does not fail.  handleFuturesKline catches    *)
(* what its calls throw, so its scheduleReconnect is never reached.        *)
(***************************************************************************)
EXTENDS BinanceWebSocket

CONSTANTS
  Defaults,   \* MONITORED_SYMBOLS of a process that starts
  Checks      \* bound: health checks in flight

ASSUME MonitoringAssumption == Defaults \subseteq KlineStreams /\ Defaults # {}

VARIABLES
  monitored,         \* MONITORED_SYMBOLS
  toStart,           \* symbols startMonitoring has not come to yet
  heard,             \* symbols with a listener, never removed
  connectionStatus,  \* symbols whose status is true
  silence,           \* symbol: steps since lastReceivedTime, up to Silent
  check,             \* health check: what it found, waiting for the database
  report             \* the last aggregator.health.check

serviceVars == <<monitored, toStart, heard, connectionStatus, silence>>
monitoringVars == <<wsVars, serviceVars, check, report>>

(* More than ten minutes; a missing lastReceivedTime counts as 0, which is *)
(* longer ago than that.                                                   *)
Silent == 3
Verdicts == {"none", "connected", "stale", "disconnected"}
NothingFound == [s \in KlineStreams |-> "none"]
NoCheck == <<>>

-----------------------------------------------------------------------------
(* onModuleInit: startMonitoring takes the symbols one by one.             *)
ServiceStarts ==
  /\ monitored' = Defaults /\ toStart' = Defaults
  /\ heard' = {} /\ connectionStatus' = {}
  /\ silence' = [s \in KlineStreams |-> Silent]
  /\ check' = [c \in Checks |-> NoCheck]
  /\ report' = NothingFound

MonitoringInit ==
  /\ Init
  /\ monitored = Defaults /\ toStart = Defaults
  /\ heard = {} /\ connectionStatus = {}
  /\ silence = [s \in KlineStreams |-> Silent]
  /\ check = [c \in Checks |-> NoCheck]
  /\ report = NothingFound

(* subscribeKline, and what startMonitoring and subscribeSymbol note.      *)
Listen(s) ==
  /\ Subscribe(s)
  /\ heard' = heard \cup {s}
  /\ connectionStatus' = connectionStatus \cup {s}
  /\ silence' = [silence EXCEPT ![s] = 0]

StartSymbol(s) ==
  /\ s \in toStart
  /\ Listen(s)
  /\ toStart' = toStart \ {s}
  /\ UNCHANGED <<monitored, check, report>>

(* Requests are served once onModuleInit is over.                          *)
SubscribeSymbol(s) ==
  /\ toStart = {} /\ s \notin monitored
  /\ Listen(s)
  /\ monitored' = monitored \cup {s}
  /\ UNCHANGED <<toStart, check, report>>

(* unsubscribeSymbol forgets the symbol; listener and stream stay.         *)
UnsubscribeSymbol(s) ==
  /\ toStart = {}
  /\ monitored' = monitored \ {s}
  /\ connectionStatus' = connectionStatus \ {s}
  /\ silence' = [silence EXCEPT ![s] = Silent]
  /\ UNCHANGED <<wsVars, toStart, heard, check, report>>

(* A kline reaches the listeners of its stream, also of a symbol nobody    *)
(* monitors any more.                                                      *)
KlineReceived(w, s) ==
  /\ socket[w].state = "open" /\ s \in socket[w].streams
  /\ s \in heard
  /\ connectionStatus' = connectionStatus \cup {s}
  /\ silence' = [silence EXCEPT ![s] = 0]
  /\ UNCHANGED <<wsVars, monitored, toStart, heard, check, report>>

FiveMinutesPass ==
  /\ \E s \in KlineStreams : silence[s] < Silent
  /\ silence' = [s \in KlineStreams |-> IF silence[s] < Silent THEN silence[s] + 1 ELSE Silent]
  /\ UNCHANGED <<wsVars, monitored, toStart, heard, connectionStatus, check, report>>

-----------------------------------------------------------------------------
(* Variant: whoever was connected once is connected.                       *)
VerdictByStatus(s) ==
  IF s \in connectionStatus THEN "connected"
  ELSE IF silence[s] = Silent THEN "stale" ELSE "disconnected"

Verdict(s) ==
  IF s \in connectionStatus /\ silence[s] = 0 THEN "connected"
  ELSE IF silence[s] = Silent THEN "stale" ELSE "disconnected"

(* performHealthCheck looks at every symbol and then asks the database.    *)
PerformHealthCheck(c) ==
  /\ toStart = {} /\ check[c] = NoCheck
  /\ check' = [check EXCEPT ![c] =
                 [s \in KlineStreams |-> IF s \in monitored THEN Verdict(s) ELSE "none"]]
  /\ UNCHANGED <<wsVars, serviceVars, report>>

(* The answer of checkHealth, well or badly: what was found is emitted.    *)
HealthReported(c) ==
  /\ check[c] # NoCheck
  /\ report' = check[c]
  /\ check' = [check EXCEPT ![c] = NoCheck]
  /\ UNCHANGED <<wsVars, serviceVars>>

(* The client's sockets, and the streams a position adds and removes.      *)
ClientStep ==
  /\ \/ \E s \in Streams \ KlineStreams : Subscribe(s) \/ Unsubscribe(s)
     \/ \E w \in Sockets : Opened(w) \/ Closed(w)
     \/ Reconnect
  /\ UNCHANGED <<serviceVars, check, report>>

ProcessRestarts == \E w \in Sockets : Failed(w) /\ ServiceStarts

-----------------------------------------------------------------------------
MonitoringNext ==
  \/ \E s \in KlineStreams :
       \/ StartSymbol(s) \/ SubscribeSymbol(s) \/ UnsubscribeSymbol(s)
       \/ \E w \in Sockets : KlineReceived(w, s)
  \/ \E c \in Checks : PerformHealthCheck(c) \/ HealthReported(c)
  \/ FiveMinutesPass
  \/ ClientStep
  \/ ProcessRestarts

(* Time passes, the interval of the health check fires and the database    *)
(* answers.                                                                *)
MonitoringFairness ==
  /\ WF_monitoringVars(FiveMinutesPass)
  /\ \A c \in Checks :
       WF_monitoringVars(PerformHealthCheck(c)) /\ WF_monitoringVars(HealthReported(c))

MonitoringSpec ==
  MonitoringInit /\ [][MonitoringNext]_monitoringVars /\ MonitoringFairness

-----------------------------------------------------------------------------
(* The service's maps and the checks keep their types.                     *)
MonitoringTypeOK ==
  /\ WebSocketTypeOK
  /\ toStart \subseteq monitored /\ monitored \subseteq KlineStreams
  /\ heard \subseteq subscriptions /\ connectionStatus \subseteq heard
  /\ silence \in [KlineStreams -> 0..Silent]
  /\ check \in [Checks -> [KlineStreams -> Verdicts] \cup {NoCheck}]
  /\ report \in [KlineStreams -> Verdicts]

Carried(s) == \E w \in Sockets : socket[w].state \in {"connecting", "open"} /\ s \in socket[w].streams

(* A symbol that nothing streams does not go unnoticed: whatever the       *)
(* status still says, and however long the database takes to answer, a     *)
(* health check reports it stale, unless it is streamed again or given up. *)
SilentIsReported ==
  \A s \in KlineStreams :
    (s \in monitored /\ toStart = {} /\ ~Carried(s))
      ~> (report[s] = "stale" \/ Carried(s) \/ s \notin monitored \/ toStart # {})

(* Every new socket carries every symbol monitored by then: a reconnect    *)
(* heals the symbols that were subscribed while the client was connected,  *)
(* whatever positions and unsubscribeSymbol did to the set in between.     *)
ReconnectHeals ==
  [][\A w \in Sockets :
       socket[w].state = "gone" /\ socket'[w].state = "connecting" =>
         monitored' \ toStart' \subseteq socket'[w].streams]_monitoringVars
=============================================================================
