---------------------------- MODULE FuturesSystem ----------------------------
(***************************************************************************)
(* FuturesService with PositionMonitoringService behind the event bus: the *)
(* position notices a reply emits are handled before the call returns.     *)
(***************************************************************************)
EXTENDS FuturesTrading

VARIABLES
  refCount, subscribed,
  opens       \* audit: 'opened' notices per symbol since the last restart

Monitor == INSTANCE PositionMonitoring

systemVars == <<vars, refCount, subscribed, opens>>

SystemInit ==
  /\ Init
  /\ Monitor!MonitorInit
  /\ opens = [s \in Symbols |-> 0]

(* Reply, with the synchronous listeners of the notice it emits. *)
ReplyAndNotify(c) ==
  /\ Reply(c)
  /\ LET s == job[c].symbol
     IN  \/ /\ job[c].notice = "opened"
            /\ Monitor!HandlePositionOpened(s)
            /\ opens' = [opens EXCEPT ![s] = @ + 1]
         \/ /\ job[c].notice = "closed"
            /\ Monitor!HandlePositionClosed(s)
            /\ UNCHANGED opens
         \/ /\ job[c].notice = "none"
            /\ UNCHANGED <<refCount, subscribed, opens>>

(* The Map and the client's set are in memory: a restart begins with empty *)
(* ones.                                                                   *)
RestartSystem ==
  /\ Restart
  /\ refCount' = [s \in Symbols |-> 0]
  /\ subscribed' = [s \in Symbols |-> {}]
  /\ opens' = [s \in Symbols |-> 0]

SystemNext ==
  \/ /\ \/ \E c \in Calls : Arrival(c) \/ Progress(c)
        \/ \E s \in Liquidatable : Liquidate(s)
        \/ \E s \in Symbols, lev \in Leverages : SetLeverageRequest(s, lev)
     /\ UNCHANGED <<refCount, subscribed, opens>>
  \/ \E c \in Calls : ReplyAndNotify(c)
  \/ RestartSystem

SystemSpec == SystemInit /\ [][SystemNext]_systemVars

-----------------------------------------------------------------------------
(* The service's reference count and keys stay within their types. *)
SystemTypeOK == TypeOK /\ Monitor!MonitorTypeOK

(* The trade stream is subscribed exactly while the symbol is referenced,  *)
(* and a symbol is referenced at most as often as a position was announced *)
(* opened, however the replies of opens and closes overtake each other.    *)
(* The kline streams are there from the first opening on, referenced or    *)
(* not: unsubscribe never finds them, although handlePositionClosed (line  *)
(* 141) means to release all three.                                        *)
TradeStreamFollowsReferences ==
  \A s \in Symbols :
    /\ subscribed[s] = (IF refCount[s] > 0 THEN {"trade"} ELSE {})
                         \cup (IF opens[s] > 0 THEN Monitor!KlineStreams ELSE {})
    /\ refCount[s] <= opens[s]
=============================================================================
