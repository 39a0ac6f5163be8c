---------------------- MODULE CandleMonitoring_proofs ----------------------
(***************************************************************************)
(* What the WebSocket client and the monitoring over it guarantee for any  *)
(* streams, any number of sockets and any number of attempts.              *)
(*                                                                         *)
(* The client's invariant says that there is room for every timer          *)
(* (RoomInv), that a socket or a timer has its key in the map, and that    *)
(* the attempts never run ahead of the losses they count (AttemptsInv).    *)
(* The monitoring takes the client's steps only, so it keeps the client's  *)
(* invariant, and adds that a symbol monitored is a symbol subscribed      *)
(* (HeardInv): what makes a reconnect heal.                                *)
(***************************************************************************)
EXTENDS CandleMonitoring, FiniteSetTheorems, TLAPS

Occupied == {w \in Sockets : socket[w] # Gone}

SocketTypes ==
  /\ subscriptions \subseteq Streams
  /\ created \in BOOLEAN
  /\ connection \in Sockets \cup {NoSocket}
  /\ socket \in [Sockets -> [state : States, streams : SUBSET Streams]]
  /\ attempts \in 0..MaxAttempts
  /\ gaveUp \in BOOLEAN /\ failures \in 0..MaxAttempts

RoomInv == timers \in Nat /\ Load <= Cardinality(Sockets)

AttemptsInv ==
  /\ attempts <= failures /\ GivesUpLate
  /\ Occupied # {} \/ timers > 0 => created

WSInv == SocketTypes /\ RoomInv /\ ConnectionIsAlive /\ AttemptsInv

-----------------------------------------------------------------------------
LEMMA GoneIsASocket ==
  /\ Gone \in [state : States, streams : SUBSET Streams]
  /\ Gone.state = "gone"
  BY DEF Gone, States

LEMMA ZeroIsACount == 0 \in 0..MaxAttempts
  BY WebSocketAssumption

LEMMA OccupiedIsFinite ==
  /\ IsFiniteSet(Occupied) /\ Cardinality(Occupied) \in Nat
  /\ Cardinality(Sockets) \in Nat
  <1>1. Occupied \in SUBSET Sockets /\ IsFiniteSet(Sockets)
    BY WebSocketAssumption DEF Occupied
  <1> QED
    BY <1>1, FS_Subset, FS_CardinalityType

(* A socket created for the streams of the key takes one of the places.    *)
LEMMA Creation ==
  ASSUME SocketTypes, NEW S \in SUBSET Streams, CreateConnection(S)
  PROVE  /\ connection' \in Sockets
         /\ socket' \in [Sockets -> [state : States, streams : SUBSET Streams]]
         /\ socket[connection'] = Gone
         /\ socket'[connection'].state = "connecting" /\ socket'[connection'].streams = S
         /\ \A v \in Sockets \ {connection'} : socket'[v] = socket[v]
         /\ Occupied' = Occupied \cup {connection'}
         /\ Cardinality(Occupied)' = Cardinality(Occupied) + 1
  <1>1. PICK w \in Sockets :
          /\ socket[w] = Gone /\ connection' = w
          /\ socket' = [socket EXCEPT ![w] = [state |-> "connecting", streams |-> S]]
    BY DEF CreateConnection
  <1>2. [state |-> "connecting", streams |-> S] \in [state : States, streams : SUBSET Streams]
    BY DEF States
  <1>3. socket'[w] = [state |-> "connecting", streams |-> S] /\ socket'[w] # Gone
    BY <1>1, GoneIsASocket DEF SocketTypes
  <1>4. \A v \in Sockets \ {w} : socket'[v] = socket[v]
    BY <1>1 DEF SocketTypes
  <1>5. Occupied' = Occupied \cup {w} /\ w \notin Occupied
    BY <1>1, <1>3, <1>4 DEF Occupied
  <1>6. Cardinality(Occupied \cup {w}) = Cardinality(Occupied) + 1
    BY <1>5, OccupiedIsFinite, FS_AddElement
  <1> QED
    BY <1>1, <1>2, <1>3, <1>4, <1>5, <1>6 DEF SocketTypes

(* What a step that keeps every place does to the sockets of the key.      *)
LEMMA SubscribeKeepsWSInv ==
  ASSUME WSInv, NEW s \in Streams, Subscribe(s)
  PROVE  WSInv'
  <1>1. /\ subscriptions' = subscriptions \cup {s} /\ subscriptions' \subseteq Streams
        /\ created' = TRUE
        /\ UNCHANGED <<attempts, timers, gaveUp, failures>>
    BY DEF Subscribe, WSInv, SocketTypes
  <1>2. CASE connection = NoSocket
    <2>1. CreateConnection(subscriptions')
      BY <1>2 DEF Subscribe
    <2>2. PICK S \in SUBSET Streams : S = subscriptions'
      BY <1>1
    <2>3. CreateConnection(S)
      BY <2>1, <2>2
    <2>4. SocketTypes'
      BY <1>1, <2>3, Creation DEF WSInv, SocketTypes
    <2>5. RoomInv'
      <3>1. Load < Cardinality(Sockets)
        BY <1>2 DEF Subscribe
      <3>2. Cardinality(Occupied)' = Cardinality(Occupied) + 1
        BY <2>3, Creation DEF WSInv
      <3>3. Load = Cardinality(Occupied) + timers /\ Load' = Cardinality(Occupied)' + timers'
        BY DEF Load, Occupied
      <3> QED
        BY <1>1, <3>1, <3>2, <3>3, OccupiedIsFinite DEF WSInv, RoomInv
    <2>6. ConnectionIsAlive'
      BY <2>3, Creation DEF WSInv, ConnectionIsAlive
    <2>7. AttemptsInv'
      BY <1>1 DEF WSInv, AttemptsInv, GivesUpLate
    <2> QED
      BY <2>4, <2>5, <2>6, <2>7 DEF WSInv
  <1>3. CASE connection # NoSocket
    <2>1. UNCHANGED <<socket, connection>>
      BY <1>3 DEF Subscribe
    <2> QED
      BY <1>1, <2>1
      DEF WSInv, SocketTypes, RoomInv, Load, ConnectionIsAlive, AttemptsInv, GivesUpLate
  <1> QED
    BY <1>2, <1>3

LEMMA UnsubscribeKeepsWSInv ==
  ASSUME WSInv, NEW s \in Streams, Unsubscribe(s)
  PROVE  WSInv'
  <1>1. /\ created /\ subscriptions' \subseteq Streams
        /\ UNCHANGED <<created, timers, gaveUp, failures>>
    BY DEF Unsubscribe, WSInv, SocketTypes
  <1>2. CASE UNCHANGED <<connection, socket, attempts>>
    BY <1>1, <1>2
    DEF WSInv, SocketTypes, RoomInv, Load, Occupied, ConnectionIsAlive, AttemptsInv, GivesUpLate
  <1>3. CASE CloseConnection
    <2>1. connection' = NoSocket /\ attempts' = 0
      BY <1>3 DEF CloseConnection
    <2>2. /\ socket' \in [Sockets -> [state : States, streams : SUBSET Streams]]
          /\ Occupied' = Occupied
      <3>1. CASE connection = NoSocket
        BY <1>3, <3>1 DEF CloseConnection, WSInv, SocketTypes, Occupied
      <3>2. CASE connection # NoSocket
        <4>1. connection \in Sockets /\ socket[connection].state \in {"connecting", "open"}
          BY <3>2 DEF WSInv, SocketTypes, ConnectionIsAlive
        <4>2. PICK st \in {"failing", "closing"} :
                socket' = [socket EXCEPT ![connection].state = st]
          BY <1>3, <3>2, <4>1 DEF CloseConnection, WSInv, SocketTypes
        <4>3. /\ socket' \in [Sockets -> [state : States, streams : SUBSET Streams]]
              /\ socket'[connection].state = st
              /\ \A v \in Sockets \ {connection} : socket'[v] = socket[v]
          BY <4>1, <4>2 DEF WSInv, SocketTypes, States
        <4>4. socket'[connection] # Gone /\ socket[connection] # Gone
          BY <4>1, <4>3, GoneIsASocket
        <4> QED
          BY <4>1, <4>3, <4>4 DEF Occupied
      <3> QED
        BY <3>1, <3>2
    <2>3. SocketTypes'
      BY <1>1, <2>1, <2>2, WebSocketAssumption DEF WSInv, SocketTypes
    <2>4. RoomInv'
      BY <1>1, <2>2 DEF WSInv, RoomInv, Load, Occupied
    <2>5. AttemptsInv'
      BY <1>1, <2>1 DEF WSInv, SocketTypes, AttemptsInv, GivesUpLate
    <2> QED
      BY <2>1, <2>3, <2>4, <2>5 DEF WSInv, ConnectionIsAlive
  <1> QED
    BY <1>2, <1>3 DEF Unsubscribe

LEMMA OpenedKeepsWSInv ==
  ASSUME WSInv, NEW w \in Sockets, Opened(w)
  PROVE  WSInv'
  <1>1. /\ socket[w].state = "connecting"
        /\ socket' = [socket EXCEPT ![w].state = "open"]
        /\ attempts' = 0 /\ gaveUp' = FALSE /\ failures' = 0
        /\ UNCHANGED <<subscriptions, created, connection, timers>>
    BY DEF Opened
  <1>2. /\ socket' \in [Sockets -> [state : States, streams : SUBSET Streams]]
        /\ socket'[w].state = "open"
        /\ \A v \in Sockets \ {w} : socket'[v] = socket[v]
    BY <1>1 DEF WSInv, SocketTypes, States
  <1>3. socket'[w] # Gone /\ socket[w] # Gone
    BY <1>1, <1>2, GoneIsASocket
  <1>4. Occupied' = Occupied
    BY <1>2, <1>3 DEF Occupied
  <1>5. SocketTypes'
    BY <1>1, <1>2, ZeroIsACount DEF WSInv, SocketTypes
  <1>6. RoomInv'
    BY <1>1, <1>4 DEF WSInv, RoomInv, Load, Occupied
  <1>7. ConnectionIsAlive'
    BY <1>1, <1>2 DEF WSInv, SocketTypes, ConnectionIsAlive
  <1>8. AttemptsInv'
    BY <1>1, <1>4 DEF WSInv, AttemptsInv, GivesUpLate
  <1> QED
    BY <1>5, <1>6, <1>7, <1>8 DEF WSInv

(* A close frees a place before its timer takes one, and gives up only     *)
(* when the attempts, and so the losses, have reached the limit.           *)
LEMMA ClosedKeepsWSInv ==
  ASSUME WSInv, NEW w \in Sockets, Closed(w)
  PROVE  WSInv'
  <1>1. /\ socket[w].state \in {"open", "closing"}
        /\ socket' = [socket EXCEPT ![w] = Gone]
        /\ connection' = NoSocket
        /\ failures' = IF failures < MaxAttempts THEN failures + 1 ELSE failures
        /\ AttemptReconnect
        /\ UNCHANGED <<subscriptions, created>>
    BY DEF Closed
  <1>2. /\ attempts \in 0..MaxAttempts /\ failures \in 0..MaxAttempts /\ MaxAttempts \in Nat
        /\ timers \in Nat /\ attempts <= failures
    BY WebSocketAssumption DEF WSInv, SocketTypes, RoomInv, AttemptsInv
  <1>3. /\ socket' \in [Sockets -> [state : States, streams : SUBSET Streams]]
        /\ socket'[w] = Gone /\ \A v \in Sockets \ {w} : socket'[v] = socket[v]
    BY <1>1, GoneIsASocket DEF WSInv, SocketTypes
  <1>4. w \in Occupied /\ created
    <2>1. socket[w] # Gone
      BY <1>1, GoneIsASocket
    <2> QED
      BY <2>1 DEF Occupied, WSInv, AttemptsInv
  <1>5. Occupied' = Occupied \ {w}
    BY <1>3 DEF Occupied
  <1>6. Cardinality(Occupied)' = Cardinality(Occupied) - 1
    BY <1>4, <1>5, OccupiedIsFinite, FS_RemoveElement
  <1>7. /\ attempts' \in 0..MaxAttempts /\ attempts' <= failures'
        /\ timers' \in Nat /\ timers' <= timers + 1
        /\ gaveUp' \in BOOLEAN /\ failures' \in 0..MaxAttempts
        /\ gaveUp' => failures' = MaxAttempts
    <2>1. CASE /\ attempts < MaxAttempts /\ attempts' = attempts + 1
               /\ timers' = timers + 1 /\ gaveUp' = gaveUp
      <3>1. gaveUp => failures = MaxAttempts
        BY DEF WSInv, AttemptsInv, GivesUpLate
      <3>2. gaveUp \in BOOLEAN
        BY DEF WSInv, SocketTypes
      <3> QED
        BY <1>1, <1>2, <2>1, <3>1, <3>2
    <2>2. CASE ~(attempts < MaxAttempts) /\ gaveUp' = TRUE /\ UNCHANGED <<attempts, timers>>
      BY <1>1, <1>2, <2>2
    <2> QED
      BY <1>1, <1>4, <2>1, <2>2 DEF AttemptReconnect
  <1>8. SocketTypes'
    BY <1>1, <1>3, <1>7 DEF WSInv, SocketTypes
  <1>9. RoomInv'
    <2>1. Load = Cardinality(Occupied) + timers /\ Load' = Cardinality(Occupied)' + timers'
      BY DEF Load, Occupied
    <2> QED
      BY <1>2, <1>6, <1>7, <2>1, OccupiedIsFinite DEF WSInv, RoomInv
  <1>10. ConnectionIsAlive'
    BY <1>1 DEF ConnectionIsAlive
  <1>11. AttemptsInv'
    BY <1>1, <1>4, <1>7 DEF AttemptsInv, GivesUpLate
  <1> QED
    BY <1>8, <1>9, <1>10, <1>11 DEF WSInv

LEMMA ReconnectKeepsWSInv ==
  ASSUME WSInv, Reconnect
  PROVE  WSInv'
  <1>1. /\ timers > 0 /\ timers' = timers - 1
        /\ CreateConnection(subscriptions)
        /\ UNCHANGED <<subscriptions, created, attempts, gaveUp, failures>>
    BY DEF Reconnect
  <1>2. subscriptions \in SUBSET Streams
    BY DEF WSInv, SocketTypes
  <1>3. SocketTypes'
    BY <1>1, <1>2, Creation DEF WSInv, SocketTypes
  <1>4. RoomInv'
    <2>1. Load = Cardinality(Occupied) + timers /\ Load' = Cardinality(Occupied)' + timers'
      BY DEF Load, Occupied
    <2>2. Cardinality(Occupied)' = Cardinality(Occupied) + 1
      BY <1>1, <1>2, Creation DEF WSInv
    <2> QED
      BY <1>1, <2>1, <2>2, OccupiedIsFinite DEF WSInv, RoomInv
  <1>5. ConnectionIsAlive'
    <2>1. socket'[connection'].state = "connecting"
      BY <1>1, <1>2, Creation DEF WSInv
    <2> QED
      BY <2>1 DEF ConnectionIsAlive
  <1>6. AttemptsInv'
    BY <1>1 DEF WSInv, AttemptsInv, GivesUpLate
  <1> QED
    BY <1>3, <1>4, <1>5, <1>6 DEF WSInv

(* A process that starts, at first or anew. *)
LEMMA NothingYet == Init => WSInv
  <1> SUFFICES ASSUME Init PROVE WSInv
    OBVIOUS
  <1>1. SocketTypes
    BY GoneIsASocket, ZeroIsACount DEF Init, SocketTypes
  <1>2. Occupied = {}
    BY DEF Init, Occupied
  <1>3. RoomInv
    <2>1. Load = Cardinality(Occupied) + timers /\ timers = 0
      BY DEF Load, Occupied, Init
    <2> QED
      BY <1>2, <2>1, FS_EmptySet, OccupiedIsFinite DEF RoomInv
  <1>4. ConnectionIsAlive /\ AttemptsInv
    BY <1>2 DEF Init, ConnectionIsAlive, AttemptsInv, GivesUpLate
  <1> QED
    BY <1>1, <1>3, <1>4 DEF WSInv

LEMMA NextWSInv == WSInv /\ [Next]_wsVars => WSInv'
  <1> SUFFICES ASSUME WSInv, [Next]_wsVars PROVE WSInv'
    OBVIOUS
  <1>1. ASSUME NEW w \in Sockets, Failed(w) PROVE WSInv'
    <2>1. Init'
      BY <1>1 DEF Failed, Init
    <2> QED
      BY <2>1, NothingYet, PTL
  <1>2. CASE UNCHANGED wsVars
    BY <1>2 DEF wsVars, WSInv, SocketTypes, RoomInv, Load, Occupied, ConnectionIsAlive,
                AttemptsInv, GivesUpLate
  <1> QED
    BY <1>1, <1>2, SubscribeKeepsWSInv, UnsubscribeKeepsWSInv, OpenedKeepsWSInv,
       ClosedKeepsWSInv, ReconnectKeepsWSInv DEF Next

LEMMA WSInvImplies == WSInv => WebSocketTypeOK /\ ConnectionIsAlive /\ GivesUpLate
  <1> SUFFICES ASSUME WSInv PROVE WebSocketTypeOK /\ ConnectionIsAlive /\ GivesUpLate
    OBVIOUS
  <1>1. Load \in 0..Cardinality(Sockets)
    <2>1. Load = Cardinality(Occupied) + timers
      BY DEF Load, Occupied
    <2> QED
      BY <2>1, OccupiedIsFinite DEF WSInv, RoomInv
  <1> QED
    BY <1>1 DEF WSInv, SocketTypes, AttemptsInv, WebSocketTypeOK

(* The client's maps keep their types, and its sockets and timers their    *)
(* room: a timer never fires without a place for its socket.               *)
THEOREM ClientIsTyped == Spec => []WebSocketTypeOK
  BY NothingYet, NextWSInv, WSInvImplies, PTL DEF Spec

(* The map of the client never holds a dead socket. *)
THEOREM MapHoldsTheLiving == Spec => []ConnectionIsAlive
  BY NothingYet, NextWSInv, WSInvImplies, PTL DEF Spec

(* reconnectFailed is emitted only after MaxAttempts losses in a row. *)
THEOREM ClientGivesUpLate == Spec => []GivesUpLate
  BY NothingYet, NextWSInv, WSInvImplies, PTL DEF Spec

-----------------------------------------------------------------------------
(* The monitoring over the client. *)

(* Every step is a step of the client, or none. *)
LEMMA MonitoringStepIsAClientStep == [MonitoringNext]_monitoringVars => [Next]_wsVars
  <1> SUFFICES ASSUME [MonitoringNext]_monitoringVars PROVE [Next]_wsVars
    OBVIOUS
  <1>1. KlineStreams \subseteq Streams
    BY WebSocketAssumption
  <1>2. ASSUME NEW s \in KlineStreams, StartSymbol(s) \/ SubscribeSymbol(s)
        PROVE  Next
    BY <1>1, <1>2 DEF StartSymbol, SubscribeSymbol, Listen, Next
  <1>3. ASSUME NEW s \in KlineStreams, UnsubscribeSymbol(s) \/ \E w \in Sockets : KlineReceived(w, s)
        PROVE  UNCHANGED wsVars
    BY <1>3 DEF UnsubscribeSymbol, KlineReceived
  <1>4. ASSUME NEW c \in Checks, PerformHealthCheck(c) \/ HealthReported(c)
        PROVE  UNCHANGED wsVars
    BY <1>4 DEF PerformHealthCheck, HealthReported
  <1>5. CASE FiveMinutesPass \/ UNCHANGED monitoringVars
    BY <1>5 DEF FiveMinutesPass, monitoringVars
  <1>6. CASE ClientStep
    BY <1>6 DEF ClientStep, Next
  <1>7. CASE ProcessRestarts
    BY <1>7 DEF ProcessRestarts, Next
  <1> QED
    BY <1>2, <1>3, <1>4, <1>5, <1>6, <1>7 DEF MonitoringNext

LEMMA MonitoringWSInv == MonitoringSpec => []WSInv
  <1>1. MonitoringInit => Init
    BY DEF MonitoringInit
  <1> QED
    BY <1>1, NothingYet, NextWSInv, MonitoringStepIsAClientStep, PTL DEF MonitoringSpec

(* A symbol that is monitored, but for those startMonitoring has not come  *)
(* to, is in the set of the key, and no position's close takes it out.     *)
ServiceTypes ==
  /\ toStart \subseteq monitored /\ monitored \subseteq KlineStreams
  /\ connectionStatus \subseteq heard
  /\ silence \in [KlineStreams -> 0..Silent]
  /\ check \in [Checks -> [KlineStreams -> Verdicts] \cup {NoCheck}]
  /\ report \in [KlineStreams -> Verdicts]

HeardInv ==
  /\ heard \subseteq subscriptions /\ heard \subseteq KlineStreams
  /\ monitored \ toStart \subseteq heard

LEMMA NothingFoundIsFound == NothingFound \in [KlineStreams -> Verdicts]
  BY DEF NothingFound, Verdicts

LEMMA NextMonitoring ==
  ServiceTypes /\ HeardInv /\ [MonitoringNext]_monitoringVars => ServiceTypes' /\ HeardInv'
  <1> SUFFICES ASSUME ServiceTypes, HeardInv, [MonitoringNext]_monitoringVars
               PROVE  ServiceTypes' /\ HeardInv'
    OBVIOUS
  <1>0. 0 \in 0..Silent /\ Silent \in 0..Silent
    BY DEF Silent
  <1>1. ASSUME NEW s \in KlineStreams, StartSymbol(s) \/ SubscribeSymbol(s)
        PROVE  ServiceTypes' /\ HeardInv'
    <2>1. /\ heard' = heard \cup {s} /\ subscriptions' = subscriptions \cup {s}
          /\ connectionStatus' = connectionStatus \cup {s}
          /\ silence' = [silence EXCEPT ![s] = 0]
          /\ UNCHANGED <<check, report>>
      BY <1>1 DEF StartSymbol, SubscribeSymbol, Listen, Subscribe
    <2>2. \/ toStart' = toStart \ {s} /\ monitored' = monitored
          \/ toStart = {} /\ toStart' = toStart /\ monitored' = monitored \cup {s}
      BY <1>1 DEF StartSymbol, SubscribeSymbol
    <2>3. silence' \in [KlineStreams -> 0..Silent]
      BY <1>0, <2>1 DEF ServiceTypes
    <2>4. /\ toStart' \subseteq monitored' /\ monitored' \subseteq KlineStreams
          /\ connectionStatus' \subseteq heard'
          /\ monitored' \ toStart' \subseteq heard'
      BY <2>1, <2>2 DEF ServiceTypes, HeardInv
    <2> QED
      BY <2>1, <2>3, <2>4 DEF ServiceTypes, HeardInv
  <1>2. ASSUME NEW s \in KlineStreams, UnsubscribeSymbol(s)
        PROVE  ServiceTypes' /\ HeardInv'
    BY <1>0, <1>2 DEF UnsubscribeSymbol, wsVars, ServiceTypes, HeardInv
  <1>3. ASSUME NEW s \in KlineStreams, NEW w \in Sockets, KlineReceived(w, s)
        PROVE  ServiceTypes' /\ HeardInv'
    BY <1>0, <1>3 DEF KlineReceived, wsVars, ServiceTypes, HeardInv
  <1>4. ASSUME NEW c \in Checks, PerformHealthCheck(c)
        PROVE  ServiceTypes' /\ HeardInv'
    <2>1. [s \in KlineStreams |-> IF s \in monitored THEN Verdict(s) ELSE "none"]
            \in [KlineStreams -> Verdicts]
      BY DEF Verdict, Verdicts
    <2> QED
      BY <1>4, <2>1 DEF PerformHealthCheck, wsVars, serviceVars, ServiceTypes, HeardInv
  <1>5. ASSUME NEW c \in Checks, HealthReported(c)
        PROVE  ServiceTypes' /\ HeardInv'
    BY <1>5 DEF HealthReported, wsVars, serviceVars, ServiceTypes, HeardInv
  <1>6. CASE FiveMinutesPass
    <2>1. silence' \in [KlineStreams -> 0..Silent]
      BY <1>0, <1>6 DEF FiveMinutesPass, ServiceTypes, Silent
    <2> QED
      BY <1>6, <2>1 DEF FiveMinutesPass, wsVars, ServiceTypes, HeardInv
  <1>7. CASE ClientStep
    <2>1. UNCHANGED <<serviceVars, check, report>>
      BY <1>7 DEF ClientStep
    <2>2. heard \subseteq subscriptions'
      <3>1. ASSUME NEW s \in Streams \ KlineStreams, Subscribe(s) \/ Unsubscribe(s)
            PROVE  heard \subseteq subscriptions'
        BY <3>1 DEF Subscribe, Unsubscribe, HeardInv
      <3>2. ASSUME (\E w \in Sockets : Opened(w) \/ Closed(w)) \/ Reconnect
            PROVE  heard \subseteq subscriptions'
        BY <3>2 DEF Opened, Closed, Reconnect, HeardInv
      <3> QED
        BY <1>7, <3>1, <3>2 DEF ClientStep
    <2> QED
      BY <2>1, <2>2 DEF serviceVars, ServiceTypes, HeardInv
  <1>8. CASE ProcessRestarts
    BY <1>0, <1>8, NothingFoundIsFound, MonitoringAssumption
    DEF ProcessRestarts, ServiceStarts, Failed, ServiceTypes, HeardInv
  <1>9. CASE UNCHANGED monitoringVars
    BY <1>9 DEF monitoringVars, wsVars, serviceVars, ServiceTypes, HeardInv
  <1> QED
    BY <1>1, <1>2, <1>3, <1>4, <1>5, <1>6, <1>7, <1>8, <1>9 DEF MonitoringNext

LEMMA MonitoringInvariants == MonitoringSpec => [](ServiceTypes /\ HeardInv)
  <1>1. MonitoringInit => ServiceTypes /\ HeardInv
    <2>1. Silent \in 0..Silent
      BY DEF Silent
    <2> QED
      BY <2>1, NothingFoundIsFound, MonitoringAssumption
      DEF MonitoringInit, Init, ServiceTypes, HeardInv
  <1> QED
    BY <1>1, NextMonitoring, PTL DEF MonitoringSpec

(* The service's maps keep their types over any number of reconnects,      *)
(* restarts and health checks, and nobody is listened to who is not in the *)
(* set of the client.                                                      *)
THEOREM MonitoringIsTyped == MonitoringSpec => []MonitoringTypeOK
  <1>1. ServiceTypes /\ HeardInv /\ WebSocketTypeOK => MonitoringTypeOK
    BY DEF ServiceTypes, HeardInv, MonitoringTypeOK
  <1> QED
    BY <1>1, MonitoringInvariants, MonitoringWSInv, WSInvImplies, PTL

(* Every socket is created for all that is subscribed by then. *)
LEMMA NewSocketsCarryAll ==
  ASSUME SocketTypes, [MonitoringNext]_monitoringVars, NEW w \in Sockets,
         socket[w].state = "gone", socket'[w].state = "connecting"
  PROVE  socket'[w].streams = subscriptions'
  <1>1. ASSUME NEW S \in SUBSET Streams, CreateConnection(S)
        PROVE  socket'[w].streams = S
    <2>1. w = connection'
      BY <1>1, Creation
    <2> QED
      BY <1>1, <2>1, Creation
  <1>2. ASSUME NEW s \in Streams, Subscribe(s)
        PROVE  socket'[w].streams = subscriptions'
    <2>1. CreateConnection(subscriptions')
      BY <1>2 DEF Subscribe
    <2>2. PICK S \in SUBSET Streams : S = subscriptions'
      BY <1>2 DEF Subscribe, SocketTypes
    <2> QED
      BY <1>1, <2>1, <2>2
  <1>3. ASSUME NEW s \in Streams, Unsubscribe(s) PROVE FALSE
    BY <1>3 DEF Unsubscribe, CloseConnection, SocketTypes
  <1>4. ASSUME NEW v \in Sockets, Opened(v) \/ Closed(v) \/ Failed(v) PROVE FALSE
    <2>1. Gone.state = "gone"
      BY GoneIsASocket
    <2>2. CASE Opened(v)
      BY <2>2 DEF Opened, SocketTypes
    <2>3. CASE Closed(v) \/ Failed(v)
      BY <2>1, <2>3 DEF Closed, Failed, SocketTypes
    <2> QED
      BY <1>4, <2>2, <2>3
  <1>5. CASE Reconnect
    <2>1. PICK S \in SUBSET Streams : S = subscriptions
      BY DEF SocketTypes
    <2> QED
      BY <1>1, <1>5, <2>1 DEF Reconnect
  <1>6. CASE UNCHANGED wsVars
    BY <1>6 DEF wsVars
  <1> QED
    BY <1>2, <1>3, <1>4, <1>5, <1>6, MonitoringStepIsAClientStep DEF Next

(* A reconnect heals: a new socket, whichever of a subscription and a      *)
(* timer creates it, carries every symbol monitored by then.               *)
THEOREM ReconnectsAlwaysHeal == MonitoringSpec => ReconnectHeals
  <1>1. /\ SocketTypes /\ HeardInv' /\ [MonitoringNext]_monitoringVars
        => \A w \in Sockets :
             socket[w].state = "gone" /\ socket'[w].state = "connecting" =>
               monitored' \ toStart' \subseteq socket'[w].streams
    BY NewSocketsCarryAll DEF HeardInv
  <1>2. WSInv => SocketTypes
    BY DEF WSInv
  <1> QED
    BY <1>1, <1>2, MonitoringInvariants, MonitoringWSInv, PTL DEF MonitoringSpec, ReconnectHeals
=============================================================================
