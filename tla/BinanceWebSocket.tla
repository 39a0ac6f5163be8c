--------------------------- MODULE BinanceWebSocket ---------------------------
(***************************************************************************)
(* BinanceWebSocketClient for one connection key: the set of subscribed    *)
(* streams, the sockets opened for them, and the reconnect timers.  A      *)
(* socket carries the streams named in its URL, those subscribed when it   *)
(* was created.  Sockets are external: they open, fail and close by        *)
(* themselves, and report it by an event later.                            *)
(***************************************************************************)
EXTENDS Integers, FiniteSets

CONSTANTS
  Streams,        \* stream names
  KlineStreams,   \* those whose name contains an underscore
  Sockets,        \* bound: sockets, there or due by a timer, at once
  NoSocket,
  MaxAttempts     \* MAX_RECONNECT_ATTEMPTS

ASSUME WebSocketAssumption ==
  /\ KlineStreams \subseteq Streams
  /\ NoSocket \notin Sockets
  /\ IsFiniteSet(Sockets) /\ MaxAttempts \in Nat \ {0}

VARIABLES
  subscriptions,  \* streams of the key; the Map entry stays when it is empty
  created,        \* the Map has the key, which is never removed
  connection,     \* connections: the socket of the key, or NoSocket
  socket,         \* socket: its state and the streams it carries
  attempts,       \* reconnectAttempts, 0 if not set
  timers,         \* pending reconnect timers
  gaveUp,         \* reconnectFailed was emitted since a socket opened
  failures        \* audit: sockets lost since one opened, up to MaxAttempts

wsVars == <<subscriptions, created, connection, socket, attempts, timers, gaveUp, failures>>

Gone == [state |-> "gone", streams |-> {}]
States == {"gone", "connecting", "failing", "open", "closing"}

Init ==
  /\ subscriptions = {}
  /\ created = FALSE
  /\ connection = NoSocket
  /\ socket = [w \in Sockets |-> Gone]
  /\ attempts = 0
  /\ timers = 0
  /\ gaveUp = FALSE
  /\ failures = 0

(* createConnection: the new socket takes the place of the one in the map. *)
CreateConnection(streams) ==
  \E w \in Sockets :
    /\ socket[w] = Gone
    /\ socket' = [socket EXCEPT ![w] = [state |-> "connecting", streams |-> streams]]
    /\ connection' = w

Load == Cardinality({w \in Sockets : socket[w] # Gone}) + timers

(* Variant: the socket is created before the stream is in the set.         *)
SubscribeLate(s) ==
  /\ connection = NoSocket => Load < Cardinality(Sockets)
  /\ subscriptions' = subscriptions \cup {s}
  /\ created' = TRUE
  /\ \/ connection = NoSocket /\ CreateConnection(subscriptions)
     \/ connection # NoSocket /\ UNCHANGED <<socket, connection>>
  /\ UNCHANGED <<attempts, timers, gaveUp, failures>>

(* subscribe: a socket is created only if the key has none.                *)
Subscribe(s) ==
  /\ connection = NoSocket => Load < Cardinality(Sockets)
  /\ subscriptions' = subscriptions \cup {s}
  /\ created' = TRUE
  /\ \/ connection = NoSocket /\ CreateConnection(subscriptions')
     \/ connection # NoSocket /\ UNCHANGED <<socket, connection>>
  /\ UNCHANGED <<attempts, timers, gaveUp, failures>>

(* closeConnection: an open socket begins its closing handshake, one that  *)
(* is still connecting will report an error.                               *)
CloseConnection ==
  /\ socket' = IF connection = NoSocket THEN socket
               ELSE [socket EXCEPT ![connection].state =
                       IF @ = "connecting" THEN "failing" ELSE "closing"]
  /\ connection' = NoSocket
  /\ attempts' = 0

(* unsubscribe splits the key at underscores and keeps two parts, so the   *)
(* name of a kline stream loses its interval and matches nothing.          *)
Unsubscribe(s) ==
  /\ created
  /\ subscriptions' = subscriptions \ (IF s \in KlineStreams THEN {} ELSE {s})
  /\ \/ subscriptions' = {} /\ CloseConnection
     \/ subscriptions' # {} /\ UNCHANGED <<connection, socket, attempts>>
  /\ UNCHANGED <<created, timers, gaveUp, failures>>

(* Variant: an open socket does not end the count.                         *)
OpenedStillCounting(w) ==
  /\ socket[w].state = "connecting"
  /\ socket' = [socket EXCEPT ![w].state = "open"]
  /\ gaveUp' = FALSE /\ failures' = 0
  /\ UNCHANGED <<subscriptions, created, connection, attempts, timers>>

(* The socket opened.                                                      *)
Opened(w) ==
  /\ socket[w].state = "connecting"
  /\ socket' = [socket EXCEPT ![w].state = "open"]
  /\ attempts' = 0
  /\ gaveUp' = FALSE /\ failures' = 0
  /\ UNCHANGED <<subscriptions, created, connection, timers>>

(* Variant: one attempt more.                                              *)
AttemptReconnectOnceMore ==
  \/ /\ attempts <= MaxAttempts /\ created
     /\ attempts' = attempts + 1
     /\ timers' = timers + 1
     /\ UNCHANGED gaveUp
  \/ /\ ~(attempts <= MaxAttempts /\ created)
     /\ gaveUp' = TRUE
     /\ UNCHANGED <<attempts, timers>>

(* attemptReconnect: a timer, or reconnectFailed after MaxAttempts.        *)
AttemptReconnect ==
  \/ /\ attempts < MaxAttempts /\ created
     /\ attempts' = attempts + 1
     /\ timers' = timers + 1
     /\ UNCHANGED gaveUp
  \/ /\ ~(attempts < MaxAttempts /\ created)
     /\ gaveUp' = TRUE
     /\ UNCHANGED <<attempts, timers>>

(* Variant: only the socket in the map reconnects.                         *)
ClosedIfCurrent(w) ==
  /\ socket[w].state \in {"open", "closing"}
  /\ socket' = [socket EXCEPT ![w] = Gone]
  /\ connection' = NoSocket
  /\ failures' = IF failures < MaxAttempts THEN failures + 1 ELSE failures
  /\ IF connection = w THEN AttemptReconnect ELSE UNCHANGED <<attempts, timers, gaveUp>>
  /\ UNCHANGED <<subscriptions, created>>

(* Variant: the close leaves the map to the reconnect that follows it.     *)
ClosedKept(w) ==
  /\ socket[w].state \in {"open", "closing"}
  /\ socket' = [socket EXCEPT ![w] = Gone]
  /\ failures' = IF failures < MaxAttempts THEN failures + 1 ELSE failures
  /\ AttemptReconnect
  /\ UNCHANGED <<subscriptions, created, connection>>

(* An open socket closed, by itself or as asked: its handler removes       *)
(* whatever socket the map has and tries to reconnect.                     *)
Closed(w) ==
  /\ socket[w].state \in {"open", "closing"}
  /\ socket' = [socket EXCEPT ![w] = Gone]
  /\ connection' = NoSocket
  /\ failures' = IF failures < MaxAttempts THEN failures + 1 ELSE failures
  /\ AttemptReconnect
  /\ UNCHANGED <<subscriptions, created>>

(* The timer fires, without looking whether the key has a socket.          *)
Reconnect ==
  /\ timers > 0
  /\ timers' = timers - 1
  /\ CreateConnection(subscriptions)
  /\ UNCHANGED <<subscriptions, created, attempts, gaveUp, failures>>

(* A socket reports an error.  The client emits 'error' in turn, for which *)
(* nobody registered a listener: Node throws, and the process starts anew. *)
Failed(w) ==
  /\ socket[w].state # "gone"
  /\ subscriptions' = {} /\ created' = FALSE
  /\ connection' = NoSocket /\ socket' = [v \in Sockets |-> Gone]
  /\ attempts' = 0 /\ timers' = 0
  /\ gaveUp' = FALSE /\ failures' = 0

Next ==
  \/ \E s \in Streams : Subscribe(s) \/ Unsubscribe(s)
  \/ \E w \in Sockets : Opened(w) \/ Closed(w) \/ Failed(w)
  \/ Reconnect

(* Timers fire, and a socket asked to close reports how that ended.        *)
Fairness ==
  /\ WF_wsVars(Reconnect)
  /\ \A w \in Sockets :
       /\ WF_wsVars(socket[w].state = "closing" /\ Closed(w))
       /\ WF_wsVars(socket[w].state = "failing" /\ Failed(w))

Spec == Init /\ [][Next]_wsVars /\ Fairness

-----------------------------------------------------------------------------
(* The maps of the client keep their types.                                *)
WebSocketTypeOK ==
  /\ subscriptions \subseteq Streams
  /\ created \in BOOLEAN
  /\ connection \in Sockets \cup {NoSocket}
  /\ socket \in [Sockets -> [state: States, streams: SUBSET Streams]]
  /\ attempts \in 0..MaxAttempts /\ Load \in 0..Cardinality(Sockets)
  /\ gaveUp \in BOOLEAN /\ failures \in 0..MaxAttempts

(* The map never holds a dead socket, though every close event, also a     *)
(* late one of a socket replaced long ago, clears the entry of the key.    *)
ConnectionIsAlive ==
  connection # NoSocket => socket[connection].state \in {"connecting", "open"}

(* reconnectFailed is emitted only after MaxAttempts losses in a row:      *)
(* every socket that opened starts the count anew.                         *)
GivesUpLate == gaveUp => failures = MaxAttempts

(* Subscribed streams without a live socket get one again, unless the      *)
(* attempts are used up: closes, timers and subscriptions in any order do  *)
(* not leave the key dead.                                                 *)
Alive == {w \in Sockets : socket[w].state \in {"connecting", "open"}}
SubscribedReconnects ==
  subscriptions # {} ~> (Alive # {} \/ gaveUp \/ subscriptions = {})
===============================================================================
