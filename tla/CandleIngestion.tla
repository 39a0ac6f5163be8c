--------------------------- MODULE CandleIngestion ---------------------------
(***************************************************************************)
(* Candle15MService for one symbol: every kline message of the futures     *)
(* stream runs one handleFuturesKline per registered listener.  A handler  *)
(* updates the memory cache at once, awaits findByOpenTime, and for a      *)
(* completed candle starts saveCandle without awaiting it; candle.saved    *)
(* follows when the save returns.                                          *)
(*                                                                         *)
(* The market emits two klines per candle, one in progress and the final   *)
(* one; message k of the stream is Kline(k).  A socket delivers messages   *)
(* in order and may lose some while it is disconnected.                    *)
(***************************************************************************)
EXTENDS CandleStore, FiniteSets

CONSTANTS
  Sockets,       \* open connections of the stream
  MaxListeners,  \* bound: callbacks registered for the stream
  MaxMemory,     \* MAX_MEMORY_CANDLES
  MaxInFlight,   \* bound: handlers in flight at once
  MaxRestarts    \* bound: restarts of the process in a behaviour

Messages == 1..(2 * NumCandles)
Kline(k) == [t |-> (k + 1) \div 2, v |-> IF k % 2 = 1 THEN InProgress ELSE Final]

(* A handler is known by the message it got, from whom and as which        *)
(* listener; its save has the same name.                                   *)
Handlers == Sockets \X Messages \X (1..MaxListeners)
KlineOf(h) == Kline(h[2])

ASSUME IngestionAssumption ==
  /\ IsFiniteSet(Sockets) /\ Handlers \subseteq Savers
  /\ MaxListeners \in Nat \ {0} /\ MaxMemory \in Nat \ {0}
  /\ MaxInFlight \in Nat /\ MaxRestarts \in Nat

VARIABLES
  cursor,     \* socket: the last message it delivered or lost
  listeners,  \* callbacks registered for the stream, never removed
  monitored,  \* the symbol is in MONITORED_SYMBOLS
  loader,     \* subscribeSymbol: the await of loadSymbolDataToMemory
  memory,     \* memoryCandles of the symbol
  latest,     \* latestCandles: open time of the cached row, 0 if none
  handler,    \* handler: its await or how it ended, and its isNewCandle
  restarts

cacheVars == <<memory, latest>>
serviceVars == <<listeners, monitored, loader>>
ingestionVars == <<storeVars, cursor, cacheVars, serviceVars, handler, restarts>>

(* A handler of a completed candle ends having emitted candle.saved        *)
(* ("announced") or candle.save.failed ("failed"), or neither ("quiet"),   *)
(* or with the process ("killed").                                         *)
HandlerPc == {"none", "find", "saving", "announced", "failed", "quiet", "killed"}
At(pc) == [pc |-> pc, isNew |-> FALSE]

LoaderPc == {"idle", "rows", "latest"}
Idle == [pc |-> "idle", t |-> 0]

-----------------------------------------------------------------------------
LastOf(seq) == seq[Len(seq)]

(* Variant: the array is never trimmed.                                    *)
RememberAll(candles, candle) ==
  IF candles # <<>> /\ LastOf(candles).t = candle.t
  THEN [candles EXCEPT ![Len(candles)] = candle]
  ELSE Append(candles, candle)

(* Variant: every kline is appended.                                       *)
RememberAppended(candles, candle) ==
  LET grown == Append(candles, candle)
  IN  IF Len(grown) > MaxMemory
      THEN SubSeq(grown, Len(grown) - MaxMemory + 1, Len(grown)) ELSE grown

(* updateMemoryCache: only the last candle is compared, the array keeps    *)
(* the newest MaxMemory candles.                                           *)
Remember(candles, candle) ==
  LET grown == IF candles # <<>> /\ LastOf(candles).t = candle.t
               THEN [candles EXCEPT ![Len(candles)] = candle]
               ELSE Append(candles, candle)
  IN  IF Len(grown) > MaxMemory
      THEN SubSeq(grown, Len(grown) - MaxMemory + 1, Len(grown)) ELSE grown

Init ==
  /\ StoreInit
  /\ cursor = [w \in Sockets |-> 0]
  /\ listeners = 1
  /\ monitored = TRUE
  /\ loader = Idle
  /\ memory = <<>>
  /\ latest = 0
  /\ handler = [h \in Handlers |-> At("none")]
  /\ restarts = 0

(* A connection that is down misses a message (external).                  *)
Lose(w) ==
  /\ cursor[w] < 2 * NumCandles
  /\ cursor' = [cursor EXCEPT ![w] = @ + 1]
  /\ UNCHANGED <<storeVars, cacheVars, serviceVars, handler, restarts>>

(* What handlers do once updateLatestCandleCache is over: for a completed  *)
(* candle they start the save.                                             *)
Proceed(hs, candle, isNew) ==
  /\ handler' = [h \in Handlers |->
                   IF h \notin hs THEN handler[h]
                   ELSE IF candle.v = Final THEN [pc |-> "saving", isNew |-> isNew]
                   ELSE At("none")]
  /\ save' = [s \in Savers |->
                IF s \in hs /\ candle.v = Final THEN SaveOf(candle) ELSE save[s]]

(* A message reaches every listener.  checkIfNewCandle compares with the   *)
(* cached row; updateLatestCandleCache asks the database only if that row  *)
(* is not newer than the message.                                          *)
IsNewCandle(candle) == latest # candle.t
NeedsRow(candle) == latest = 0 \/ latest <= candle.t

InFlight == {h \in Handlers : handler[h].pc \in {"find", "saving"}}

Deliver(w) ==
  /\ cursor[w] < 2 * NumCandles
  /\ Cardinality(InFlight) + listeners <= MaxInFlight
  /\ LET k == cursor[w] + 1
         candle == Kline(k)
         hs == {<<w, k, l>> : l \in 1..listeners}
     IN  /\ cursor' = [cursor EXCEPT ![w] = k]
         /\ memory' = Remember(memory, candle)
         /\ \/ /\ NeedsRow(candle)
               /\ handler' = [h \in Handlers |->
                    IF h \in hs THEN [pc |-> "find", isNew |-> candle.v = Final /\ IsNewCandle(candle)]
                    ELSE handler[h]]
               /\ UNCHANGED save
            \/ ~NeedsRow(candle) /\ Proceed(hs, candle, IsNewCandle(candle))
  /\ UNCHANGED <<row, latest, serviceVars, restarts>>

(* Variant: the cached row is set although the database has none.          *)
LatestReadUnchecked(h, found) ==
  /\ handler[h].pc = "find"
  /\ latest' = KlineOf(h).t
  /\ Proceed({h}, KlineOf(h), handler[h].isNew)
  /\ UNCHANGED <<row, cursor, memory, serviceVars, restarts>>

(* findByOpenTime returns; a failure reads as "no row". *)
LatestRead(h, found) ==
  /\ handler[h].pc = "find"
  /\ latest' = IF found THEN KlineOf(h).t ELSE latest
  /\ Proceed({h}, KlineOf(h), handler[h].isNew)
  /\ UNCHANGED <<row, cursor, memory, serviceVars, restarts>>
ReadLatest(h) == LatestRead(h, row[KlineOf(h).t] # Absent)
ReadLatestFails(h) == LatestRead(h, FALSE)

(* The handler's save makes one of its own steps. *)
Store(h) ==
  /\ SaveStep(h)
  /\ UNCHANGED <<cursor, cacheVars, serviceVars, handler, restarts>>

(* Variant: candle.saved follows a save that threw, too.                   *)
AnnounceAnyway(h) ==
  /\ handler[h].pc = "saving" /\ save[h].pc \in {"returned", "thrown"}
  /\ handler' = [handler EXCEPT ![h] = At(IF @.isNew THEN "announced" ELSE "quiet")]
  /\ save' = [save EXCEPT ![h] = NoSave]
  /\ UNCHANGED <<row, cursor, cacheVars, serviceVars, restarts>>

(* Variant: nobody handles the failure.                                    *)
AnnounceUncaught(h) ==
  /\ handler[h].pc = "saving" /\ save[h].pc = "returned"
  /\ handler' = [handler EXCEPT ![h] = At(IF @.isNew THEN "announced" ELSE "quiet")]
  /\ save' = [save EXCEPT ![h] = NoSave]
  /\ UNCHANGED <<row, cursor, cacheVars, serviceVars, restarts>>

(* The save is over: candle.saved for a new candle, or candle.save.failed. *)
Announce(h) ==
  /\ handler[h].pc = "saving"
  /\ \/ /\ save[h].pc = "returned"
        /\ handler' = [handler EXCEPT ![h] = At(IF @.isNew THEN "announced" ELSE "quiet")]
     \/ /\ save[h].pc = "thrown"
        /\ handler' = [handler EXCEPT ![h] = At("failed")]
  /\ save' = [save EXCEPT ![h] = NoSave]
  /\ UNCHANGED <<row, cursor, cacheVars, serviceVars, restarts>>

-----------------------------------------------------------------------------
(* unsubscribeSymbol forgets the symbol but leaves the listener.           *)
UnsubscribeSymbol ==
  /\ monitored
  /\ monitored' = FALSE
  /\ memory' = <<>> /\ latest' = 0
  /\ UNCHANGED <<storeVars, cursor, listeners, loader, handler, restarts>>

(* subscribeSymbol adds one and loads the database into memory (one load   *)
(* at a time is a bound of the model).                                     *)
SubscribeSymbol ==
  /\ ~monitored /\ listeners < MaxListeners /\ loader = Idle
  /\ monitored' = TRUE
  /\ listeners' = listeners + 1
  /\ loader' = [pc |-> "rows", t |-> 0]
  /\ UNCHANGED <<storeVars, cursor, cacheVars, handler, restarts>>

LoadRows ==
  /\ loader.pc = "rows"
  /\ \E rows \in LatestRows(MaxMemory) :
       \/ rows = <<>> /\ loader' = Idle /\ UNCHANGED memory
       \/ /\ rows # <<>>
          /\ memory' = rows
          /\ loader' = [pc |-> "latest", t |-> LastOf(rows).t]
  /\ UNCHANGED <<storeVars, cursor, latest, listeners, monitored,
                 handler, restarts>>

(* The newest loaded candle becomes the cached row. *)
LoadLatest ==
  /\ loader.pc = "latest"
  /\ latest' = loader.t
  /\ loader' = Idle
  /\ UNCHANGED <<storeVars, cursor, memory, listeners, monitored,
                 handler, restarts>>

(* A failed query ends the load. *)
LoadFails ==
  /\ loader # Idle
  /\ loader' = Idle
  /\ UNCHANGED <<storeVars, cursor, cacheVars, listeners, monitored,
                 handler, restarts>>

(* A restart loses handlers and caches; onModuleInit loads the newest rows *)
(* (or fails to) and subscribes again.                                     *)
Restart ==
  /\ restarts < MaxRestarts
  /\ restarts' = restarts + 1
  /\ handler' = [h \in Handlers |->
                   IF handler[h].pc \notin {"find", "saving"} THEN handler[h]
                   ELSE IF KlineOf(h).v = Final THEN At("killed") ELSE At("none")]
  /\ NoSavesLeft
  /\ memory' \in LatestRows(MaxMemory) \cup {<<>>}
  /\ latest' = 0
  /\ listeners' = 1 /\ monitored' = TRUE /\ loader' = Idle
  /\ UNCHANGED <<row, cursor>>

-----------------------------------------------------------------------------
(* A step the service makes for handler h, once the database answered. *)
Answer(h) == ReadLatest(h) \/ ReadLatestFails(h) \/ Store(h) \/ Announce(h)

Next ==
  \/ \E w \in Sockets : Deliver(w) \/ Lose(w)
  \/ \E h \in Handlers : Answer(h)
  \/ UnsubscribeSymbol \/ SubscribeSymbol \/ LoadRows \/ LoadLatest \/ LoadFails
  \/ Restart

(* Every statement sent to the database is answered, well or badly. *)
Fairness == \A h \in Handlers : WF_ingestionVars(Answer(h))

Spec == Init /\ [][Next]_ingestionVars /\ Fairness

-----------------------------------------------------------------------------
(* The caches, the table and the handlers keep their types. *)
IngestionTypeOK ==
  /\ StoreTypeOK
  /\ cursor \in [Sockets -> 0..(2 * NumCandles)]
  /\ listeners \in 1..MaxListeners
  /\ monitored \in BOOLEAN
  /\ loader \in [pc: LoaderPc, t: 0..NumCandles]
  /\ memory \in Seq(Candle) /\ Len(memory) <= MaxMemory
  /\ latest \in 0..NumCandles
  /\ handler \in [Handlers -> [pc: HandlerPc, isNew: BOOLEAN]]
  /\ restarts \in Nat

(* memoryCandles is meant to be sorted by time without duplicates          *)
(* (Candle15MService 70), but updateMemoryCache compares only the last     *)
(* candle and appends whatever else arrives.  With the messages of one     *)
(* connection the array stays sorted, also when a load or a restart        *)
(* replaces it under running handlers: a step that unsorts it handles a    *)
(* message overtaken on another connection, of a candle older than one     *)
(* that connection has come to.                                            *)
OvertakenArrives ==
  \E w, x \in Sockets :
    cursor'[w] # cursor[w] /\ Kline(cursor'[w]).t < Kline(cursor[x]).t
OnlyOvertakingUnsorts ==
  [][Ascending(memory) /\ ~Ascending(memory') => OvertakenArrives]_ingestionVars

(* The handlers that emitted candle.saved or candle.save.failed for t. *)
Ended(t, pcs) == {h \in Handlers : KlineOf(h) = [t |-> t, v |-> Final] /\ handler[h].pc \in pcs}

(* candle.saved makes the analysis read the table: a candle announced is   *)
(* stored, and as the final candle, whatever saves overlap, throw after    *)
(* taking effect or lose the race to insert.                               *)
AnnouncedIsStored ==
  \A t \in Times : Ended(t, {"announced"}) # {} => row[t] = Final

(* No completed candle is swallowed: a handler that emits neither          *)
(* candle.saved nor candle.save.failed leaves it to another handler of the *)
(* same candle.  isNewCandle suppresses duplicates only, also after a load *)
(* or a restart changed the row it compares with.  This is of the stream   *)
(* alone: in the program a partial row stored by the history collection    *)
(* and cached by a kline makes the final candle look like a duplicate.     *)
EveryFinalIsTold ==
  \A t \in Times :
    Ended(t, {"quiet"}) # {} =>
      Ended(t, {"find", "saving", "announced", "failed", "killed"}) # {}

(* A completed candle being handled is announced, or its failure is, or    *)
(* the process restarts: no order of the replies leaves it hanging.        *)
FinalsAreTold ==
  \A t \in Times :
    Ended(t, {"find", "saving"}) # {} ~> Ended(t, {"announced", "failed", "killed"}) # {}
=============================================================================
