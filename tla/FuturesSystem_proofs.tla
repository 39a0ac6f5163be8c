------------------------- MODULE FuturesSystem_proofs -------------------------
(***************************************************************************)
(* FuturesService keeps its behaviour when PositionMonitoringService       *)
(* listens to it, and its trade streams follow its references.             *)
(***************************************************************************)
EXTENDS FuturesSystem, FuturesTrading_proofs

monitoringVars == <<refCount, subscribed, opens>>

(* What the handlers of the position notices find. *)
MonitoringInv ==
  /\ Monitor!MonitorTypeOK
  /\ opens \in [Symbols -> Nat]
  /\ TradeStreamFollowsReferences

(* A step of the composition is a step of FuturesService, or none.         *)
LEMMA SystemStep == [SystemNext]_systemVars => [Next]_vars
  <1> SUFFICES ASSUME [SystemNext]_systemVars PROVE [Next]_vars
    OBVIOUS
  <1>1. ASSUME NEW c \in Calls, Arrival(c) \/ Progress(c) \/ Reply(c) PROVE Next
    BY <1>1 DEF Next
  <1>2. ASSUME NEW s \in Liquidatable, Liquidate(s) PROVE Next
    BY <1>2 DEF Next
  <1>3. ASSUME NEW s \in Symbols, NEW lev \in Leverages, SetLeverageRequest(s, lev)
        PROVE  Next
    BY <1>3 DEF Next
  <1>4. ASSUME NEW c \in Calls, ReplyAndNotify(c) PROVE Next
    BY <1>1, <1>4 DEF ReplyAndNotify
  <1>5. CASE RestartSystem
    BY <1>5 DEF RestartSystem, Next
  <1>6. CASE UNCHANGED systemVars
    BY <1>6 DEF systemVars
  <1> QED
    BY <1>1, <1>2, <1>3, <1>4, <1>5, <1>6 DEF SystemNext

(* The handlers of the notices run inside FuturesService's emit and take   *)
(* nothing from it: every behaviour of the composition is one of           *)
(* FuturesService alone, whose theorems hold of it.                        *)
THEOREM SystemImplementsTrading == SystemSpec => Spec
  <1>1. SystemInit => Init
    BY DEF SystemInit
  <1> QED
    BY <1>1, SystemStep, PTL DEF SystemSpec, Spec

(* Types, promises, leverage and books are those of FuturesService.        *)
COROLLARY SystemKeepsPromises ==
  SystemSpec => [](/\ TypeOK /\ FreshOrdersKeepPromises /\ LeverageHonoured
                   /\ BooksBalance /\ UnseenOnlyInFlight)
  BY SystemImplementsTrading, TypeCorrect, OrdersKeepPromises, LeverageIsHonoured,
     BooksAlwaysBalance, NothingGoesUnreported, PTL

(* What the client holds of a symbol referenced r times and opened o times *)
(* depends on whether there is a reference and was an opening.             *)
Held(r, o) ==
  (IF r > 0 THEN {"trade"} ELSE {}) \cup (IF o > 0 THEN Monitor!KlineStreams ELSE {})

LEMMA HeldFacts ==
  ASSUME NEW r \in Nat, NEW o \in Nat
  PROVE  /\ Held(r, o) \subseteq Monitor!Streams
         /\ o > 0 /\ r > 0 => Held(r, o) = Monitor!Streams
         /\ o > 0 => Monitor!Unsubscribed(Held(r, o)) = Held(0, o)
  BY DEF Held, Monitor!Streams, Monitor!KlineStreams, Monitor!Unsubscribed

(* The two handlers keep streams and references in step.                   *)
LEMMA HandlersKeepStreams ==
  ASSUME MonitoringInv, NEW s \in Symbols,
         \/ Monitor!HandlePositionOpened(s) /\ opens' = [opens EXCEPT ![s] = @ + 1]
         \/ Monitor!HandlePositionClosed(s) /\ UNCHANGED opens
  PROVE  MonitoringInv'
  <1>1. /\ refCount \in [Symbols -> Nat] /\ opens \in [Symbols -> Nat]
        /\ subscribed \in [Symbols -> SUBSET Monitor!Streams]
        /\ \A t \in Symbols : subscribed[t] = Held(refCount[t], opens[t]) /\ refCount[t] <= opens[t]
    BY DEF Held, MonitoringInv, Monitor!MonitorTypeOK, TradeStreamFollowsReferences
  <1>2. CASE Monitor!HandlePositionOpened(s) /\ opens' = [opens EXCEPT ![s] = @ + 1]
    <2>1. /\ refCount' = [refCount EXCEPT ![s] = @ + 1]
          /\ subscribed' = [subscribed EXCEPT ![s] =
                              IF refCount[s] > 0 THEN @ ELSE @ \cup Monitor!Streams]
      BY <1>2 DEF Monitor!HandlePositionOpened
    <2>2. /\ refCount' \in [Symbols -> Nat] /\ opens' \in [Symbols -> Nat]
          /\ subscribed' \in [Symbols -> SUBSET Monitor!Streams]
      BY <1>1, <1>2, <2>1
    <2>3. ASSUME NEW t \in Symbols
          PROVE  /\ subscribed'[t] = Held(refCount'[t], opens'[t])
                 /\ refCount'[t] <= opens'[t]
      <3>1. CASE t = s
        <4>1. /\ refCount'[s] = refCount[s] + 1 /\ opens'[s] = opens[s] + 1
              /\ subscribed'[s] = IF refCount[s] > 0 THEN subscribed[s]
                                  ELSE subscribed[s] \cup Monitor!Streams
          BY <1>1, <1>2, <2>1
        <4>2. /\ refCount[s] \in Nat /\ opens[s] \in Nat /\ refCount[s] <= opens[s]
              /\ subscribed[s] = Held(refCount[s], opens[s])
          BY <1>1
        <4>3. Held(refCount[s] + 1, opens[s] + 1) = Monitor!Streams
          BY <4>2, HeldFacts
        <4>4. refCount[s] > 0 => Held(refCount[s], opens[s]) = Monitor!Streams
          BY <4>2, HeldFacts
        <4>5. subscribed[s] \subseteq Monitor!Streams
          BY <4>2, HeldFacts
        <4>6. subscribed[s] \cup Monitor!Streams = Monitor!Streams
          BY <4>5
        <4>7. subscribed'[s] = Monitor!Streams
          BY <4>1, <4>2, <4>4, <4>6
        <4>8. refCount'[s] <= opens'[s]
          BY <4>1, <4>2
        <4> QED
          BY <3>1, <4>1, <4>3, <4>7, <4>8
      <3>2. CASE t # s
        BY <1>1, <1>2, <2>1, <3>2
      <3> QED
        BY <3>1, <3>2
    <2> QED
      BY <2>2, <2>3 DEF Held, MonitoringInv, Monitor!MonitorTypeOK, TradeStreamFollowsReferences
  <1>3. CASE Monitor!HandlePositionClosed(s) /\ UNCHANGED opens
    <2>1. CASE UNCHANGED <<refCount, subscribed>>
      BY <1>3, <2>1 DEF MonitoringInv, Monitor!MonitorTypeOK, TradeStreamFollowsReferences
    <2>2. CASE /\ refCount[s] > 0
               /\ refCount' = [refCount EXCEPT ![s] = @ - 1]
               /\ subscribed' = [subscribed EXCEPT ![s] =
                                   IF refCount[s] > 1 THEN @ ELSE Monitor!Unsubscribed(@)]
      <3>1. /\ refCount' \in [Symbols -> Nat] /\ opens' \in [Symbols -> Nat]
            /\ subscribed' \in [Symbols -> SUBSET Monitor!Streams]
        BY <1>1, <1>3, <2>2 DEF Monitor!Unsubscribed
      <3>2. ASSUME NEW t \in Symbols
            PROVE  /\ subscribed'[t] = Held(refCount'[t], opens'[t])
                   /\ refCount'[t] <= opens'[t]
        <4>1. CASE t = s
          <5>1. /\ refCount'[s] = refCount[s] - 1 /\ opens'[s] = opens[s]
                /\ subscribed'[s] = IF refCount[s] > 1 THEN subscribed[s]
                                    ELSE Monitor!Unsubscribed(subscribed[s])
            BY <1>1, <1>3, <2>2
          <5>2. /\ refCount[s] \in Nat /\ opens[s] \in Nat /\ refCount[s] <= opens[s]
                /\ subscribed[s] = Held(refCount[s], opens[s]) /\ opens[s] > 0
            BY <1>1, <2>2
          <5>3. Monitor!Unsubscribed(Held(refCount[s], opens[s])) = Held(0, opens[s])
            BY <5>2, HeldFacts
          <5>4. refCount[s] > 1 => Held(refCount[s], opens[s]) = Held(refCount[s] - 1, opens[s])
            BY <5>2, HeldFacts
          <5> QED
            BY <2>2, <4>1, <5>1, <5>2, <5>3, <5>4
        <4>2. CASE t # s
          BY <1>1, <1>3, <2>2, <4>2
        <4> QED
          BY <4>1, <4>2
      <3> QED
        BY <3>1, <3>2 DEF Held, MonitoringInv, Monitor!MonitorTypeOK, TradeStreamFollowsReferences
    <2> QED
      BY <1>3, <2>1, <2>2 DEF Monitor!HandlePositionClosed, Monitor!monitorVars
  <1> QED
    BY <1>2, <1>3

(* Only a reply with a notice, and a restart, reach the monitor.           *)
LEMMA SystemNextMonitoring ==
  MonitoringInv /\ TypeOK /\ [SystemNext]_systemVars => MonitoringInv'
  <1> SUFFICES ASSUME MonitoringInv, TypeOK, [SystemNext]_systemVars PROVE MonitoringInv'
    OBVIOUS
  <1>1. CASE UNCHANGED monitoringVars
    BY <1>1 DEF monitoringVars, MonitoringInv, Monitor!MonitorTypeOK, TradeStreamFollowsReferences
  <1>2. ASSUME NEW c \in Calls, ReplyAndNotify(c) PROVE MonitoringInv'
    <2>1. job[c].symbol \in Symbols
      BY DEF TypeOK, Job
    <2> QED
      BY <1>1, <1>2, <2>1, HandlersKeepStreams DEF ReplyAndNotify, monitoringVars
  <1>3. CASE RestartSystem
    BY <1>3 DEF RestartSystem, MonitoringInv, Monitor!MonitorTypeOK, TradeStreamFollowsReferences
  <1> QED
    BY <1>1, <1>2, <1>3 DEF SystemNext, systemVars, monitoringVars

LEMMA SpecMonitoring == SystemSpec => []MonitoringInv
  <1>1. SystemInit => MonitoringInv
    BY DEF SystemInit, Monitor!MonitorInit, MonitoringInv, Monitor!MonitorTypeOK,
       TradeStreamFollowsReferences
  <1> QED
    BY <1>1, SystemNextMonitoring, SystemKeepsPromises, PTL DEF SystemSpec

(* The service, the account and the listener keep their types together: in *)
(* particular handlePositionClosed never counts below zero.                *)
THEOREM SystemTypeCorrect == SystemSpec => []SystemTypeOK
  <1>1. TypeOK /\ MonitoringInv => SystemTypeOK
    BY DEF MonitoringInv, SystemTypeOK
  <1> QED
    BY <1>1, SpecMonitoring, SystemKeepsPromises, PTL

(* Whatever the order of replies, lost ones and restarts: the trade stream *)
(* of a symbol is subscribed exactly while the symbol is referenced, its   *)
(* kline streams from the first opening on, and it has no more references  *)
(* than positions announced opened, for any number of symbols and calls.   *)
THEOREM TradeStreamFollows == SystemSpec => []TradeStreamFollowsReferences
  <1>1. MonitoringInv => TradeStreamFollowsReferences
    BY DEF MonitoringInv
  <1> QED
    BY <1>1, SpecMonitoring, PTL
=============================================================================
