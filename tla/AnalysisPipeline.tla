--------------------------- MODULE AnalysisPipeline ---------------------------
(***************************************************************************)
(* From candle.saved to the user, for one symbol: the analysis handler of  *)
(* TechnicalAnalysisEventService, the strategies it votes with, and        *)
(* NotificationService, whose handler of analysis.completed runs inside    *)
(* the emit until it awaits the post to Telegram.                          *)
(*                                                                         *)
(* An analysis is one candle.saved event; the events are not queued, so    *)
(* analyses overlap.  The table is known by its number of candles: each    *)
(* query of an analysis reads the table of its own moment.                 *)
(***************************************************************************)
EXTENDS Integers, FiniteSets

CONSTANTS
  Analyses,      \* candle.saved events of the behaviour
  NumCandles,    \* bound: candles stored
  MinAtr,        \* candles the cached ATR needs (15)
  MinSummary,    \* candles the indicator summary needs (200)
  BasicVotes,    \* buy minus sell votes of the basic strategies, per table
  AdvancedVotes, \* the same for the advanced ones
  MaxMinutes,    \* bound: minutes that pass
  MaxRestarts    \* bound: restarts of the process

Tables == 0..NumCandles

ASSUME AnalysisAssumption ==
  /\ IsFiniteSet(Analyses) /\ NumCandles \in Nat
  /\ {MinAtr, MinSummary} \subseteq Nat \ {0}
  /\ {BasicVotes, AdvancedVotes} \subseteq [Tables -> -5..5]
  /\ {MaxMinutes, MaxRestarts} \subseteq Nat

VARIABLES
  stored,     \* the table: how many candles it has
  atr,        \* cache: the table the cached ATR was computed from, 0 if none
  analysis,   \* analysis: its await, its locals and how it ended
  sent,       \* sentMessages: keys marked as sent
  minute,     \* the clock, as fine as the keys are
  restarts,
  delivered,  \* audit: messages that reached the user
  refused,    \* audit: keys of a message Telegram did not take
  doubled     \* audit: keys of two messages in flight at once

serviceVars == <<atr, sent, analysis>>
auditVars == <<delivered, refused, doubled>>
vars == <<stored, minute, restarts, serviceVars, auditVars>>

Signals == {"BUY", "SELL", "NEUTRAL", "HOLD"}
Pc == {"none", "atr", "caching", "summary", "basic", "advanced", "rate", "sending", "ended"}
Outcomes == {"none", "hold", "suppressed", "marked", "error", "killed"}

(* seen is the table of the query in flight, priced the one of the summary *)
(* (0 after the default that stands for a failed analysis).                *)
Analysis == [pc: Pc, candle: Tables, seen: Tables, priced: Tables, votes: -10..10,
             signal: Signals, minute: 0..MaxMinutes, outcome: Outcomes]
NoAnalysis == [pc |-> "none", candle |-> 0, seen |-> 0, priced |-> 0, votes |-> 0,
               signal |-> "HOLD", minute |-> 0, outcome |-> "none"]

Keys == [signal: Signals, minute: 0..MaxMinutes, life: 0..MaxRestarts]

(* Variant: the minute is left out of the key.                             *)
KeyWithoutMinute(a) == [signal |-> a.signal, minute |-> 0, life |-> restarts]

(* The key of a message: symbol, type and (missing) timeframe are the same *)
(* for all; the map of sent messages does not survive a restart.           *)
KeyOf(a) == [signal |-> a.signal, minute |-> a.minute, life |-> restarts]

Active == {e \in Analyses : analysis[e].pc \notin {"none", "ended"}}
Sending == {e \in Analyses : analysis[e].pc = "sending"}

Moves(e, a) == analysis' = [analysis EXCEPT ![e] = a]

-----------------------------------------------------------------------------
Init ==
  /\ stored = 0
  /\ atr = 0
  /\ analysis = [e \in Analyses |-> NoAnalysis]
  /\ sent = {}
  /\ minute = 0
  /\ restarts = 0
  /\ delivered = {} /\ refused = {} /\ doubled = {}

(* Another candle is in the table (external to this module).               *)
StoreCandle ==
  /\ stored < NumCandles
  /\ stored' = stored + 1
  /\ UNCHANGED <<minute, restarts, serviceVars, auditVars>>

(* The clock shows the next minute.                                        *)
Tick ==
  /\ minute < MaxMinutes
  /\ minute' = minute + 1
  /\ UNCHANGED <<stored, restarts, serviceVars, auditVars>>

(* candle.saved of a candle in the table, possibly not the first event of  *)
(* that candle: the handler asks for the candles of the ATR.               *)
CandleSaved(e, candle) ==
  /\ analysis[e].pc = "none"
  /\ candle \in 1..stored
  /\ Moves(e, [NoAnalysis EXCEPT !.pc = "atr", !.candle = candle])
  /\ UNCHANGED <<stored, minute, restarts, atr, sent, auditVars>>

(* calculateAndCacheATR: the query sees a table, and when its reply        *)
(* arrives the cache is set, whatever was cached meanwhile.  A failed      *)
(* query reads as no candles.                                              *)
QueryAtr(e) ==
  /\ analysis[e].pc = "atr"
  /\ \E seen \in {0, stored} : Moves(e, [analysis[e] EXCEPT !.pc = "caching", !.seen = seen])
  /\ UNCHANGED <<stored, minute, restarts, atr, sent, auditVars>>

(* Variant: too few candles are not told from enough.                      *)
CacheAtrUnchecked(e) ==
  /\ analysis[e].pc = "caching"
  /\ atr' = analysis[e].seen
  /\ Moves(e, [analysis[e] EXCEPT !.pc = "summary", !.seen = 0])
  /\ UNCHANGED <<stored, minute, restarts, sent, auditVars>>

CacheAtr(e) ==
  /\ analysis[e].pc = "caching"
  /\ atr' = IF analysis[e].seen >= MinAtr THEN analysis[e].seen ELSE atr
  /\ Moves(e, [analysis[e] EXCEPT !.pc = "summary", !.seen = 0])
  /\ UNCHANGED <<stored, minute, restarts, sent, auditVars>>

(* getIndicatorSummary throws below MinSummary candles or when its query   *)
(* fails; the analysis then is the default, HOLD at price 0.  (Strategies  *)
(* executed before it are of no consequence.)                              *)
ReadSummary(e) ==
  /\ analysis[e].pc = "summary"
  /\ stored >= MinSummary
  /\ Moves(e, [analysis[e] EXCEPT !.pc = "basic", !.priced = stored])
  /\ UNCHANGED <<stored, minute, restarts, atr, sent, auditVars>>

(* Variants: the default is a signal that is told; the failure is not      *)
(* caught where it occurs, and only the handler's catch ends the analysis. *)
SummaryFailsNeutral(e) ==
  /\ analysis[e].pc = "summary"
  /\ Moves(e, [analysis[e] EXCEPT !.pc = "rate", !.signal = "NEUTRAL"])
  /\ UNCHANGED <<stored, minute, restarts, atr, sent, auditVars>>
SummaryFailsUncaught(e) ==
  /\ analysis[e].pc = "summary"
  /\ Moves(e, [NoAnalysis EXCEPT !.pc = "ended", !.outcome = "error"])
  /\ UNCHANGED <<stored, minute, restarts, atr, sent, auditVars>>

SummaryFails(e) ==
  /\ analysis[e].pc = "summary"
  /\ Moves(e, [analysis[e] EXCEPT !.pc = "rate", !.signal = "HOLD"])
  /\ UNCHANGED <<stored, minute, restarts, atr, sent, auditVars>>

(* analyzeSymbol: the votes of two groups of strategies, each from its own *)
(* reads (here one table per group); strategies whose query failed have no *)
(* vote.                                                                   *)
Overall(votes) == IF votes > 0 THEN "BUY" ELSE IF votes < 0 THEN "SELL" ELSE "NEUTRAL"

VoteBasic(e) ==
  /\ analysis[e].pc = "basic"
  /\ \E votes \in {0, BasicVotes[stored]} :
       Moves(e, [analysis[e] EXCEPT !.pc = "advanced", !.votes = votes])
  /\ UNCHANGED <<stored, minute, restarts, atr, sent, auditVars>>
VoteAdvanced(e) ==
  /\ analysis[e].pc = "advanced"
  /\ \E votes \in {0, AdvancedVotes[stored]} :
       Moves(e, [analysis[e] EXCEPT !.pc = "rate", !.votes = 0,
                                    !.signal = Overall(analysis[e].votes + votes)])
  /\ UNCHANGED <<stored, minute, restarts, atr, sent, auditVars>>

(* The exchange rate is there, or its default: analysis.completed.  HOLD   *)
(* is not told, a key that was sent is not sent again, and anything else   *)
(* is posted.                                                              *)
Emit(e) ==
  /\ analysis[e].pc = "rate"
  /\ LET a == [analysis[e] EXCEPT !.minute = minute]
         ended(outcome) == [a EXCEPT !.pc = "ended", !.outcome = outcome]
     IN  \/ a.signal = "HOLD" /\ Moves(e, ended("hold")) /\ UNCHANGED doubled
         \/ /\ a.signal # "HOLD" /\ KeyOf(a) \in sent
            /\ Moves(e, ended("suppressed"))
            /\ UNCHANGED doubled
         \/ /\ a.signal # "HOLD" /\ KeyOf(a) \notin sent
            /\ Moves(e, [a EXCEPT !.pc = "sending"])
            /\ doubled' = IF \E f \in Sending : KeyOf(analysis[f]) = KeyOf(a)
                          THEN doubled \cup {KeyOf(a)} ELSE doubled
  /\ UNCHANGED <<stored, minute, restarts, atr, sent, delivered, refused>>

(* Variant: only a refused message is marked, never one that arrived.      *)
PostedUnmarked(e, reached) ==
  /\ analysis[e].pc = "sending"
  /\ Moves(e, [analysis[e] EXCEPT !.pc = "ended", !.outcome = "marked"])
  /\ sent' = IF reached THEN sent ELSE sent \cup {KeyOf(analysis[e])}
  /\ delivered' = IF reached
                  THEN delivered \cup {[by |-> e, key |-> KeyOf(analysis[e])]} ELSE delivered
  /\ refused' = IF reached THEN refused ELSE refused \cup {KeyOf(analysis[e])}
  /\ UNCHANGED <<stored, minute, restarts, atr, doubled>>

(* The post ends.  TelegramClient swallows a failure, so the message is    *)
(* marked as sent in any case.                                             *)
Posted(e, reached) ==
  /\ analysis[e].pc = "sending"
  /\ Moves(e, [analysis[e] EXCEPT !.pc = "ended", !.outcome = "marked"])
  /\ sent' = sent \cup {KeyOf(analysis[e])}
  /\ delivered' = IF reached
                  THEN delivered \cup {[by |-> e, key |-> KeyOf(analysis[e])]} ELSE delivered
  /\ refused' = IF reached THEN refused ELSE refused \cup {KeyOf(analysis[e])}
  /\ UNCHANGED <<stored, minute, restarts, atr, doubled>>

(* The process restarts: analyses under way and everything in memory are   *)
(* gone, and nothing analyses their candles again.  onModuleInit fills the *)
(* ATR cache if it can.                                                    *)
Restart ==
  /\ restarts < MaxRestarts
  /\ restarts' = restarts + 1
  /\ analysis' = [e \in Analyses |->
                    IF e \in Active
                    THEN [NoAnalysis EXCEPT !.pc = "ended", !.outcome = "killed"]
                    ELSE analysis[e]]
  /\ sent' = {}
  /\ atr' \in IF stored >= MinAtr THEN {0, stored} ELSE {0}
  /\ UNCHANGED <<stored, minute, auditVars>>

-----------------------------------------------------------------------------
Step(e) ==
  \/ QueryAtr(e) \/ CacheAtr(e)
  \/ ReadSummary(e) \/ SummaryFails(e) \/ VoteBasic(e) \/ VoteAdvanced(e)
  \/ Emit(e)
  \/ \E reached \in BOOLEAN : Posted(e, reached)

Next ==
  \/ StoreCandle \/ Tick
  \/ \E e \in Analyses : Step(e) \/ \E candle \in 1..NumCandles : CandleSaved(e, candle)
  \/ Restart

(* Every query and every post is answered, well or badly.                  *)
Fairness == \A e \in Analyses : WF_vars(Step(e))

Spec == Init /\ [][Next]_vars /\ Fairness

-----------------------------------------------------------------------------
(* The locals of an analysis and the keys keep their types; an ATR that is *)
(* cached came from a table that had enough candles for it.                *)
AnalysisTypeOK ==
  /\ stored \in Tables /\ minute \in 0..MaxMinutes /\ restarts \in 0..MaxRestarts
  /\ atr = 0 \/ atr \in MinAtr..stored
  /\ analysis \in [Analyses -> Analysis]
  /\ {sent, refused, doubled} \subseteq SUBSET Keys
  /\ delivered \subseteq [by: Analyses, key: Keys]

(* "candle.saved, analysis, analysis.completed, notification" (AppModule   *)
(* 100): every event taken up ends in analysis.completed, in HOLD when the *)
(* analysis fails, unless the process restarts; no failing query or post   *)
(* leaves it hanging or ends it in analysis.error.                         *)
EveryCandleIsAnalysed ==
  \A e \in Analyses :
    e \in Active ~> analysis[e].outcome \in {"hold", "suppressed", "marked", "killed"}

(* sendNotification prevents duplicates (704) except for what its check,   *)
(* an await before the mark, cannot see: the user gets one message per     *)
(* key unless two of them were in flight together.                         *)
SentTwiceOnlyTogether ==
  \A m, n \in delivered : m.key = n.key /\ m # n => m.key \in doubled

(* A message suppressed as a duplicate has been told already, or Telegram  *)
(* refused the one it duplicates: no key is marked for another message.    *)
SuppressedWasTold ==
  \A e \in Analyses :
    analysis[e].outcome = "suppressed" =>
      \E life \in 0..restarts :
        LET key == [signal |-> analysis[e].signal, minute |-> analysis[e].minute, life |-> life]
        IN  key \in refused \/ \E m \in delivered : m.key = key /\ m.by # e

(* What is told is of a table with the candle that caused it, and never    *)
(* the default of a failed analysis: price 0 does not reach the user.      *)
ToldIsPriced ==
  \A m \in delivered :
    LET a == analysis[m.by]
    IN  a.priced >= MinSummary /\ a.candle \in 1..a.priced
=============================================================================
