---------------------- MODULE AnalysisPipeline_proofs ----------------------
(***************************************************************************)
(* What the pipeline from a stored candle to the user guarantees for any   *)
(* number of overlapping analyses, any votes, minutes and restarts.        *)
(*                                                                         *)
(* The inductive invariant says what the locals of an analysis are worth   *)
(* at each await (Sound), whose messages were delivered (DeliveredInv),    *)
(* that a marked key was delivered or refused in this life of the process  *)
(* (SentInv), and that two messages in flight with one key are recorded as *)
(* doubled (SendInv): the await between the check and the mark.            *)
(***************************************************************************)
EXTENDS AnalysisPipeline, TLAPS

Working == {"atr", "caching", "summary", "basic", "advanced", "rate", "sending"}

Priced(a) == a.priced >= MinSummary /\ a.candle \in 1..a.priced

(* The locals of an analysis over a table of n candles. *)
Sound(a, n) ==
  /\ a.seen <= n /\ a.priced <= n
  /\ a.pc # "ended" => a.outcome = "none"
  /\ a.pc \in Working => a.candle \in 1..n
  /\ a.pc \in {"basic", "advanced"} => Priced(a)
  /\ a.pc \in {"rate", "sending"} /\ a.signal # "HOLD" => Priced(a)
  /\ a.pc = "sending" => a.signal # "HOLD"
  /\ a.outcome = "marked" => Priced(a)

LocalsInv == \A e \in Analyses : Sound(analysis[e], stored)

DeliveredInv ==
  \A m \in delivered :
    /\ analysis[m.by].outcome = "marked"
    /\ m.key.signal = analysis[m.by].signal /\ m.key.minute = analysis[m.by].minute
    /\ m.key.life \in 0..restarts
    /\ m.key.life = restarts => m.key \in sent

SentInv ==
  \A key \in sent : key.life = restarts /\ (key \in refused \/ \E m \in delivered : m.key = key)

SendInv ==
  /\ \A e \in Sending : KeyOf(analysis[e]) \in sent => KeyOf(analysis[e]) \in doubled
  /\ \A e, f \in Sending :
       e # f /\ KeyOf(analysis[e]) = KeyOf(analysis[f]) => KeyOf(analysis[e]) \in doubled

MessagesInv ==
  DeliveredInv /\ SentInv /\ SendInv /\ SentTwiceOnlyTogether /\ SuppressedWasTold

IInv == AnalysisTypeOK /\ LocalsInv /\ MessagesInv

-----------------------------------------------------------------------------
LEMMA Numbers ==
  /\ NumCandles \in Nat /\ MinAtr \in Nat \ {0} /\ MinSummary \in Nat \ {0}
  /\ MaxMinutes \in Nat /\ MaxRestarts \in Nat
  /\ BasicVotes \in [Tables -> -5..5] /\ AdvancedVotes \in [Tables -> -5..5]
  <1>1. MinAtr \in {MinAtr, MinSummary} /\ MinSummary \in {MinAtr, MinSummary}
    OBVIOUS
  <1>2. MaxMinutes \in {MaxMinutes, MaxRestarts} /\ MaxRestarts \in {MaxMinutes, MaxRestarts}
    OBVIOUS
  <1>3. BasicVotes \in {BasicVotes, AdvancedVotes} /\ AdvancedVotes \in {BasicVotes, AdvancedVotes}
    OBVIOUS
  <1> QED
    BY <1>1, <1>2, <1>3, AnalysisAssumption

(* No analysis, and one that a restart ended, over any table. *)
LEMMA NoAnalysisIsSound ==
  ASSUME NEW n \in Nat
  PROVE  /\ NoAnalysis \in Analysis /\ Sound(NoAnalysis, n) /\ NoAnalysis.pc = "none"
         /\ [NoAnalysis EXCEPT !.pc = "ended", !.outcome = "killed"] \in Analysis
         /\ Sound([NoAnalysis EXCEPT !.pc = "ended", !.outcome = "killed"], n)
  <1> DEFINE a == NoAnalysis
             k == [NoAnalysis EXCEPT !.pc = "ended", !.outcome = "killed"]
  <1>0. /\ 0 \in Tables /\ 0 \in -10..10 /\ 0 \in 0..MaxMinutes /\ "HOLD" \in Signals
        /\ "none" \in Pc /\ "ended" \in Pc /\ "none" \in Outcomes /\ "killed" \in Outcomes
    BY Numbers DEF Tables, Signals, Pc, Outcomes
  <1>1. a \in Analysis /\ k \in Analysis
    BY <1>0 DEF NoAnalysis, Analysis
  <1>2. /\ a.pc = "none" /\ a.outcome = "none" /\ a.seen = 0 /\ a.priced = 0
        /\ k.pc = "ended" /\ k.outcome = "killed" /\ k.seen = 0 /\ k.priced = 0
    BY DEF NoAnalysis
  <1> HIDE DEF a, k
  <1>3. Sound(a, n) /\ Sound(k, n)
    BY <1>2 DEF Sound, Working
  <1> QED
    BY <1>1, <1>2, <1>3 DEF a, k

(* Locals that keep what the summary gave: the step need only say where it *)
(* stands.                                                                 *)
LEMMA SoundAt ==
  ASSUME NEW a, NEW n \in Nat, a.seen <= n, a.priced <= n, a.outcome = "none",
         a.candle \in 1..n, a.pc \in Working,
         a.pc \in {"basic", "advanced"} \/ (a.pc \in {"rate", "sending"} /\ a.signal # "HOLD")
           => Priced(a),
         a.pc = "sending" => a.signal # "HOLD"
  PROVE  Sound(a, n)
  BY DEF Sound

LEMMA SoundStays ==
  ASSUME NEW a \in Analysis, NEW n \in Nat, NEW m \in Nat, n <= m, Sound(a, n)
  PROVE  Sound(a, m)
  BY DEF Sound, Analysis, Tables

(* The pieces of AnalysisTypeOK, named one by one. *)
LEMMA Typed ==
  ASSUME AnalysisTypeOK
  PROVE  /\ stored \in Tables /\ stored \in Nat /\ minute \in 0..MaxMinutes
         /\ restarts \in 0..MaxRestarts /\ restarts \in Nat
         /\ analysis \in [Analyses -> Analysis]
         /\ sent \subseteq Keys /\ refused \subseteq Keys /\ doubled \subseteq Keys
         /\ \A m \in delivered : m.by \in Analyses /\ m.key \in Keys
  <1>1. sent \in {sent, refused, doubled} /\ refused \in {sent, refused, doubled}
        /\ doubled \in {sent, refused, doubled}
    OBVIOUS
  <1>2. stored \in Nat /\ restarts \in Nat
    BY Numbers DEF AnalysisTypeOK, Tables
  <1> QED
    BY <1>1, <1>2 DEF AnalysisTypeOK

LEMMA KeyIsKey ==
  ASSUME AnalysisTypeOK, NEW a \in Analysis
  PROVE  /\ KeyOf(a) \in Keys
         /\ KeyOf(a).signal = a.signal /\ KeyOf(a).minute = a.minute /\ KeyOf(a).life = restarts
  BY Typed DEF KeyOf, Keys, Analysis

-----------------------------------------------------------------------------
(* The steps of an analysis on its way to its message. *)
OnItsWay(e) ==
  \/ \E candle \in 1..NumCandles : CandleSaved(e, candle)
  \/ QueryAtr(e) \/ CacheAtr(e) \/ ReadSummary(e) \/ SummaryFails(e)
  \/ VoteBasic(e) \/ VoteAdvanced(e)

LEMMA OnItsWayIsSound ==
  ASSUME AnalysisTypeOK, LocalsInv, NEW e \in Analyses, OnItsWay(e)
  PROVE  /\ \E a \in Analysis : /\ Moves(e, a) /\ Sound(a, stored)
                                /\ a.pc \notin {"sending", "ended"}
         /\ analysis[e].pc \notin {"sending", "ended"}
         /\ UNCHANGED <<stored, minute, restarts, sent, auditVars>>
         /\ atr' = atr \/ atr' \in MinAtr..stored
  <1> DEFINE old == analysis[e]
             Goal == \E a \in Analysis : /\ Moves(e, a) /\ Sound(a, stored)
                                         /\ a.pc \notin {"sending", "ended"}
  <1>0. old \in Analysis /\ Sound(old, stored) /\ stored \in Tables /\ stored \in Nat
        /\ NoAnalysis \in Analysis /\ Sound(NoAnalysis, stored)
    BY Typed, NoAnalysisIsSound DEF LocalsInv
  <1>10. /\ {"atr", "caching", "summary", "basic", "advanced", "rate"} \subseteq Pc \cap Working
         /\ {"HOLD"} \subseteq Signals /\ 0 \in Tables /\ 0 \in -10..10
    BY Numbers DEF Pc, Signals, Tables, Working
  <1>11. old.pc \in Working => /\ old.seen <= stored /\ old.priced <= stored
                               /\ old.outcome = "none" /\ old.candle \in 1..stored
    BY <1>0 DEF Sound, Working
  <1>1. ASSUME NEW candle \in 1..NumCandles, CandleSaved(e, candle) PROVE Goal
    <2> DEFINE a == [NoAnalysis EXCEPT !.pc = "atr", !.candle = candle]
    <2>1. Moves(e, a) /\ candle \in 1..stored
      BY <1>1 DEF CandleSaved
    <2>2. candle \in Tables
      BY Numbers DEF Tables
    <2>3. a \in Analysis
      BY <1>0, <1>10, <2>2 DEF Analysis
    <2>4. /\ a.pc = "atr" /\ a.candle = candle /\ a.seen = 0 /\ a.priced = 0
          /\ a.outcome = "none"
      BY DEF NoAnalysis
    <2> HIDE DEF a
    <2>5. Sound(a, stored)
      BY <1>0, <1>10, <2>1, <2>4, SoundAt
    <2> QED
      BY <2>1, <2>3, <2>4, <2>5 DEF a
  <1>2. ASSUME QueryAtr(e) PROVE Goal
    <2>1. PICK seen \in {0, stored} : Moves(e, [old EXCEPT !.pc = "caching", !.seen = seen])
      BY <1>2 DEF QueryAtr
    <2> DEFINE a == [old EXCEPT !.pc = "caching", !.seen = seen]
    <2>2. seen \in Tables /\ seen <= stored /\ old.pc = "atr"
      BY <1>0, <1>2, <1>10 DEF QueryAtr
    <2>3. a \in Analysis
      BY <1>0, <1>10, <2>2 DEF Analysis
    <2>4. /\ a.pc = "caching" /\ a.seen = seen /\ a.candle = old.candle
          /\ a.priced = old.priced /\ a.outcome = old.outcome
      BY <1>0 DEF Analysis
    <2> HIDE DEF a
    <2>5. Sound(a, stored)
      BY <1>0, <1>10, <1>11, <2>2, <2>4, SoundAt DEF Working
    <2> QED
      BY <2>1, <2>3, <2>4, <2>5 DEF a
  <1>3. ASSUME CacheAtr(e) PROVE Goal
    <2> DEFINE a == [old EXCEPT !.pc = "summary", !.seen = 0]
    <2>1. Moves(e, a) /\ old.pc = "caching"
      BY <1>3 DEF CacheAtr
    <2>3. a \in Analysis
      BY <1>0, <1>10 DEF Analysis
    <2>4. /\ a.pc = "summary" /\ a.seen = 0 /\ a.candle = old.candle
          /\ a.priced = old.priced /\ a.outcome = old.outcome
      BY <1>0 DEF Analysis
    <2> HIDE DEF a
    <2>5. Sound(a, stored)
      BY <1>0, <1>10, <1>11, <2>1, <2>4, SoundAt DEF Working
    <2> QED
      BY <2>1, <2>3, <2>4, <2>5
  <1>4. ASSUME ReadSummary(e) PROVE Goal
    <2> DEFINE a == [old EXCEPT !.pc = "basic", !.priced = stored]
    <2>1. Moves(e, a) /\ old.pc = "summary" /\ stored >= MinSummary
      BY <1>4 DEF ReadSummary
    <2>3. a \in Analysis
      BY <1>0, <1>10 DEF Analysis
    <2>4. /\ a.pc = "basic" /\ a.seen = old.seen /\ a.candle = old.candle
          /\ a.priced = stored /\ a.outcome = old.outcome
      BY <1>0 DEF Analysis
    <2> HIDE DEF a
    <2>5. Sound(a, stored)
      BY <1>0, <1>10, <1>11, <2>1, <2>4, SoundAt DEF Working, Priced
    <2> QED
      BY <2>1, <2>3, <2>4, <2>5
  <1>5. ASSUME SummaryFails(e) PROVE Goal
    <2> DEFINE a == [old EXCEPT !.pc = "rate", !.signal = "HOLD"]
    <2>1. Moves(e, a) /\ old.pc = "summary"
      BY <1>5 DEF SummaryFails
    <2>3. a \in Analysis
      BY <1>0, <1>10 DEF Analysis
    <2>4. /\ a.pc = "rate" /\ a.signal = "HOLD" /\ a.seen = old.seen /\ a.candle = old.candle
          /\ a.priced = old.priced /\ a.outcome = old.outcome
      BY <1>0 DEF Analysis
    <2> HIDE DEF a
    <2>5. Sound(a, stored)
      BY <1>0, <1>10, <1>11, <2>1, <2>4, SoundAt DEF Working
    <2> QED
      BY <2>1, <2>3, <2>4, <2>5
  <1>6. ASSUME VoteBasic(e) PROVE Goal
    <2>1. PICK votes \in {0, BasicVotes[stored]} :
            Moves(e, [old EXCEPT !.pc = "advanced", !.votes = votes])
      BY <1>6 DEF VoteBasic
    <2> DEFINE a == [old EXCEPT !.pc = "advanced", !.votes = votes]
    <2>2. votes \in -10..10 /\ old.pc = "basic"
      BY <1>0, <1>6, Numbers DEF VoteBasic
    <2>3. a \in Analysis
      BY <1>0, <1>10, <2>2 DEF Analysis
    <2>4. /\ a.pc = "advanced" /\ a.seen = old.seen /\ a.candle = old.candle
          /\ a.priced = old.priced /\ a.outcome = old.outcome
      BY <1>0 DEF Analysis
    <2>5. Priced(old)
      BY <1>0, <2>2 DEF Sound
    <2>6. Priced(a)
      BY <2>4, <2>5 DEF Priced
    <2> HIDE DEF a
    <2>7. Sound(a, stored)
      BY <1>0, <1>10, <1>11, <2>2, <2>4, <2>6, SoundAt DEF Working
    <2> QED
      BY <2>1, <2>3, <2>4, <2>7 DEF a
  <1>7. ASSUME VoteAdvanced(e) PROVE Goal
    <2>1. PICK votes \in {0, AdvancedVotes[stored]} :
            Moves(e, [old EXCEPT !.pc = "rate", !.votes = 0, !.signal = Overall(old.votes + votes)])
      BY <1>7 DEF VoteAdvanced
    <2> DEFINE a == [old EXCEPT !.pc = "rate", !.votes = 0, !.signal = Overall(old.votes + votes)]
    <2>2. Overall(old.votes + votes) \in Signals /\ old.pc = "advanced"
      BY <1>7 DEF Overall, Signals, VoteAdvanced
    <2>3. a \in Analysis
      BY <1>0, <1>10, <2>2 DEF Analysis
    <2>4. /\ a.pc = "rate" /\ a.seen = old.seen /\ a.candle = old.candle
          /\ a.priced = old.priced /\ a.outcome = old.outcome
      BY <1>0 DEF Analysis
    <2>5. Priced(old)
      BY <1>0, <2>2 DEF Sound
    <2>6. Priced(a)
      BY <2>4, <2>5 DEF Priced
    <2> HIDE DEF a
    <2>7. Sound(a, stored)
      BY <1>0, <1>10, <1>11, <2>2, <2>4, <2>6, SoundAt DEF Working
    <2> QED
      BY <2>1, <2>3, <2>4, <2>7 DEF a
  <1>8. analysis[e].pc \notin {"sending", "ended"}
        /\ UNCHANGED <<stored, minute, restarts, sent, auditVars>>
    BY DEF OnItsWay, CandleSaved, QueryAtr, CacheAtr, ReadSummary, SummaryFails, VoteBasic,
           VoteAdvanced
  <1>9. atr' = atr \/ atr' \in MinAtr..stored
    <2>1. CASE CacheAtr(e)
      BY <1>0, <2>1, Numbers DEF CacheAtr, Sound, Analysis, Tables
    <2>2. CASE ~CacheAtr(e)
      BY <2>2 DEF OnItsWay, CandleSaved, QueryAtr, ReadSummary, SummaryFails, VoteBasic,
                  VoteAdvanced
    <2> QED
      BY <2>1, <2>2
  <1> QED
    BY <1>1, <1>2, <1>3, <1>4, <1>5, <1>6, <1>7, <1>8, <1>9 DEF OnItsWay

(* Such a step tells nothing: neither does one that ends in HOLD.          *)
LEMMA QuietKeepsMessages ==
  ASSUME IInv, NEW e \in Analyses, NEW a \in Analysis, Moves(e, a),
         analysis[e].pc \notin {"sending", "ended"},
         a.pc # "sending", a.outcome \in {"none", "hold"},
         UNCHANGED <<restarts, sent, auditVars>>
  PROVE  MessagesInv'
  <1>1. AnalysisTypeOK /\ Sound(analysis[e], stored)
    BY DEF IInv, LocalsInv
  <1>2. /\ analysis'[e] = a /\ \A f \in Analyses \ {e} : analysis'[f] = analysis[f]
        /\ analysis[e].outcome = "none"
    BY <1>1, Typed DEF Moves, Sound
  <1>3. UNCHANGED <<delivered, refused, doubled>>
    BY DEF auditVars
  <1>4. Sending' = Sending /\ e \notin Sending
    BY <1>2 DEF Sending
  <1>5. \A m \in delivered : m.by \in Analyses /\ m.by # e
    BY <1>1, <1>2, Typed DEF IInv, MessagesInv, DeliveredInv
  <1>6. DeliveredInv'
    BY <1>2, <1>3, <1>5 DEF IInv, MessagesInv, DeliveredInv
  <1>7. SentInv'
    BY <1>3 DEF IInv, MessagesInv, SentInv
  <1>8. SendInv'
    <2>1. \A f \in Sending : KeyOf(analysis[f])' = KeyOf(analysis[f])
      BY <1>2, <1>4 DEF KeyOf, Sending
    <2> QED
      BY <1>3, <1>4, <2>1 DEF IInv, MessagesInv, SendInv
  <1>9. SentTwiceOnlyTogether'
    BY <1>3 DEF IInv, MessagesInv, SentTwiceOnlyTogether
  <1>10. SuppressedWasTold'
    BY <1>2, <1>3 DEF IInv, MessagesInv, SuppressedWasTold
  <1> QED
    BY <1>6, <1>7, <1>8, <1>9, <1>10 DEF MessagesInv

LEMMA MoveKeepsTypes ==
  ASSUME IInv, NEW e \in Analyses, NEW a \in Analysis, Moves(e, a), Sound(a, stored),
         UNCHANGED stored
  PROVE  analysis' \in [Analyses -> Analysis] /\ LocalsInv'
  <1>1. analysis \in [Analyses -> Analysis]
    BY Typed DEF IInv
  <1>2. analysis' \in [Analyses -> Analysis]
    BY <1>1 DEF Moves
  <1>3. \A f \in Analyses : analysis'[f] = IF f = e THEN a ELSE analysis[f]
    BY <1>1 DEF Moves
  <1> QED
    BY <1>2, <1>3 DEF IInv, LocalsInv

LEMMA OnItsWayKeepsIInv ==
  ASSUME IInv, NEW e \in Analyses, OnItsWay(e)
  PROVE  IInv'
  <1>1. AnalysisTypeOK /\ LocalsInv
    BY DEF IInv
  <1>2. PICK a \in Analysis : Moves(e, a) /\ Sound(a, stored) /\ a.pc \notin {"sending", "ended"}
    BY <1>1, OnItsWayIsSound
  <1>3. a.outcome = "none"
    BY <1>2 DEF Sound
  <1>4. /\ analysis[e].pc \notin {"sending", "ended"}
        /\ UNCHANGED <<stored, minute, restarts, sent, auditVars>>
        /\ atr' = atr \/ atr' \in MinAtr..stored
    BY <1>1, OnItsWayIsSound
  <1>5. AnalysisTypeOK'
    BY <1>2, <1>4, MoveKeepsTypes DEF IInv, AnalysisTypeOK, auditVars
  <1> QED
    BY <1>2, <1>3, <1>4, <1>5, MoveKeepsTypes, QuietKeepsMessages DEF IInv

-----------------------------------------------------------------------------
(* analysis.completed: HOLD, a duplicate, or a message on its way. *)
LEMMA EmitKeepsIInv ==
  ASSUME IInv, NEW e \in Analyses, Emit(e)
  PROVE  IInv'
  <1> DEFINE old == analysis[e]
             now == [analysis[e] EXCEPT !.minute = minute]
             ended(outcome) == [now EXCEPT !.pc = "ended", !.outcome = outcome]
             posting == [now EXCEPT !.pc = "sending"]
  <1>1. /\ AnalysisTypeOK /\ old \in Analysis /\ Sound(old, stored) /\ old.pc = "rate"
        /\ minute \in 0..MaxMinutes
        /\ UNCHANGED <<stored, minute, restarts, atr, sent, delivered, refused>>
    BY Typed DEF IInv, LocalsInv, Emit
  <1>2. now \in Analysis /\ now.signal = old.signal /\ now.minute = minute
    BY <1>1 DEF Analysis
  <1>3. ASSUME NEW outcome \in {"hold", "suppressed"}
        PROVE  /\ ended(outcome) \in Analysis /\ Sound(ended(outcome), stored)
               /\ ended(outcome).pc = "ended" /\ ended(outcome).outcome = outcome
               /\ ended(outcome).signal = old.signal /\ ended(outcome).minute = minute
    <2>1. /\ ended(outcome) \in Analysis
          /\ ended(outcome).pc = "ended" /\ ended(outcome).outcome = outcome
          /\ ended(outcome).signal = old.signal /\ ended(outcome).minute = minute
          /\ ended(outcome).seen = old.seen /\ ended(outcome).priced = old.priced
      BY <1>1 DEF Analysis, Pc, Outcomes
    <2> HIDE DEF ended
    <2>2. Sound(ended(outcome), stored)
      BY <1>1, <2>1 DEF Sound, Working
    <2> QED
      BY <2>1, <2>2
  <1>4. ASSUME old.signal # "HOLD"
        PROVE  /\ posting \in Analysis /\ Sound(posting, stored) /\ posting.pc = "sending"
               /\ posting.outcome = "none"
               /\ posting.signal = old.signal /\ posting.minute = minute
    <2>1. /\ posting \in Analysis /\ posting.pc = "sending" /\ posting.outcome = old.outcome
          /\ posting.signal = old.signal /\ posting.minute = minute
          /\ posting.seen = old.seen /\ posting.priced = old.priced
          /\ posting.candle = old.candle
      BY <1>1 DEF Analysis, Pc
    <2> HIDE DEF posting
    <2>2. Priced(old) /\ old.outcome = "none"
      BY <1>1, <1>4 DEF Sound
    <2>3. Priced(posting)
      BY <2>1, <2>2 DEF Priced
    <2>4. Sound(posting, stored)
      BY <1>1, <1>4, <2>1, <2>2, <2>3 DEF Sound, Working
    <2> QED
      BY <2>1, <2>2, <2>4
  <1>5. \A m \in delivered : m.by \in Analyses /\ m.by # e
    BY <1>1, Typed DEF IInv, MessagesInv, DeliveredInv, Sound
  <1> DEFINE key == KeyOf(now)
  <1>6. /\ key \in Keys /\ key.signal = old.signal /\ key.minute = minute /\ key.life = restarts
    BY <1>1, <1>2, KeyIsKey
  <1>7. /\ \A a \in Analysis : Moves(e, a) => /\ analysis'[e] = a
                                              /\ \A f \in Analyses \ {e} : analysis'[f] = analysis[f]
    BY <1>1, Typed DEF Moves
  <1>8. CASE Moves(e, ended("hold")) /\ UNCHANGED doubled
    <2>1. AnalysisTypeOK'
      BY <1>1, <1>3, <1>8, MoveKeepsTypes DEF AnalysisTypeOK
    <2>2. UNCHANGED auditVars
      BY <1>1, <1>8 DEF auditVars
    <2>3. PICK a \in Analysis : a = ended("hold")
      BY <1>3
    <2> HIDE DEF ended
    <2> QED
      BY <1>1, <1>3, <1>8, <2>1, <2>2, <2>3, MoveKeepsTypes, QuietKeepsMessages DEF IInv
  <1>9. CASE key \in sent /\ Moves(e, ended("suppressed")) /\ UNCHANGED doubled
    <2> HIDE DEF ended, key
    <2>0. ended("suppressed") \in Analysis
      BY <1>3
    <2>1. AnalysisTypeOK'
      BY <1>1, <1>3, <1>9, MoveKeepsTypes DEF AnalysisTypeOK
    <2>2. UNCHANGED <<delivered, refused, doubled, sent, restarts>>
      BY <1>1, <1>9
    <2>3. analysis'[e] = ended("suppressed") /\ \A f \in Analyses \ {e} : analysis'[f] = analysis[f]
      BY <1>7, <1>9, <2>0
    <2>4. Sending' = Sending /\ e \notin Sending
      BY <1>1, <1>3, <2>3 DEF Sending
    <2>5. DeliveredInv'
      BY <1>5, <2>2, <2>3 DEF IInv, MessagesInv, DeliveredInv
    <2>6. SentInv' /\ SentTwiceOnlyTogether'
      BY <2>2 DEF IInv, MessagesInv, SentInv, SentTwiceOnlyTogether
    <2>7. SendInv'
      <3>1. \A f \in Sending : KeyOf(analysis[f])' = KeyOf(analysis[f])
        BY <2>2, <2>3, <2>4 DEF KeyOf, Sending
      <3> QED
        BY <2>2, <2>4, <3>1 DEF IInv, MessagesInv, SendInv
    <2>8. SuppressedWasTold'
      <3>1. key \in refused \/ \E m \in delivered : m.key = key /\ m.by # e
        BY <1>5, <1>9 DEF IInv, MessagesInv, SentInv
      <3>2. key = [signal |-> analysis'[e].signal, minute |-> analysis'[e].minute, life |-> restarts]
        <4>1. key = [signal |-> now.signal, minute |-> now.minute, life |-> restarts]
          BY DEF KeyOf, key
        <4>2. analysis'[e].signal = old.signal /\ analysis'[e].minute = minute
          BY <1>3, <2>3
        <4> QED
          BY <1>2, <4>1, <4>2
      <3>3. restarts \in 0..restarts
        BY <1>1, Typed
      <3>4. \E life \in 0..restarts :
              LET k == [signal |-> analysis'[e].signal, minute |-> analysis'[e].minute,
                        life |-> life]
              IN  k \in refused \/ \E m \in delivered : m.key = k /\ m.by # e
        BY <3>1, <3>2, <3>3
      <3>5. \A f \in Analyses \ {e} :
              analysis'[f].outcome = "suppressed" =>
                \E life \in 0..restarts :
                  LET k == [signal |-> analysis'[f].signal, minute |-> analysis'[f].minute,
                            life |-> life]
                  IN  k \in refused \/ \E m \in delivered : m.key = k /\ m.by # f
        BY <2>3 DEF IInv, MessagesInv, SuppressedWasTold
      <3> QED
        BY <2>2, <3>4, <3>5 DEF SuppressedWasTold
    <2> QED
      BY <1>1, <1>3, <1>9, <2>0, <2>1, <2>5, <2>6, <2>7, <2>8, MoveKeepsTypes DEF IInv, MessagesInv
  <1>10. CASE /\ old.signal # "HOLD" /\ key \notin sent /\ Moves(e, posting)
              /\ doubled' = IF \E f \in Sending : KeyOf(analysis[f]) = key
                            THEN doubled \cup {key} ELSE doubled
    <2> HIDE DEF posting
    <2>0. posting \in Analysis /\ Sound(posting, stored)
      BY <1>4, <1>10
    <2>1. AnalysisTypeOK'
      <3>1. doubled' \subseteq Keys
        BY <1>1, <1>6, <1>10, Typed
      <3>2. {sent, refused, doubled}' \subseteq SUBSET Keys
        BY <1>1, <3>1, Typed
      <3> QED
        BY <1>1, <1>10, <2>0, <3>2, MoveKeepsTypes DEF AnalysisTypeOK
    <2>2. analysis'[e] = posting /\ \A f \in Analyses \ {e} : analysis'[f] = analysis[f]
      BY <1>7, <1>10, <2>0
    <2>3. Sending' = Sending \cup {e} /\ e \notin Sending
      BY <1>1, <1>4, <1>10, <2>2 DEF Sending
    <2>4. KeyOf(analysis[e])' = key
      BY <1>1, <1>2, <1>4, <1>10, <2>2 DEF KeyOf
    <2>5. \A f \in Sending : KeyOf(analysis[f])' = KeyOf(analysis[f])
      BY <1>1, <2>2, <2>3 DEF KeyOf, Sending
    <2> HIDE DEF key
    <2>6. DeliveredInv'
      BY <1>1, <1>5, <2>2 DEF IInv, MessagesInv, DeliveredInv
    <2>7. SentInv'
      BY <1>1 DEF IInv, MessagesInv, SentInv
    <2>8. SentTwiceOnlyTogether'
      BY <1>1, <1>10 DEF IInv, MessagesInv, SentTwiceOnlyTogether
    <2>9. SendInv'
      <3>1. doubled \subseteq doubled' /\ sent' = sent
        BY <1>1, <1>10
      <3>2. \A f \in Sending : KeyOf(analysis[f]) = key => key \in doubled'
        BY <1>10
      <3>3. \A f \in Sending' : KeyOf(analysis[f])' \in sent' => KeyOf(analysis[f])' \in doubled'
        BY <1>10, <2>3, <2>4, <2>5, <3>1 DEF IInv, MessagesInv, SendInv
      <3>4. ASSUME NEW f \in Sending', NEW g \in Sending', f # g,
                   KeyOf(analysis[f])' = KeyOf(analysis[g])'
            PROVE  KeyOf(analysis[f])' \in doubled'
        <4>1. CASE f = e
          BY <2>3, <2>4, <2>5, <3>2, <3>4, <4>1
        <4>2. CASE g = e
          BY <2>3, <2>4, <2>5, <3>2, <3>4, <4>2
        <4>3. CASE f # e /\ g # e
          BY <2>3, <2>5, <3>1, <3>4, <4>3 DEF IInv, MessagesInv, SendInv
        <4> QED
          BY <4>1, <4>2, <4>3
      <3> QED
        BY <3>3, <3>4 DEF SendInv
    <2>10. SuppressedWasTold'
      BY <1>1, <1>4, <1>10, <2>2 DEF IInv, MessagesInv, SuppressedWasTold
    <2> QED
      BY <1>1, <1>10, <2>0, <2>1, <2>6, <2>7, <2>8, <2>9, <2>10, MoveKeepsTypes
      DEF IInv, MessagesInv
  <1>11. now.signal = "HOLD" <=> old.signal = "HOLD"
    BY <1>2
  <1> QED
    BY <1>8, <1>9, <1>10, <1>11 DEF Emit

-----------------------------------------------------------------------------
(* The post ends: the key is marked, and the message delivered or refused. *)
LEMMA PostedKeepsIInv ==
  ASSUME IInv, NEW e \in Analyses, NEW reached \in BOOLEAN, Posted(e, reached)
  PROVE  IInv'
  <1> DEFINE old == analysis[e]
             a == [analysis[e] EXCEPT !.pc = "ended", !.outcome = "marked"]
             key == KeyOf(analysis[e])
             message == [by |-> e, key |-> key]
  <1>1. /\ AnalysisTypeOK /\ old \in Analysis /\ Sound(old, stored) /\ old.pc = "sending"
        /\ Moves(e, a) /\ sent' = sent \cup {key}
        /\ delivered' = IF reached THEN delivered \cup {message} ELSE delivered
        /\ refused' = IF reached THEN refused ELSE refused \cup {key}
        /\ UNCHANGED <<stored, minute, restarts, atr, doubled>>
    BY Typed DEF IInv, LocalsInv, Posted
  <1>2. /\ a \in Analysis /\ a.pc = "ended" /\ a.outcome = "marked"
        /\ a.signal = old.signal /\ a.minute = old.minute
        /\ a.seen = old.seen /\ a.priced = old.priced /\ a.candle = old.candle
    BY <1>1 DEF Analysis, Pc, Outcomes
  <1>3. /\ key \in Keys /\ key.signal = old.signal /\ key.minute = old.minute
        /\ key.life = restarts
    BY <1>1, KeyIsKey
  <1>4. e \in Sending
    BY <1>1 DEF Sending
  <1>5. message.by = e /\ message.key = key /\ message \in [by : Analyses, key : Keys]
    BY <1>3
  <1> HIDE DEF a, key, message
  <1>6. Sound(a, stored)
    <2>1. Priced(old)
      BY <1>1 DEF Sound
    <2>2. Priced(a)
      BY <1>2, <2>1 DEF Priced
    <2> QED
      BY <1>1, <1>2, <2>2 DEF Sound, Working
  <1>7. analysis'[e] = a /\ \A f \in Analyses \ {e} : analysis'[f] = analysis[f]
    BY <1>1, Typed DEF Moves
  <1>8. AnalysisTypeOK'
    <2>1. sent' \subseteq Keys /\ refused' \subseteq Keys /\ doubled' \subseteq Keys
      BY <1>1, <1>3, Typed
    <2>2. {sent, refused, doubled}' \subseteq SUBSET Keys
      BY <2>1
    <2>3. delivered' \subseteq [by : Analyses, key : Keys]
      BY <1>1, <1>5 DEF AnalysisTypeOK
    <2> QED
      BY <1>1, <1>2, <1>6, <2>2, <2>3, MoveKeepsTypes DEF AnalysisTypeOK
  <1>9. Sending' = Sending \ {e}
    BY <1>2, <1>7 DEF Sending
  <1>10. \A f \in Sending' : KeyOf(analysis[f])' = KeyOf(analysis[f])
    BY <1>1, <1>7, <1>9 DEF KeyOf, Sending
  <1>11. \A m \in delivered : m.by # e /\ m.by \in Analyses
    BY <1>1, Typed DEF IInv, MessagesInv, DeliveredInv, Sound
  <1>12. DeliveredInv'
    <2>1. \A m \in delivered : /\ analysis'[m.by].outcome = "marked"
                               /\ m.key.signal = analysis'[m.by].signal
                               /\ m.key.minute = analysis'[m.by].minute
                               /\ m.key.life \in 0..restarts
                               /\ m.key.life = restarts => m.key \in sent'
      BY <1>1, <1>7, <1>11 DEF IInv, MessagesInv, DeliveredInv
    <2>2. /\ analysis'[message.by].outcome = "marked"
          /\ message.key.signal = analysis'[message.by].signal
          /\ message.key.minute = analysis'[message.by].minute
          /\ message.key.life \in 0..restarts
          /\ message.key \in sent'
      BY <1>1, <1>2, <1>3, <1>5, <1>7, Typed
    <2> QED
      BY <1>1, <2>1, <2>2 DEF DeliveredInv
  <1>13. SentInv'
    <2>1. \A k \in sent : k.life = restarts /\ (k \in refused' \/ \E m \in delivered' : m.key = k)
      BY <1>1 DEF IInv, MessagesInv, SentInv
    <2>2. key.life = restarts /\ (key \in refused' \/ \E m \in delivered' : m.key = key)
      BY <1>1, <1>3, <1>5
    <2> QED
      BY <1>1, <2>1, <2>2 DEF SentInv
  <1>14. SendInv'
    <2>1. ASSUME NEW f \in Sending', KeyOf(analysis[f])' \in sent'
          PROVE  KeyOf(analysis[f])' \in doubled'
      <3>1. f # e /\ f \in Sending /\ KeyOf(analysis[f])' = KeyOf(analysis[f])
        BY <1>9, <1>10
      <3>2. CASE KeyOf(analysis[f]) \in sent
        BY <1>1, <3>1, <3>2 DEF IInv, MessagesInv, SendInv
      <3>3. CASE KeyOf(analysis[f]) = key
        BY <1>1, <1>4, <3>1, <3>3 DEF IInv, MessagesInv, SendInv, key
      <3> QED
        BY <1>1, <2>1, <3>1, <3>2, <3>3
    <2>2. ASSUME NEW f \in Sending', NEW g \in Sending', f # g,
                 KeyOf(analysis[f])' = KeyOf(analysis[g])'
          PROVE  KeyOf(analysis[f])' \in doubled'
      BY <1>1, <1>9, <1>10, <2>2 DEF IInv, MessagesInv, SendInv
    <2> QED
      BY <2>1, <2>2 DEF SendInv
  <1>15. SentTwiceOnlyTogether'
    <2>1. \A m \in delivered : m.key = key => key \in doubled
      <3>1. \A m \in delivered : m.key = key => key \in sent
        BY <1>3 DEF IInv, MessagesInv, DeliveredInv
      <3> QED
        BY <1>4, <3>1 DEF IInv, MessagesInv, SendInv, key
    <2> QED
      BY <1>1, <1>5, <2>1 DEF IInv, MessagesInv, SentTwiceOnlyTogether
  <1>16. SuppressedWasTold'
    <2>1. /\ delivered \subseteq delivered' /\ refused \subseteq refused'
          /\ analysis'[e].outcome # "suppressed"
      BY <1>1, <1>2, <1>7
    <2> QED
      BY <1>1, <1>7, <2>1 DEF IInv, MessagesInv, SuppressedWasTold
  <1> QED
    BY <1>1, <1>2, <1>6, <1>8, <1>12, <1>13, <1>14, <1>15, <1>16, MoveKeepsTypes
    DEF IInv, MessagesInv

(* The process restarts: no message is in flight, and no key of its new    *)
(* life is marked.                                                         *)
LEMMA RestartKeepsIInv ==
  ASSUME IInv, Restart
  PROVE  IInv'
  <1> DEFINE killed == [NoAnalysis EXCEPT !.pc = "ended", !.outcome = "killed"]
  <1>1. /\ AnalysisTypeOK /\ restarts < MaxRestarts /\ restarts' = restarts + 1
        /\ analysis' = [e \in Analyses |-> IF e \in Active THEN killed ELSE analysis[e]]
        /\ sent' = {}
        /\ UNCHANGED <<stored, minute, auditVars>>
    BY DEF Restart, IInv
  <1>2. /\ killed \in Analysis /\ Sound(killed, stored)
        /\ NoAnalysis.pc = "none"
    BY <1>1, Typed, NoAnalysisIsSound
  <1>3. killed.pc = "ended" /\ killed.outcome = "killed"
    BY DEF NoAnalysis
  <1>4. stored \in Nat /\ restarts \in Nat /\ MaxRestarts \in Nat /\ MinAtr \in Nat
    BY <1>1, Typed, Numbers
  <1> HIDE DEF killed
  <1>5. /\ analysis' \in [Analyses -> Analysis] /\ LocalsInv'
    BY <1>1, <1>2, Typed DEF IInv, LocalsInv
  <1>6. AnalysisTypeOK'
    <2>1. atr' = 0 \/ atr' \in MinAtr..stored
      BY <1>4 DEF Restart
    <2>2. restarts' \in 0..MaxRestarts
      BY <1>1, <1>4
    <2>3. {sent, refused, doubled}' \subseteq SUBSET Keys
      BY <1>1, Typed DEF auditVars
    <2> QED
      BY <1>1, <1>5, <2>1, <2>2, <2>3 DEF AnalysisTypeOK, auditVars
  <1>7. Sending' = {}
    BY <1>1, <1>3 DEF Sending, Active
  <1>8. \A e \in Analyses : \/ analysis'[e] = killed /\ analysis[e].outcome = "none"
                            \/ analysis'[e] = analysis[e]
    BY <1>1 DEF Active, IInv, LocalsInv, Sound
  <1>9. DeliveredInv'
    <2>1. \A m \in delivered : /\ analysis'[m.by] = analysis[m.by]
                               /\ m.key.life \in 0..restarts
      BY <1>1, <1>8, Typed DEF IInv, MessagesInv, DeliveredInv
    <2>2. \A m \in delivered : m.key.life \in 0..restarts' /\ m.key.life # restarts'
      BY <1>1, <1>4, <2>1
    <2> QED
      BY <1>1, <2>1, <2>2 DEF auditVars, IInv, MessagesInv, DeliveredInv
  <1>10. SentInv' /\ SendInv'
    BY <1>1, <1>7 DEF SentInv, SendInv
  <1>11. SentTwiceOnlyTogether'
    BY <1>1 DEF auditVars, IInv, MessagesInv, SentTwiceOnlyTogether
  <1>12. SuppressedWasTold'
    <2>1. \A e \in Analyses : analysis'[e].outcome = "suppressed" => analysis'[e] = analysis[e]
      BY <1>3, <1>8
    <2>2. \A life \in 0..restarts : life \in 0..restarts'
      BY <1>1, <1>4
    <2> QED
      BY <1>1, <2>1, <2>2 DEF auditVars, IInv, MessagesInv, SuppressedWasTold
  <1> QED
    BY <1>5, <1>6, <1>9, <1>10, <1>11, <1>12 DEF IInv, MessagesInv

(* Another candle, or another minute. *)
LEMMA WorldKeepsIInv ==
  ASSUME IInv, StoreCandle \/ Tick \/ UNCHANGED vars
  PROVE  IInv'
  <1>1. /\ stored' \in Tables /\ stored <= stored' /\ stored' \in Nat
        /\ minute' \in 0..MaxMinutes
        /\ UNCHANGED <<restarts, serviceVars, auditVars>>
    <2>1. stored \in Tables /\ stored \in Nat /\ minute \in 0..MaxMinutes
      BY Typed DEF IInv
    <2> QED
      BY <2>1, Numbers DEF StoreCandle, Tick, vars, Tables
  <1>2. AnalysisTypeOK'
    <2>1. atr = 0 \/ atr \in MinAtr..stored'
      <3>1. stored \in Nat /\ MinAtr \in Nat
        BY Typed, Numbers DEF IInv
      <3> QED
        BY <1>1, <3>1 DEF IInv, AnalysisTypeOK
    <2>2. {sent, refused, doubled}' = {sent, refused, doubled}
      BY <1>1 DEF serviceVars, auditVars
    <2> QED
      BY <1>1, <2>1, <2>2 DEF serviceVars, auditVars, IInv, AnalysisTypeOK
  <1>3. LocalsInv'
    <2>1. ASSUME NEW e \in Analyses PROVE Sound(analysis'[e], stored')
      <3>1. analysis[e] \in Analysis /\ Sound(analysis[e], stored) /\ stored \in Nat
        BY Typed DEF IInv, LocalsInv
      <3>2. PICK n \in Nat : n = stored'
        BY <1>1
      <3>3. Sound(analysis[e], n)
        BY <1>1, <3>1, <3>2, SoundStays
      <3> QED
        BY <1>1, <3>2, <3>3 DEF serviceVars
    <2> QED
      BY <2>1 DEF LocalsInv
  <1>4. MessagesInv'
    BY <1>1 DEF serviceVars, auditVars, IInv, MessagesInv, DeliveredInv, SentInv, SendInv,
                SentTwiceOnlyTogether, SuppressedWasTold, Sending, KeyOf
  <1> QED
    BY <1>2, <1>3, <1>4 DEF IInv

LEMMA InitIInv == Init => IInv
  <1> SUFFICES ASSUME Init PROVE IInv
    OBVIOUS
  <1>1. /\ analysis \in [Analyses -> Analysis] /\ LocalsInv
        /\ \A e \in Analyses : analysis[e].pc = "none" /\ analysis[e].outcome = "none"
    <2>1. 0 \in Nat /\ stored = 0 /\ analysis = [e \in Analyses |-> NoAnalysis]
      BY DEF Init
    <2>2. NoAnalysis \in Analysis /\ Sound(NoAnalysis, 0)
      BY <2>1, NoAnalysisIsSound
    <2>3. NoAnalysis.pc = "none" /\ NoAnalysis.outcome = "none"
      BY DEF NoAnalysis
    <2> QED
      BY <2>1, <2>2, <2>3 DEF LocalsInv
  <1>2. AnalysisTypeOK
    <2>1. 0 \in Tables /\ 0 \in 0..MaxMinutes /\ 0 \in 0..MaxRestarts
      BY Numbers DEF Tables
    <2> QED
      BY <1>1, <2>1 DEF Init, AnalysisTypeOK
  <1>3. Sending = {}
    BY <1>1 DEF Sending
  <1> QED
    BY <1>1, <1>2, <1>3
    DEF Init, IInv, MessagesInv, DeliveredInv, SentInv, SendInv, SentTwiceOnlyTogether,
        SuppressedWasTold

LEMMA NextIInv == IInv /\ [Next]_vars => IInv'
  BY OnItsWayKeepsIInv, EmitKeepsIInv, PostedKeepsIInv, RestartKeepsIInv, WorldKeepsIInv
  DEF Next, Step, OnItsWay

LEMMA SpecIInv == Spec => []IInv
  BY InitIInv, NextIInv, PTL DEF Spec

-----------------------------------------------------------------------------
(* The locals of an analysis keep their types, and a cached ATR always     *)
(* comes from a table with enough candles, whatever analyses overlap.      *)
THEOREM AnalysesAreTyped == Spec => []AnalysisTypeOK
  <1>1. IInv => AnalysisTypeOK
    BY DEF IInv
  <1> QED
    BY <1>1, SpecIInv, PTL

(* The user is told twice of one signal in one minute only by two analyses *)
(* whose messages were in flight together, however many there are.         *)
THEOREM DuplicatesOverlap == Spec => []SentTwiceOnlyTogether
  <1>1. IInv => SentTwiceOnlyTogether
    BY DEF IInv, MessagesInv
  <1> QED
    BY <1>1, SpecIInv, PTL

(* No message is suppressed but for another one that was delivered, or     *)
(* that Telegram refused.                                                  *)
THEOREM SuppressedWasAlwaysTold == Spec => []SuppressedWasTold
  <1>1. IInv => SuppressedWasTold
    BY DEF IInv, MessagesInv
  <1> QED
    BY <1>1, SpecIInv, PTL

(* Nothing reaches the user but what a summary priced, over a table with   *)
(* the candle that caused it.                                              *)
THEOREM ToldIsAlwaysPriced == Spec => []ToldIsPriced
  <1>1. IInv => ToldIsPriced
    <2> SUFFICES ASSUME IInv, NEW m \in delivered
                 PROVE  Priced(analysis[m.by])
      BY DEF ToldIsPriced, Priced
    <2>1. m.by \in Analyses /\ analysis[m.by].outcome = "marked"
      BY Typed DEF IInv, MessagesInv, DeliveredInv
    <2> QED
      BY <2>1 DEF IInv, LocalsInv, Sound
  <1> QED
    BY <1>1, SpecIInv, PTL
=============================================================================
