---------------------------- MODULE TradeJournal ----------------------------
(***************************************************************************)
(* What keeping a trade journal means, without the services, tables and    *)
(* events that do it: a trade is executed once, and then comes to exactly  *)
(* one end.  It is recorded, or somebody is told that it could not be, or  *)
(* it is lost (the reply that would have told of it, or the process).      *)
(***************************************************************************)
CONSTANT Trades
VARIABLE fate

Fates == {"none", "executed", "recorded", "told", "lost"}

JournalInit == fate = [t \in Trades |-> "none"]

Ends(ts, how) ==
  /\ \A t \in ts : fate[t] = "executed"
  /\ fate' = [t \in Trades |-> IF t \in ts THEN how ELSE fate[t]]

ExecuteTrade(t) ==
  /\ fate[t] = "none"
  /\ fate' = [fate EXCEPT ![t] = "executed"]
RecordTrade(t) == Ends({t}, "recorded")
TellTrade(t) == Ends({t}, "told")
LoseTrades(ts) == Ends(ts, "lost")

JournalNext ==
  \/ \E t \in Trades : ExecuteTrade(t) \/ RecordTrade(t) \/ TellTrade(t)
  \/ \E ts \in SUBSET Trades : LoseTrades(ts)

(* A trade that was executed does not stay without its end.                *)
JournalFairness ==
  \A t \in Trades : WF_fate(RecordTrade(t) \/ TellTrade(t) \/ LoseTrades({t}))

JournalSafety == JournalInit /\ [][JournalNext]_fate
JournalSpec == JournalSafety /\ JournalFairness
=============================================================================
