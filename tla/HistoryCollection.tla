-------------------------- MODULE HistoryCollection --------------------------
(***************************************************************************)
(* BinanceHistoryDataService.collectHistoricalData for one symbol: it      *)
(* fetches the klines of the last years page by page and saves those the   *)
(* table does not have.  A collector is one such call; it resumes after    *)
(* the newest row unless older rows are missing.                           *)
(*                                                                         *)
(* The clock is the number of the candle in progress.  A call's end time   *)
(* lies inside a candle and its start time Window candles earlier, hence   *)
(* inside one too: the first candle at or after the start is now-Window+1. *)
(***************************************************************************)
EXTENDS CandleStore, FiniteSets

CONSTANTS
  Collectors,   \* calls of collectHistoricalData; a call saves as itself
  Window,       \* candles in four years
  PageSize,     \* MAX_CANDLES_PER_REQUEST
  BatchSize,    \* BATCH_SIZE
  MaxRetries,   \* MAX_RETRIES
  Listed,       \* the first candle the exchange has of the symbol
  FirstNow      \* the candle in progress when the behaviour begins

ASSUME HistoryAssumption ==
  /\ Collectors \subseteq Savers
  /\ {Window, PageSize, BatchSize, MaxRetries} \subseteq Nat \ {0}
  /\ Listed \in Times /\ FirstNow \in Times

VARIABLES
  now,   \* the candle in progress
  job    \* collector: its await, its locals and what became of candles

(* Locals: from and to (the candles of currentStartTime and endTime), cur  *)
(* (currentTime), tries (retryCount), pending (pendingCandles), batch (what *)
(* saveCandlesBatch still has to do) and last (the newest row it read).    *)
(* Audit: first (of startTime), fetched, unsaved (saves that threw),       *)
(* skipped (a page was given up).                                          *)
NoJob == [pc |-> "none", first |-> 0, from |-> 0, to |-> 0, cur |-> 0, tries |-> 0,
          last |-> 0, pending |-> <<>>, batch |-> <<>>,
          fetched |-> {}, unsaved |-> {}, skipped |-> FALSE]
JobPc == {"none", "last", "earliest", "fetch", "retry", "check", "saving", "done", "killed"}
Active == {c \in Collectors : job[c].pc \notin {"none", "done", "killed"}}

HistoryInit ==
  /\ now = FirstNow
  /\ job = [c \in Collectors |-> NoJob]

(* fetchCandlesFromBinance (external): what the exchange has of a page.    *)
Smaller(a, b) == IF a < b THEN a ELSE b
Page(from, to) ==
  LET low == IF from < Listed THEN Listed ELSE from
      high == Smaller(Smaller(to, from + PageSize - 1), now)
  IN  [i \in 1..(IF high < low THEN 0 ELSE high - low + 1) |->
         [t |-> low + i - 1, v |-> IF low + i - 1 < now THEN Final ELSE InProgress]]

(* The time of the clock passes.                                           *)
Tick ==
  /\ now < NumCandles
  /\ now' = now + 1
  /\ UNCHANGED <<storeVars, job>>

Moves(c, j) == job' = [job EXCEPT ![c] = j] /\ UNCHANGED now

(* The loop goes on until currentTime has reached the end; what is pending *)
(* then is saved, and the call returns.                                    *)
Looped(j) ==
  IF j.cur <= j.to THEN [j EXCEPT !.pc = "fetch"]
  ELSE IF j.pending # <<>>
       THEN [j EXCEPT !.pc = "check", !.batch = j.pending, !.pending = <<>>]
  ELSE [j EXCEPT !.pc = "done", !.last = 0]
Broken(j) == Looped([j EXCEPT !.cur = j.to + 1])

-----------------------------------------------------------------------------
Collect(c) ==
  /\ job[c].pc = "none"
  /\ LET first == now - Window + 1
     IN  Moves(c, [NoJob EXCEPT !.pc = "last", !.first = first, !.from = first, !.to = now])
  /\ UNCHANGED storeVars

(* findLastStoredCandle; a failure reads as no row.                        *)
StoredTimes == {t \in Times : row[t] # Absent}
FindLast(c) ==
  /\ job[c].pc = "last"
  /\ \E last \in {0} \cup {t \in StoredTimes : \A u \in StoredTimes : u <= t} :
       Moves(c, [job[c] EXCEPT !.pc = "earliest", !.last = last])
  /\ UNCHANGED storeVars

(* findFirstStoredCandle, and where to begin: after the newest row if the  *)
(* rows begin before the start, not at all if that row is the last candle. *)
FindFirst(c) ==
  /\ job[c].pc = "earliest"
  /\ \E earliest \in {0} \cup {t \in StoredTimes : \A u \in StoredTimes : t <= u} :
       LET j == job[c]
           resumes == earliest # 0 /\ j.last # 0 /\ earliest < j.first /\ j.last <= j.to
           from == IF resumes THEN j.last + 1 ELSE j.first
       IN  Moves(c, IF resumes /\ j.last = j.to THEN Broken(j)
                    ELSE Looped([j EXCEPT !.from = from, !.cur = from]))
  /\ UNCHANGED storeVars

(* Variant: the next page begins one candle too late.                      *)
ReceivedAhead(j, page) ==
  [j EXCEPT !.pending = @ \o page, !.cur = page[Len(page)].t + 2, !.tries = 0,
            !.fetched = @ \cup {page[i].t : i \in DOMAIN page}]

(* A page arrived: its candles are pending, the next page begins after it. *)
Received(j, page) ==
  [j EXCEPT !.pending = @ \o page, !.cur = page[Len(page)].t + 1, !.tries = 0,
            !.fetched = @ \cup {page[i].t : i \in DOMAIN page}]

(* Variant: a batch takes all that is pending but saves BatchSize of it.   *)
FetchPageTruncated(c) ==
  /\ job[c].pc = "fetch"
  /\ LET page == Page(job[c].cur, job[c].to)
         got == Received(job[c], page)
     IN  \/ page = <<>> /\ Moves(c, Broken(job[c]))
         \/ /\ page # <<>> /\ Len(got.pending) < BatchSize
            /\ Moves(c, Looped(got))
         \/ /\ page # <<>> /\ Len(got.pending) >= BatchSize
            /\ Moves(c, [got EXCEPT !.pc = "check", !.pending = <<>>,
                           !.batch = SubSeq(got.pending, 1, BatchSize)])
  /\ UNCHANGED storeVars

(* An empty page ends the loop; a full batch is saved before the next one. *)
FetchPage(c) ==
  /\ job[c].pc = "fetch"
  /\ LET page == Page(job[c].cur, job[c].to)
         got == Received(job[c], page)
     IN  \/ page = <<>> /\ Moves(c, Broken(job[c]))
         \/ /\ page # <<>> /\ Len(got.pending) < BatchSize
            /\ Moves(c, Looped(got))
         \/ /\ page # <<>> /\ Len(got.pending) >= BatchSize
            /\ Moves(c, [got EXCEPT !.pc = "check",
                           !.batch = SubSeq(got.pending, 1, BatchSize),
                           !.pending = SubSeq(got.pending, BatchSize + 1, Len(got.pending))])
  /\ UNCHANGED storeVars

FetchFails(c) ==
  /\ job[c].pc = "fetch"
  /\ Moves(c, [job[c] EXCEPT !.pc = "retry"])
  /\ UNCHANGED storeVars

(* Variant: a page given up is not left behind.                            *)
RetryForever(c) ==
  /\ job[c].pc = "retry"
  /\ LET j == job[c]
         page == Page(j.cur, j.to)
     IN  \/ page # <<>> /\ Moves(c, Looped(Received(j, page)))
         \/ j.tries + 1 < MaxRetries /\ Moves(c, [j EXCEPT !.tries = @ + 1])
         \/ /\ j.tries + 1 >= MaxRetries
            /\ Moves(c, Looped([j EXCEPT !.tries = 0, !.skipped = TRUE]))
  /\ UNCHANGED storeVars

(* Variant: one retry more.                                                *)
RetryOnceMore(c) ==
  /\ job[c].pc = "retry"
  /\ LET j == job[c]
         page == Page(j.cur, j.to)
     IN  \/ page # <<>> /\ Moves(c, Looped(Received(j, page)))
         \/ j.tries < MaxRetries /\ Moves(c, [j EXCEPT !.tries = @ + 1])
         \/ /\ j.tries >= MaxRetries
            /\ Moves(c, Looped([j EXCEPT !.cur = @ + PageSize, !.tries = 0, !.skipped = TRUE]))
  /\ UNCHANGED storeVars

(* A retry that brings candles goes on with the loop, without saving a     *)
(* batch; after MaxRetries failures or empty pages the page is skipped.    *)
Retry(c) ==
  /\ job[c].pc = "retry"
  /\ LET j == job[c]
         page == Page(j.cur, j.to)
     IN  \/ page # <<>> /\ Moves(c, Looped(Received(j, page)))
         \/ j.tries + 1 < MaxRetries /\ Moves(c, [j EXCEPT !.tries = @ + 1])
         \/ /\ j.tries + 1 >= MaxRetries
            /\ Moves(c, Looped([j EXCEPT !.cur = @ + PageSize, !.tries = 0, !.skipped = TRUE]))
  /\ UNCHANGED storeVars

(* saveCandlesBatch goes on with the next candle, or back to the loop.     *)
NextOfBatch(j) ==
  IF Len(j.batch) > 1 THEN [j EXCEPT !.pc = "check", !.batch = Tail(@)]
  ELSE Looped([j EXCEPT !.batch = <<>>])

(* findByOpenTime: a candle that is there is skipped, one that is not (or  *)
(* when the read fails) is saved.                                          *)
CheckCandle(c) ==
  /\ job[c].pc = "check"
  /\ LET candle == Head(job[c].batch)
     IN  \/ /\ row[candle.t] # Absent
            /\ Moves(c, NextOfBatch(job[c]))
            /\ UNCHANGED storeVars
         \/ /\ Moves(c, [job[c] EXCEPT !.pc = "saving"])
            /\ save' = [save EXCEPT ![c] = SaveOf(candle)]
            /\ UNCHANGED row

SaveCandle(c) ==
  /\ SaveStep(c)
  /\ UNCHANGED <<now, job>>

(* A save that threw is logged, and the batch goes on.                     *)
CandleSaved(c) ==
  /\ job[c].pc = "saving" /\ save[c].pc \in {"returned", "thrown"}
  /\ LET j == job[c]
     IN  Moves(c, NextOfBatch(IF save[c].pc = "returned" THEN j
                              ELSE [j EXCEPT !.unsaved = @ \cup {save[c].t}]))
  /\ save' = [save EXCEPT ![c] = NoSave]
  /\ UNCHANGED row

(* The process ends: the calls are gone, the rows stay.                    *)
CallsEnd ==
  job' = [c \in Collectors |->
            IF c \in Active THEN [NoJob EXCEPT !.pc = "killed"] ELSE job[c]]
Kill ==
  /\ Active # {}
  /\ CallsEnd
  /\ NoSavesLeft
  /\ UNCHANGED <<row, now>>

-----------------------------------------------------------------------------
Progress(c) ==
  \/ FindLast(c) \/ FindFirst(c) \/ FetchPage(c) \/ FetchFails(c) \/ Retry(c)
  \/ CheckCandle(c) \/ SaveCandle(c) \/ CandleSaved(c)

HistoryNext == Tick \/ Kill \/ \E c \in Collectors : Collect(c) \/ Progress(c)

historyVars == <<storeVars, now, job>>

EmptyStart == StoreInit /\ HistoryInit

(* Every request of a call is answered, well or badly.                     *)
HistorySpec ==
  /\ EmptyStart
  /\ [][HistoryNext]_historyVars
  /\ \A c \in Collectors : WF_historyVars(Progress(c))

-----------------------------------------------------------------------------
(* The rows and the locals of the calls keep their types; a batch is what  *)
(* the loop handed over or the rest, and never empty while it is saved.    *)
HistoryTypeOK ==
  /\ StoreTypeOK
  /\ now \in Times
  /\ \A c \in Collectors :
       /\ job[c].pc \in JobPc
       /\ {job[c].first, job[c].from, job[c].cur} \subseteq Int
       /\ {job[c].to, job[c].last} \subseteq 0..NumCandles
       /\ job[c].tries \in 0..(MaxRetries - 1)
       /\ job[c].pending \in Seq(Candle) /\ job[c].batch \in Seq(Candle)
       /\ job[c].pc \in {"check", "saving"} <=> job[c].batch # <<>>
       /\ job[c].fetched \subseteq Times /\ job[c].unsaved \subseteq job[c].fetched
       /\ job[c].skipped \in BOOLEAN

Ranged(seq) == {seq[i].t : i \in DOMAIN seq}

(* No candle is lost between the pages and the batches: what a call        *)
(* fetched is pending, in the batch, in the table, or its save threw, also *)
(* when a retry skips the batch and two calls insert the same candle.      *)
NothingFetchedIsDropped ==
  \A c \in Collectors : \A t \in job[c].fetched :
    \/ t \in Ranged(job[c].pending) \cup Ranged(job[c].batch)
    \/ row[t] # Absent \/ t \in job[c].unsaved

(* The pages of a call that gave none up meet without a hole or an overlap *)
(* and reach its end, whatever failed in between.                          *)
PagesMeet ==
  \A c \in Collectors :
    job[c].pc = "done" /\ ~job[c].skipped /\ job[c].fetched # {} =>
      job[c].fetched = {t \in Times : Listed <= t /\ job[c].from <= t /\ t <= job[c].to}

(* A call ends ("sequential processing", BinanceHistoryDataService 15):    *)
(* currentTime passes the end whatever pages fail or are empty.            *)
CollectionEnds ==
  \A c \in Collectors : c \in Active ~> c \notin Active
=============================================================================
