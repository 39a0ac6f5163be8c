------------------------- MODULE CandleSystem_proofs -------------------------
(***************************************************************************)
(* Theorems about Candle15MService's klines and the table, and about the   *)
(* history collector, alone and beside the live stream on that table: for  *)
(* every number of candles, sockets, listeners, handlers and calls, every  *)
(* window, page and batch, by TLAPS. The klines come first.                *)
(***************************************************************************)
EXTENDS CandleSystem, SequenceTheorems, TLAPS

-----------------------------------------------------------------------------
(* The table.                                                              *)

(* What a step of saveCandle may do: it goes on with its own candle, and   *)
(* changes no other row; what it found, or returns, is in the table.       *)
StepOfSave(s) ==
  /\ save[s].pc \in {"find", "write", "reread"}
  /\ save'[s].pc \in {"write", "reread", "returned", "thrown"}
  /\ save'[s].t = save[s].t /\ save'[s].v = save[s].v
  /\ \A r \in Savers \ {s} : save'[r] = save[r]
  /\ \A t \in Times : row'[t] = row[t] \/ (t = save[s].t /\ row'[t] = save[s].v)
  /\ save'[s].found \/ save'[s].pc = "returned" => row'[save[s].t] # Absent

(* A step of a save keeps the types of the table, deletes no row, and does *)
(* what StepOfSave says (Candle15MRepository.saveCandle).                  *)
LEMMA SaveStepEffect ==
  ASSUME StoreTypeOK, NEW s \in Savers, SaveStep(s)
  PROVE  StoreTypeOK' /\ StepOfSave(s)
<1> DEFINE t == save[s].t
<1>1. /\ t \in Times /\ save[s].v \in {InProgress, Final} /\ save[s].found \in BOOLEAN
      /\ save[s] \in Save
  BY DEF StoreTypeOK, Save
<1>2. CASE FindRow(s)
  <2>1. save' = [save EXCEPT ![s].pc = "write", ![s].found = row[t] # Absent] /\ row' = row
        /\ save[s].pc = "find"
    BY <1>2 DEF FindRow
  <2>2. save'[s] = [save[s] EXCEPT !.pc = "write", !.found = row[t] # Absent]
    BY <2>1 DEF StoreTypeOK
  <2>3. /\ save'[s].pc = "write" /\ save'[s].t = t /\ save'[s].v = save[s].v
        /\ save'[s].found <=> row[t] # Absent
        /\ save'[s] \in Save
    BY <2>2, <1>1 DEF Save, SavePc
  <2>4. save' \in [Savers -> Save] /\ \A r \in Savers \ {s} : save'[r] = save[r]
    BY <2>1, <2>3 DEF StoreTypeOK
  <2> QED BY <2>1, <2>3, <2>4 DEF StoreTypeOK, StepOfSave
<1>3. ASSUME NEW pc \in {"returned", "reread", "thrown"}, SaveGoesTo(s, pc)
      PROVE  /\ save' \in [Savers -> Save]
             /\ save'[s].pc = pc /\ save'[s].t = t /\ save'[s].v = save[s].v
             /\ save'[s].found = FALSE
             /\ \A r \in Savers \ {s} : save'[r] = save[r]
  <2>1. save' = [save EXCEPT ![s].pc = pc, ![s].found = FALSE]
    BY <1>3 DEF SaveGoesTo
  <2>2. save'[s] = [save[s] EXCEPT !.pc = pc, !.found = FALSE]
    BY <2>1 DEF StoreTypeOK
  <2>3. /\ save'[s].pc = pc /\ save'[s].t = t /\ save'[s].v = save[s].v
        /\ save'[s].found = FALSE
        /\ save'[s] \in Save
    BY <2>2, <1>1, <1>3 DEF Save, SavePc
  <2> QED BY <2>1, <2>3 DEF StoreTypeOK
<1>4. CASE WriteRow(s)
  <2>1. CASE /\ row' = [row EXCEPT ![t] = save[s].v]
             /\ SaveGoesTo(s, "returned")
    <3>1. /\ row'[t] = save[s].v /\ save[s].v # Absent
          /\ row' \in [Times -> {Absent, InProgress, Final}]
          /\ \A u \in Times \ {t} : row'[u] = row[u]
      BY <2>1, <1>1 DEF StoreTypeOK, Absent, InProgress, Final
    <3> QED BY <3>1, <2>1, <1>3, <1>4 DEF StoreTypeOK, StepOfSave, WriteRow
  <2>2. CASE /\ row[t] # Absent /\ SaveGoesTo(s, "reread") /\ UNCHANGED row
    BY <2>2, <1>3, <1>4 DEF StoreTypeOK, StepOfSave, WriteRow
  <2> QED BY <1>4, <2>1, <2>2 DEF WriteRow
<1>5. CASE RereadRow(s)
  <2>1. row' = row /\ save[s].pc = "reread"
    BY <1>5 DEF RereadRow
  <2>2. CASE row[t] # Absent
    <3>1. SaveGoesTo(s, "returned")
      BY <1>5, <2>2 DEF RereadRow
    <3> QED BY <3>1, <2>1, <2>2, <1>3 DEF StoreTypeOK, StepOfSave
  <2>3. CASE row[t] = Absent
    <3>1. SaveGoesTo(s, "thrown")
      BY <1>5, <2>3 DEF RereadRow
    <3> QED BY <3>1, <2>1, <2>3, <1>3 DEF StoreTypeOK, StepOfSave
  <2> QED BY <2>2, <2>3
<1>6. CASE SaveThrows(s)
  <2>1. SaveGoesTo(s, "thrown") /\ save[s].pc \in {"find", "write", "reread"}
    BY <1>6 DEF SaveThrows
  <2>2. row' = row \/ row' = [row EXCEPT ![t] = save[s].v]
    BY <1>6 DEF SaveThrows
  <2>3. /\ row' \in [Times -> {Absent, InProgress, Final}]
        /\ \A u \in Times : row'[u] = row[u] \/ (u = t /\ row'[u] = save[s].v)
    BY <2>2, <1>1 DEF StoreTypeOK
  <2> QED BY <2>1, <2>3, <1>3 DEF StoreTypeOK, StepOfSave
<1> QED BY <1>2, <1>4, <1>5, <1>6 DEF SaveStep

LEMMA StoreInitTypes == StoreInit => StoreTypeOK
BY StoreAssumption DEF StoreInit, StoreTypeOK, NoSave, Save, SavePc, Times

(* A row that is there stays, whatever a save does.                        *)
LEMMA RowsRemain ==
  ASSUME StoreTypeOK, NEW s \in Savers, StepOfSave(s), NEW t \in Times, row[t] # Absent
  PROVE  row'[t] # Absent
BY DEF StoreTypeOK, StepOfSave, Save, Absent, InProgress, Final

-----------------------------------------------------------------------------
(* The stream and the memory.                                              *)

(* A message is of a candle, which its number is at least as far as.       *)
LEMMA KlineFacts ==
  ASSUME NEW k \in Messages
  PROVE  /\ Kline(k) \in Candle
         /\ 2 * Kline(k).t - 1 <= k
         /\ \A t \in Times : 2 * t - 1 <= k => t <= Kline(k).t
<1> USE StoreAssumption DEF Messages, Times
<1>1. /\ (k + 1) \div 2 \in Times /\ 2 * ((k + 1) \div 2) - 1 <= k
      /\ \A t \in Times : 2 * t - 1 <= k => t <= (k + 1) \div 2
  BY SMTT(30)
<1> QED BY <1>1 DEF Kline, Candle

LEMMA HandlerFacts ==
  ASSUME NEW h \in Handlers
  PROVE  /\ h[1] \in Sockets /\ h[2] \in Messages /\ h \in Savers
         /\ KlineOf(h) \in Candle /\ KlineOf(h) = Kline(h[2])
         /\ KlineOf(h).t \in Times /\ KlineOf(h).t \in 0..NumCandles /\ KlineOf(h).t # 0
         /\ KlineOf(h).v \in {InProgress, Final}
<1>1. h[1] \in Sockets /\ h[2] \in Messages /\ h \in Savers /\ KlineOf(h) = Kline(h[2])
  BY IngestionAssumption DEF Handlers, KlineOf
<1>2. KlineOf(h) \in Candle
  BY <1>1, KlineFacts
<1> QED BY <1>1, <1>2, StoreAssumption DEF Candle, Times

(* The candles of a sequence, and their times.                             *)
LEMMA CandlesOfSeq ==
  ASSUME NEW s \in Seq(Candle)
  PROVE  /\ Len(s) \in Nat /\ DOMAIN s = 1..Len(s) /\ (s # <<>> => Len(s) \in 1..Len(s))
         /\ \A i \in 1..Len(s) : s[i] \in Candle /\ s[i].t \in Times /\ s[i].t \in Int
<1>1. Len(s) \in Nat /\ DOMAIN s = 1..Len(s)
  BY LenProperties
<1>2. s # <<>> => Len(s) \in Nat \ {0}
  BY EmptySeq
<1>3. ASSUME NEW i \in 1..Len(s) PROVE s[i] \in Candle /\ s[i].t \in Times /\ s[i].t \in Int
  <2>1. s[i] \in Candle
    BY ElementOfSeq
  <2>2. \A c \in Candle : c.t \in Times /\ c.t \in Int
    BY StoreAssumption DEF Candle, Times
  <2> QED BY <2>1, <2>2
<1> QED BY <1>1, <1>2, <1>3

(* updateMemoryCache replaces the last candle by the message's, or appends *)
(* it, and then drops the oldest.                                          *)
Grown(candles, candle) ==
  IF candles # <<>> /\ LastOf(candles).t = candle.t
  THEN [candles EXCEPT ![Len(candles)] = candle]
  ELSE Append(candles, candle)

UpTo(t, candles) == \A i \in DOMAIN candles : candles[i].t <= t
TimesIn(S, candles) == \A i \in DOMAIN candles : candles[i].t \in S

LEMMA GrownFacts ==
  ASSUME NEW candles \in Seq(Candle), NEW candle \in Candle
  PROVE  /\ Grown(candles, candle) \in Seq(Candle)
         /\ Len(Grown(candles, candle)) <= Len(candles) + 1
         /\ Ascending(candles) /\ UpTo(candle.t, candles) => Ascending(Grown(candles, candle))
         /\ \A S : candle.t \in S /\ TimesIn(S, candles) => TimesIn(S, Grown(candles, candle))
<1> DEFINE same == candles # <<>> /\ LastOf(candles).t = candle.t
           grown == Grown(candles, candle)
           n == Len(candles)
           tm(i) == candles[i].t
<1>0. /\ candle.t \in Int /\ n \in Nat /\ DOMAIN candles = 1..n
      /\ candles # <<>> => n \in 1..n
      /\ \A i \in 1..n : tm(i) \in Int
  <2>1. candle.t \in Int
    BY StoreAssumption DEF Candle, Times
  <2> QED BY <2>1, CandlesOfSeq
<1>1. CASE same
  <2>1. n \in 1..n /\ tm(n) = candle.t
    BY <1>0, <1>1 DEF LastOf
  <2>2. grown = [candles EXCEPT ![n] = candle]
    BY <1>1 DEF Grown
  <2>3. /\ grown \in Seq(Candle) /\ Len(grown) = n
        /\ \A i \in 1..n : grown[i] = IF i = n THEN candle ELSE candles[i]
    BY <2>1, <2>2, ExceptSeq
  <2>4. DOMAIN grown = 1..n /\ \A i \in 1..n : grown[i].t = tm(i)
    BY <2>1, <2>3, LenProperties
  <2> HIDE DEF grown, n, tm
  <2>5. Ascending(candles) => Ascending(grown)
    BY <1>0, <2>4 DEF Ascending, n, tm
  <2>6. \A S : TimesIn(S, candles) => TimesIn(S, grown)
    BY <1>0, <2>4 DEF TimesIn, tm
  <2> QED BY <2>3, <2>5, <2>6, <1>0 DEF grown, n
<1>2. CASE ~same
  <2>1. grown = Append(candles, candle)
    BY <1>2 DEF Grown
  <2>2. /\ grown \in Seq(Candle) /\ Len(grown) = n + 1
        /\ \A i \in 1..n : grown[i] = candles[i]
        /\ grown[n + 1] = candle
    BY <2>1, AppendProperties
  <2>3. /\ DOMAIN grown = 1..(n + 1)
        /\ \A i \in 1..n : grown[i].t = tm(i)
        /\ grown[n + 1].t = candle.t
    BY <2>2, LenProperties
  <2>4. candles = <<>> \/ tm(n) # candle.t
    BY <1>2 DEF LastOf
  <2>5. candles = <<>> => n = 0
    BY EmptySeq
  <2> HIDE DEF grown, n, tm
  <2>6. ASSUME Ascending(candles), UpTo(candle.t, candles)
        PROVE  Ascending(grown)
    <3>1. \A i, j \in 1..n : i < j => tm(i) < tm(j)
      BY <2>6, <1>0 DEF Ascending, tm
    <3>2. \A i \in 1..n : tm(i) <= candle.t
      BY <2>6, <1>0 DEF UpTo, tm
    <3>3. \A i \in 1..n : tm(i) < candle.t
      BY <3>1, <3>2, <2>4, <2>5, <1>0
    <3>4. \A i, j \in 1..(n + 1) : i < j => grown[i].t < grown[j].t
      <4> SUFFICES ASSUME NEW i \in 1..(n + 1), NEW j \in 1..(n + 1), i < j
                   PROVE  grown[i].t < grown[j].t
        OBVIOUS
      <4>1. i \in 1..n /\ (j \in 1..n \/ j = n + 1)
        BY <1>0
      <4> QED BY <4>1, <3>1, <3>3, <2>3
    <3> QED BY <3>4, <2>3 DEF Ascending
  <2>7. \A S : candle.t \in S /\ TimesIn(S, candles) => TimesIn(S, grown)
    <3>1. \A i \in 1..(n + 1) : i \in 1..n \/ i = n + 1
      BY <1>0
    <3> QED BY <3>1, <1>0, <2>3 DEF TimesIn, tm
  <2> QED BY <2>2, <2>6, <2>7, <1>0 DEF grown, n
<1> QED BY <1>1, <1>2

LEMMA TrimmedFacts ==
  ASSUME NEW s \in Seq(Candle), Len(s) > MaxMemory
  PROVE  LET trimmed == SubSeq(s, Len(s) - MaxMemory + 1, Len(s))
         IN  /\ trimmed \in Seq(Candle) /\ Len(trimmed) = MaxMemory
             /\ Ascending(s) => Ascending(trimmed)
             /\ \A S : TimesIn(S, s) => TimesIn(S, trimmed)
<1> DEFINE n == Len(s)
           from == n - MaxMemory + 1
           trimmed == SubSeq(s, from, n)
           tm(i) == s[i].t
<1>0. n \in Nat /\ DOMAIN s = 1..n /\ MaxMemory \in Nat \ {0}
      /\ \A i \in 1..n : s[i] \in Candle /\ tm(i) \in Int
  BY CandlesOfSeq, IngestionAssumption
<1>1. from \in 1..n /\ from <= n /\ n - from + 1 = MaxMemory
  BY <1>0
<1> HIDE DEF n, from
<1>2. \A i \in from..n : s[i] \in Candle
  BY <1>0, <1>1
<1>3. /\ trimmed \in Seq(Candle) /\ Len(trimmed) = MaxMemory
      /\ \A i \in 1..MaxMemory : trimmed[i] = s[from + i - 1]
  BY <1>0, <1>1, <1>2, SubSeqProperties
<1>4. DOMAIN trimmed = 1..MaxMemory
  BY <1>3, LenProperties
<1>5. \A i \in 1..MaxMemory : from + i - 1 \in 1..n /\ trimmed[i].t = tm(from + i - 1)
  BY <1>0, <1>1, <1>3
<1> HIDE DEF trimmed
<1>6. ASSUME Ascending(s) PROVE Ascending(trimmed)
  <2>1. \A i, j \in 1..n : i < j => tm(i) < tm(j)
    BY <1>6, <1>0 DEF Ascending
  <2> HIDE DEF tm
  <2>2. \A i, j \in 1..MaxMemory : i < j => trimmed[i].t < trimmed[j].t
    BY <2>1, <1>0, <1>1, <1>5
  <2> QED BY <2>2, <1>4 DEF Ascending
<1>7. \A S : TimesIn(S, s) => TimesIn(S, trimmed)
  BY <1>0, <1>4, <1>5 DEF TimesIn
<1> QED BY <1>3, <1>6, <1>7 DEF trimmed, from, n

(* updateMemoryCache keeps the types and the limit of the memory; it keeps *)
(* the order when the candle is not older than those remembered, and adds  *)
(* no candle but its own.                                                  *)
LEMMA RememberFacts ==
  ASSUME NEW candles \in Seq(Candle), NEW candle \in Candle, Len(candles) <= MaxMemory
  PROVE  /\ Remember(candles, candle) \in Seq(Candle)
         /\ Len(Remember(candles, candle)) <= MaxMemory
         /\ Ascending(candles) /\ UpTo(candle.t, candles) => Ascending(Remember(candles, candle))
         /\ \A S : candle.t \in S /\ TimesIn(S, candles) => TimesIn(S, Remember(candles, candle))
<1> DEFINE grown == Grown(candles, candle)
<1>1. /\ grown \in Seq(Candle)
      /\ Ascending(candles) /\ UpTo(candle.t, candles) => Ascending(grown)
      /\ \A S : candle.t \in S /\ TimesIn(S, candles) => TimesIn(S, grown)
  BY GrownFacts
<1>2. Remember(candles, candle) = IF Len(grown) > MaxMemory
        THEN SubSeq(grown, Len(grown) - MaxMemory + 1, Len(grown)) ELSE grown
  BY DEF Remember, Grown
<1>3. candle.t \in Int /\ MaxMemory \in Nat
  BY StoreAssumption, IngestionAssumption DEF Candle, Times
<1> HIDE DEF grown
<1>4. CASE Len(grown) > MaxMemory
  BY <1>1, <1>2, <1>3, <1>4, TrimmedFacts
<1>5. CASE ~(Len(grown) > MaxMemory)
  <2>1. Len(grown) <= MaxMemory
    BY <1>1, <1>3, <1>5, CandlesOfSeq
  <2> QED BY <1>1, <1>2, <1>5, <2>1
<1> QED BY <1>4, <1>5
-----------------------------------------------------------------------------
(* The inductive invariant.                                                *)

(* Somebody tells of t, or did, or was killed before he could.             *)
IsFinalOf(h, t) == KlineOf(h) = [t |-> t, v |-> Final]
Tells(h) ==
  \/ handler[h].pc \in {"announced", "failed", "killed"}
  \/ handler[h].pc \in {"find", "saving"} /\ handler[h].isNew
Told(t) == \E h \in Handlers : IsFinalOf(h, t) /\ Tells(h)

(* A message still to come has no handler.                                 *)
SlotsInv == \A h \in Handlers : handler[h].pc # "none" => h[2] <= cursor[h[1]]

(* Only a handler that awaits its save has one, of its own final candle;   *)
(* what the save found, or returns, is in the table.                       *)
SaveInv(s) ==
  save[s].pc # "none" =>
    /\ s \in Handlers /\ handler[s].pc = "saving"
    /\ KlineOf(s) = [t |-> save[s].t, v |-> save[s].v]
    /\ save[s].found \/ save[s].pc = "returned" => row[save[s].t] # Absent
SavesInv == \A s \in Savers : SaveInv(s)

(* Without the collector the table has final candles only, and somebody    *)
(* tells of each.                                                          *)
RowsInv == \A t \in Times : row[t] # Absent => row[t] = Final /\ Told(t)

(* A handler of a final candle that may end without a word is not alone.   *)
HandlerInv(h) ==
  /\ handler[h].pc \in {"saving", "announced", "failed", "quiet", "killed"} => KlineOf(h).v = Final
  /\ handler[h].pc # "none" /\ KlineOf(h).v = Final => Told(KlineOf(h).t)
  /\ handler[h].pc = "announced" => row[KlineOf(h).t] # Absent
HandlersInv == \A h \in Handlers : HandlerInv(h)

(* What is cached, or about to be, is in the table.                        *)
CachedInv ==
  /\ latest # 0 => row[latest] # Absent
  /\ loader.pc = "latest" => loader.t \in Times /\ row[loader.t] # Absent

IngestionInv ==
  IngestionTypeOK /\ SlotsInv /\ SavesInv /\ RowsInv /\ HandlersInv /\ CachedInv

(* Every candle in memory was reached by some connection.                  *)
Reached(t) == \E w \in Sockets : 2 * t - 1 <= cursor[w]
MemoryInv == \A i \in DOMAIN memory : Reached(memory[i].t)

-----------------------------------------------------------------------------
LEMMA IngestionStarts == Init => IngestionInv
<1> SUFFICES ASSUME Init PROVE IngestionInv
  OBVIOUS
<1> USE DEF Init
<1>1. \A h \in Handlers : handler[h].pc = "none"
  BY DEF At
<1>2. \A s \in Savers : save[s].pc = "none"
  BY DEF StoreInit, NoSave
<1>3. IngestionTypeOK
  <2>1. handler \in [Handlers -> [pc: HandlerPc, isNew: BOOLEAN]]
    BY DEF At, HandlerPc
  <2>2. memory \in Seq(Candle) /\ Len(memory) = 0
    BY EmptySeq
  <2>3. cursor \in [Sockets -> 0..(2 * NumCandles)] /\ latest \in 0..NumCandles
        /\ loader \in [pc: LoaderPc, t: 0..NumCandles]
    BY StoreAssumption DEF Idle, LoaderPc
  <2> QED BY <2>1, <2>2, <2>3, StoreInitTypes, IngestionAssumption DEF IngestionTypeOK
<1>4. SlotsInv /\ SavesInv /\ HandlersInv
  BY <1>1, <1>2 DEF SlotsInv, SavesInv, SaveInv, HandlersInv, HandlerInv
<1>5. RowsInv /\ CachedInv
  BY DEF RowsInv, CachedInv, StoreInit, Idle
<1> QED BY <1>3, <1>4, <1>5 DEF IngestionInv

(* Who tells of a candle goes on telling, until all of a process ends.     *)
LEMMA ToldStays ==
  ASSUME \A h \in Handlers : KlineOf(h).v = Final /\ Tells(h) => Tells(h)'
  PROVE  \A t : Told(t) => Told(t)'
BY DEF Told, IsFinalOf

(* What findLatestCandles returns.                                         *)
LEMMA LatestRowsFacts ==
  ASSUME NEW rows, rows \in LatestRows(MaxMemory)
  PROVE  /\ rows \in Seq(Candle) /\ Len(rows) <= MaxMemory
         /\ Ascending(rows)
         /\ \A i \in DOMAIN rows : row[rows[i].t] # Absent
<1>1. PICK n \in 0..MaxMemory : rows \in [1..n -> Candle]
  BY DEF LatestRows
<1>2. n \in Nat /\ n <= MaxMemory
  BY IngestionAssumption
<1>3. rows \in Seq(Candle)
  BY <1>1, <1>2, SeqDef
<1>4. Len(rows) = n /\ DOMAIN rows = 1..n
  BY <1>1, <1>2, <1>3, LenProperties
<1>5. \A i \in DOMAIN rows : row[rows[i].t] = rows[i].v /\ rows[i].v # Absent
  <2>1. \A i \in DOMAIN rows : rows[i].v # Absent
    BY <1>1 DEF Candle, Absent, InProgress, Final
  <2> QED BY <2>1 DEF LatestRows
<1> QED BY <1>2, <1>3, <1>4, <1>5 DEF LatestRows

LEMMA LoseInv ==
  ASSUME IngestionInv, NEW w \in Sockets, Lose(w)
  PROVE  IngestionInv'
<1> USE DEF IngestionInv, Lose, serviceVars, cacheVars, storeVars
<1>1. cursor' \in [Sockets -> 0..(2 * NumCandles)] /\ \A x \in Sockets : cursor[x] <= cursor'[x]
  BY StoreAssumption DEF IngestionTypeOK
<1>2. IngestionTypeOK'
  BY <1>1 DEF IngestionTypeOK, StoreTypeOK
<1>3. SlotsInv'
  <2> SUFFICES ASSUME NEW h \in Handlers, handler[h].pc # "none"
               PROVE  h[2] <= cursor'[h[1]]
    BY DEF SlotsInv
  <2>1. h[2] <= cursor[h[1]] /\ cursor[h[1]] <= cursor'[h[1]]
        /\ h[2] \in Int /\ cursor[h[1]] \in Int /\ cursor'[h[1]] \in Int
    BY <1>1, HandlerFacts, StoreAssumption DEF SlotsInv, IngestionTypeOK, Messages
  <2> QED BY <2>1
<1>4. \A t : Told(t) => Told(t)'
  BY ToldStays DEF Tells
<1>5. RowsInv' /\ HandlersInv'
  BY <1>4 DEF RowsInv, HandlersInv, HandlerInv
<1>6. SavesInv' /\ CachedInv'
  BY DEF SavesInv, SaveInv, CachedInv
<1> QED BY <1>2, <1>3, <1>5, <1>6

(* What handlers of one candle do after updateLatestCandleCache.           *)
LEMMA ProceedInv ==
  ASSUME IngestionInv, NEW hs \in SUBSET Handlers, NEW candle \in Candle, NEW isNew \in BOOLEAN,
         \A h \in hs : KlineOf(h) = candle /\ handler[h].pc \in {"none", "find"},
         \A h \in hs : handler[h].pc = "find" => isNew = handler[h].isNew,
         candle.v = Final => isNew \/ Told(candle.t),
         Proceed(hs, candle, isNew), row' = row
  PROVE  /\ handler' \in [Handlers -> [pc: HandlerPc, isNew: BOOLEAN]]
         /\ save' \in [Savers -> Save]
         /\ \A h \in Handlers \ hs : handler'[h] = handler[h]
         /\ SavesInv' /\ RowsInv' /\ HandlersInv'
<1> USE DEF IngestionInv
<1> DEFINE mine == IF candle.v = Final THEN [pc |-> "saving", isNew |-> isNew] ELSE At("none")
<1>1. /\ handler' = [h \in Handlers |-> IF h \notin hs THEN handler[h] ELSE mine]
      /\ save' = [s \in Savers |-> IF s \in hs /\ candle.v = Final THEN SaveOf(candle) ELSE save[s]]
  BY DEF Proceed
<1>2. mine \in [pc: HandlerPc, isNew: BOOLEAN] /\ SaveOf(candle) \in Save
  BY DEF HandlerPc, At, SaveOf, Save, SavePc, Candle
<1>3. /\ handler' \in [Handlers -> [pc: HandlerPc, isNew: BOOLEAN]]
      /\ save' \in [Savers -> Save]
      /\ \A h \in Handlers \ hs : handler'[h] = handler[h]
  <2> HIDE DEF mine
  <2> QED BY <1>1, <1>2 DEF IngestionTypeOK, StoreTypeOK
<1>4. \A t : Told(t) => Told(t)'
  <2>1. ASSUME NEW h \in Handlers, KlineOf(h).v = Final, Tells(h)
        PROVE  Tells(h)'
    <3>1. CASE h \in hs
      <4>1. candle.v = Final /\ handler'[h] = [pc |-> "saving", isNew |-> isNew]
        BY <1>1, <2>1, <3>1
      <4>2. isNew
        BY <2>1, <3>1 DEF Tells
      <4> QED BY <4>1, <4>2 DEF Tells
    <3>2. CASE h \notin hs
      BY <1>3, <2>1, <3>2 DEF Tells
    <3> QED BY <3>1, <3>2
  <2> QED BY <2>1, ToldStays
<1>5. RowsInv'
  BY <1>4 DEF RowsInv
<1>6. SavesInv'
  <2> SUFFICES ASSUME NEW s \in Savers, save'[s].pc # "none"
               PROVE  /\ s \in Handlers /\ handler'[s].pc = "saving"
                      /\ KlineOf(s) = [t |-> save'[s].t, v |-> save'[s].v]
                      /\ save'[s].found \/ save'[s].pc = "returned" => row'[save'[s].t] # Absent
    BY DEF SavesInv, SaveInv
  <2>1. CASE s \in hs /\ candle.v = Final
    <3>1. handler'[s].pc = "saving" /\ save'[s] = SaveOf(candle) /\ KlineOf(s) = candle
      BY <1>1, <2>1
    <3>2. candle = [t |-> candle.t, v |-> candle.v]
      BY DEF Candle
    <3> QED BY <2>1, <3>1, <3>2 DEF SaveOf
  <2>2. CASE ~(s \in hs /\ candle.v = Final)
    <3>1. save'[s] = save[s]
      BY <1>1, <2>2
    <3>2. SaveInv(s)
      BY DEF SavesInv
    <3>3. s \in Handlers /\ handler[s].pc = "saving" /\ s \notin hs
      BY <3>1, <3>2 DEF SaveInv
    <3> QED BY <1>3, <3>1, <3>2, <3>3 DEF SaveInv
  <2> QED BY <2>1, <2>2
<1>7. HandlersInv'
  <2> SUFFICES ASSUME NEW h \in Handlers
               PROVE  HandlerInv(h)'
    BY DEF HandlersInv
  <2>1. CASE h \notin hs
    <3>1. handler'[h] = handler[h] /\ HandlerInv(h)
      BY <1>3, <2>1 DEF HandlersInv
    <3> QED BY <3>1, <1>4 DEF HandlerInv
  <2>2. CASE h \in hs /\ candle.v = Final
    <3>1. handler'[h] = [pc |-> "saving", isNew |-> isNew] /\ KlineOf(h) = candle
      BY <1>1, <2>2
    <3>2. Told(candle.t)'
      <4>1. CASE isNew
        <5>1. IsFinalOf(h, candle.t)
          BY <2>2, <3>1 DEF IsFinalOf, Candle
        <5>2. Tells(h)'
          BY <3>1, <4>1 DEF Tells
        <5> QED BY <5>1, <5>2 DEF Told
      <4>2. CASE Told(candle.t)
        BY <4>2, <1>4
      <4> QED BY <4>1, <4>2, <2>2
    <3> QED BY <2>2, <3>1, <3>2 DEF HandlerInv
  <2>3. CASE h \in hs /\ candle.v # Final
    <3>1. handler'[h].pc = "none" /\ KlineOf(h) = candle
      BY <1>1, <2>3 DEF At
    <3> QED BY <3>1 DEF HandlerInv
  <2> QED BY <2>1, <2>2, <2>3
<1> QED BY <1>3, <1>5, <1>6, <1>7

LEMMA DeliverInv ==
  ASSUME IngestionInv, NEW w \in Sockets, Deliver(w)
  PROVE  IngestionInv'
<1> USE DEF IngestionInv, serviceVars
<1>1. PICK k \in Messages : k = cursor[w] + 1
  BY StoreAssumption DEF Deliver, IngestionTypeOK, Messages
<1> DEFINE candle == Kline(k)
           hs == {<<w, k, l>> : l \in 1..listeners}
<1>2. /\ cursor' = [cursor EXCEPT ![w] = k]
      /\ memory' = Remember(memory, candle)
      /\ UNCHANGED <<row, latest, listeners, monitored, loader, restarts>>
      /\ \/ /\ NeedsRow(candle)
            /\ handler' = [h \in Handlers |->
                 IF h \in hs THEN [pc |-> "find", isNew |-> candle.v = Final /\ IsNewCandle(candle)]
                 ELSE handler[h]]
            /\ UNCHANGED save
         \/ ~NeedsRow(candle) /\ Proceed(hs, candle, IsNewCandle(candle))
  BY <1>1 DEF Deliver
<1>3. /\ hs \in SUBSET Handlers
      /\ \A h \in hs : h[1] = w /\ h[2] = k /\ KlineOf(h) = candle
  <2>1. 1..listeners \subseteq 1..MaxListeners
    BY IngestionAssumption DEF IngestionTypeOK
  <2> QED BY <2>1 DEF Handlers, KlineOf
<1>4. \A h \in hs : handler[h].pc = "none"
  <2> SUFFICES ASSUME NEW h \in hs, handler[h].pc # "none"
               PROVE  FALSE
    OBVIOUS
  <2>1. h[2] <= cursor[h[1]] /\ cursor[w] \in Int
    BY <1>3, StoreAssumption DEF SlotsInv, IngestionTypeOK
  <2> QED BY <1>1, <1>3, <2>1
<1>5. candle \in Candle /\ candle.t \in Times
  BY KlineFacts DEF Candle
<1>6. PICK isNew \in BOOLEAN : isNew = IsNewCandle(candle)
  BY DEF IsNewCandle
<1> HIDE DEF candle, hs
<1>7. cursor' \in [Sockets -> 0..(2 * NumCandles)] /\ \A x \in Sockets : cursor[x] <= cursor'[x]
      /\ cursor'[w] = k
  BY <1>1, <1>2, StoreAssumption DEF IngestionTypeOK, Messages
<1>8. memory' \in Seq(Candle) /\ Len(memory') <= MaxMemory
  <2>1. PICK m \in Seq(Candle) : m = memory /\ Len(m) <= MaxMemory
    BY DEF IngestionTypeOK
  <2> QED BY <2>1, <1>2, <1>5, RememberFacts
<1>9. CachedInv'
  BY <1>2 DEF CachedInv
<1>10. ASSUME \A h \in Handlers \ hs : handler'[h] = handler[h]
       PROVE  SlotsInv'
  <2> SUFFICES ASSUME NEW h \in Handlers, handler'[h].pc # "none"
               PROVE  h[2] <= cursor'[h[1]]
    BY DEF SlotsInv
  <2>1. CASE h \in hs
    BY <2>1, <1>3, <1>7 DEF Messages
  <2>2. CASE h \notin hs
    <3>1. h[2] <= cursor[h[1]] /\ cursor[h[1]] <= cursor'[h[1]]
          /\ h[2] \in Int /\ cursor[h[1]] \in Int /\ cursor'[h[1]] \in Int
      BY <1>7, <1>10, <2>2, HandlerFacts, StoreAssumption DEF SlotsInv, IngestionTypeOK, Messages
    <3> QED BY <3>1
  <2> QED BY <2>1, <2>2
<1>11. ASSUME handler' \in [Handlers -> [pc: HandlerPc, isNew: BOOLEAN]], save' \in [Savers -> Save]
       PROVE  IngestionTypeOK'
  BY <1>2, <1>7, <1>8, <1>11 DEF IngestionTypeOK, StoreTypeOK
<1>12. CASE ~NeedsRow(candle) /\ Proceed(hs, candle, isNew)
  <2>0. latest # candle.t
    <3>1. ~(latest <= candle.t) /\ candle.t \in Int /\ latest \in Int
      BY <1>5, <1>12, StoreAssumption DEF NeedsRow, IngestionTypeOK, Times
    <3> QED BY <3>1
  <2>1. isNew
    BY <1>6, <2>0 DEF IsNewCandle
  <2>2. /\ \A h \in hs : KlineOf(h) = candle /\ handler[h].pc \in {"none", "find"}
        /\ \A h \in hs : handler[h].pc = "find" => isNew = handler[h].isNew
        /\ candle.v = Final => isNew \/ Told(candle.t)
    BY <1>3, <1>4, <2>1
  <2>3. /\ handler' \in [Handlers -> [pc: HandlerPc, isNew: BOOLEAN]]
        /\ save' \in [Savers -> Save]
        /\ \A h \in Handlers \ hs : handler'[h] = handler[h]
        /\ SavesInv' /\ RowsInv' /\ HandlersInv'
    <3>1. PICK c \in Candle, H \in SUBSET Handlers : c = candle /\ H = hs
      BY <1>3, <1>5
    <3> QED BY <3>1, <1>2, <1>12, <2>2, ProceedInv
  <2> QED BY <1>9, <1>10, <1>11, <2>3
<1>13. CASE /\ NeedsRow(candle)
            /\ handler' = [h \in Handlers |->
                 IF h \in hs THEN [pc |-> "find", isNew |-> candle.v = Final /\ isNew]
                 ELSE handler[h]]
            /\ UNCHANGED save
  <2> DEFINE mine == [pc |-> "find", isNew |-> candle.v = Final /\ isNew]
  <2>1. /\ handler' \in [Handlers -> [pc: HandlerPc, isNew: BOOLEAN]]
        /\ \A h \in Handlers \ hs : handler'[h] = handler[h]
        /\ \A h \in hs : handler'[h] = mine /\ h \in Handlers
    <3>1. mine \in [pc: HandlerPc, isNew: BOOLEAN]
      <4>1. (candle.v = Final /\ isNew) \in BOOLEAN
        OBVIOUS
      <4> QED BY <4>1 DEF HandlerPc
    <3> QED BY <1>3, <1>13, <3>1 DEF IngestionTypeOK
  <2>2. \A t : Told(t) => Told(t)'
    <3>1. \A h \in Handlers : Tells(h) => h \notin hs
      BY <1>4 DEF Tells
    <3>2. \A h \in Handlers : Tells(h) => Tells(h)'
      BY <2>1, <3>1 DEF Tells
    <3> QED BY <3>2, ToldStays
  <2>3. RowsInv'
    BY <1>2, <2>2 DEF RowsInv
  <2>4. SavesInv'
    <3> SUFFICES ASSUME NEW s \in Savers PROVE SaveInv(s)'
      BY DEF SavesInv
    <3>1. SaveInv(s) /\ save'[s] = save[s]
      BY <1>13 DEF SavesInv
    <3>2. save[s].pc # "none" => handler'[s] = handler[s]
      BY <1>4, <2>1, <3>1 DEF SaveInv
    <3> QED BY <1>2, <3>1, <3>2 DEF SaveInv
  <2>5. HandlersInv'
    <3> SUFFICES ASSUME NEW h \in Handlers
                 PROVE  HandlerInv(h)'
      BY DEF HandlersInv
    <3>1. CASE h \notin hs
      <4>1. handler'[h] = handler[h] /\ HandlerInv(h)
        BY <2>1, <3>1 DEF HandlersInv
      <4> QED BY <1>2, <4>1, <2>2 DEF HandlerInv
    <3>2. CASE h \in hs
      <4>1. handler'[h] = mine /\ KlineOf(h) = candle
        BY <1>3, <2>1, <3>2
      <4>2. ASSUME candle.v = Final
            PROVE  Told(candle.t)'
        <5>1. CASE isNew
          <6>1. IsFinalOf(h, candle.t)
            BY <1>5, <4>1, <4>2 DEF IsFinalOf, Candle
          <6>2. handler'[h].pc = "find" /\ handler'[h].isNew = (candle.v = Final /\ isNew)
            BY <4>1
          <6>3. handler'[h].isNew
            BY <6>2, <4>2, <5>1
          <6>4. Tells(h)'
            BY <6>2, <6>3 DEF Tells
          <6> QED BY <6>1, <6>4 DEF Told
        <5>2. CASE ~isNew
          <6>1. latest = candle.t
            BY <1>6, <5>2 DEF IsNewCandle
          <6>2. row[candle.t] # Absent
            <7>1. candle.t # 0
              BY <1>5, StoreAssumption DEF Times
            <7> QED BY <6>1, <7>1 DEF CachedInv
          <6> QED BY <1>5, <6>2, <2>2 DEF RowsInv
        <5> QED BY <5>1, <5>2
      <4> QED BY <4>1, <4>2 DEF HandlerInv
    <3> QED BY <3>1, <3>2
  <2>6. save' \in [Savers -> Save]
    BY <1>13 DEF IngestionTypeOK, StoreTypeOK
  <2> QED BY <1>9, <1>10, <1>11, <2>1, <2>3, <2>4, <2>5, <2>6
<1> QED BY <1>2, <1>6, <1>12, <1>13

LEMMA LatestReadInv ==
  ASSUME IngestionInv, NEW h \in Handlers, NEW found \in BOOLEAN,
         found => row[KlineOf(h).t] # Absent, LatestRead(h, found)
  PROVE  IngestionInv'
<1> USE DEF IngestionInv, serviceVars
<1>1. /\ handler[h].pc = "find"
      /\ latest' = IF found THEN KlineOf(h).t ELSE latest
      /\ Proceed({h}, KlineOf(h), handler[h].isNew)
      /\ UNCHANGED <<row, cursor, memory, listeners, monitored, loader, restarts>>
  BY DEF LatestRead
<1>2. PICK candle \in Candle, isNew \in BOOLEAN : candle = KlineOf(h) /\ isNew = handler[h].isNew
  BY HandlerFacts DEF IngestionTypeOK
<1>3. candle.v = Final => isNew \/ Told(candle.t)
  <2>1. HandlerInv(h)
    BY DEF HandlersInv
  <2> QED BY <1>1, <1>2, <2>1 DEF HandlerInv
<1>4. /\ handler' \in [Handlers -> [pc: HandlerPc, isNew: BOOLEAN]]
      /\ save' \in [Savers -> Save]
      /\ \A g \in Handlers \ {h} : handler'[g] = handler[g]
      /\ SavesInv' /\ RowsInv' /\ HandlersInv'
  <2>1. PICK H \in SUBSET Handlers : H = {h}
    OBVIOUS
  <2>2. /\ \A g \in H : KlineOf(g) = candle /\ handler[g].pc \in {"none", "find"}
        /\ \A g \in H : handler[g].pc = "find" => isNew = handler[g].isNew
        /\ Proceed(H, candle, isNew) /\ row' = row
    BY <2>1, <1>1, <1>2
  <2>3. /\ handler' \in [Handlers -> [pc: HandlerPc, isNew: BOOLEAN]]
        /\ save' \in [Savers -> Save]
        /\ \A g \in Handlers \ H : handler'[g] = handler[g]
        /\ SavesInv' /\ RowsInv' /\ HandlersInv'
    BY <1>3, <2>2, ProceedInv
  <2> QED BY <2>1, <2>3
<1>5. SlotsInv'
  BY <1>1, <1>4 DEF SlotsInv
<1>6. latest' \in 0..NumCandles /\ (latest' # 0 => row'[latest'] # Absent)
  <2>1. CASE found
    BY <1>1, <2>1, HandlerFacts
  <2>2. CASE ~found
    BY <1>1, <2>2 DEF CachedInv, IngestionTypeOK
  <2> QED BY <2>1, <2>2
<1>7. CachedInv'
  BY <1>1, <1>6 DEF CachedInv
<1>8. IngestionTypeOK'
  BY <1>1, <1>4, <1>6 DEF IngestionTypeOK, StoreTypeOK
<1> QED BY <1>4, <1>5, <1>7, <1>8

LEMMA StoreInv ==
  ASSUME IngestionInv, NEW h \in Handlers, Store(h)
  PROVE  IngestionInv'
<1> USE DEF IngestionInv, serviceVars, cacheVars
<1>1. /\ SaveStep(h)
      /\ UNCHANGED <<cursor, memory, latest, listeners, monitored, loader, handler, restarts>>
      /\ h \in Savers
  BY HandlerFacts DEF Store
<1>2. StoreTypeOK /\ StoreTypeOK' /\ StepOfSave(h)
  BY <1>1, SaveStepEffect DEF IngestionTypeOK
<1>3. IngestionTypeOK'
  BY <1>1, <1>2 DEF IngestionTypeOK
<1>4. \A t : Told(t) => Told(t)'
  <2>1. \A g \in Handlers : Tells(g) => Tells(g)'
    BY <1>1 DEF Tells
  <2> QED BY <2>1, ToldStays
<1>5. \A t \in Times : row[t] # Absent => row'[t] # Absent
  BY <1>1, <1>2, RowsRemain
<1>6. /\ SaveInv(h) /\ handler[h].pc = "saving"
      /\ KlineOf(h) = [t |-> save[h].t, v |-> save[h].v]
  BY <1>1, <1>2 DEF SavesInv, SaveInv, StepOfSave
<1>7. save[h].v = Final /\ Told(save[h].t)
  <2>1. HandlerInv(h)
    BY DEF HandlersInv
  <2> QED BY <1>6, <2>1 DEF HandlerInv
<1>8. RowsInv'
  <2> SUFFICES ASSUME NEW t \in Times, row'[t] # Absent
               PROVE  row'[t] = Final /\ Told(t)'
    BY DEF RowsInv
  <2>1. CASE row'[t] = row[t]
    BY <2>1, <1>4 DEF RowsInv
  <2>2. CASE t = save[h].t /\ row'[t] = save[h].v
    BY <2>2, <1>4, <1>7
  <2> QED BY <1>2, <2>1, <2>2 DEF StepOfSave
<1>9. SavesInv'
  <2> SUFFICES ASSUME NEW s \in Savers PROVE SaveInv(s)'
    BY DEF SavesInv
  <2>1. CASE s = h
    BY <2>1, <1>1, <1>2, <1>6 DEF SaveInv, StepOfSave
  <2>2. CASE s # h
    <3>1. SaveInv(s) /\ save'[s] = save[s] /\ save[s].t \in Times
      BY <1>1, <1>2, <2>2 DEF SavesInv, StepOfSave, StoreTypeOK, Save
    <3> QED BY <3>1, <1>1, <1>5 DEF SaveInv
  <2> QED BY <2>1, <2>2
<1>10. HandlersInv'
  <2> SUFFICES ASSUME NEW g \in Handlers PROVE HandlerInv(g)'
    BY DEF HandlersInv
  <2>1. HandlerInv(g) /\ KlineOf(g).t \in Times
    BY HandlerFacts DEF HandlersInv
  <2> QED BY <2>1, <1>1, <1>4, <1>5 DEF HandlerInv
<1>11. CachedInv'
  <2>1. latest # 0 => latest \in Times
    BY StoreAssumption DEF IngestionTypeOK, Times
  <2> QED BY <2>1, <1>1, <1>5 DEF CachedInv
<1>12. SlotsInv'
  BY <1>1 DEF SlotsInv
<1> QED BY <1>3, <1>8, <1>9, <1>10, <1>11, <1>12

LEMMA AnnounceInv ==
  ASSUME IngestionInv, NEW h \in Handlers, Announce(h)
  PROVE  IngestionInv'
<1> USE DEF IngestionInv, serviceVars, cacheVars
<1>1. /\ handler[h].pc = "saving"
      /\ save' = [save EXCEPT ![h] = NoSave]
      /\ UNCHANGED <<row, cursor, memory, latest, listeners, monitored, loader, restarts>>
      /\ h \in Savers
  BY HandlerFacts DEF Announce
<1>2. PICK pc \in {"announced", "quiet", "failed"} :
        /\ handler' = [handler EXCEPT ![h] = At(pc)]
        /\ pc = "announced" => save[h].pc = "returned"
        /\ pc = "quiet" => ~handler[h].isNew
  BY DEF Announce
<1>3. handler' \in [Handlers -> [pc: HandlerPc, isNew: BOOLEAN]]
      /\ handler'[h].pc = pc
      /\ \A g \in Handlers \ {h} : handler'[g] = handler[g]
  BY <1>2 DEF IngestionTypeOK, At, HandlerPc
<1>4. save' \in [Savers -> Save] /\ save'[h].pc = "none"
      /\ \A s \in Savers \ {h} : save'[s] = save[s]
  <2>1. NoSave \in Save /\ NoSave.pc = "none"
    BY StoreAssumption DEF NoSave, Save, SavePc, Times
  <2> QED BY <1>1, <2>1 DEF IngestionTypeOK, StoreTypeOK
<1>5. IngestionTypeOK'
  BY <1>1, <1>3, <1>4 DEF IngestionTypeOK, StoreTypeOK
<1>6. \A t : Told(t) => Told(t)'
  <2>1. Tells(h) => Tells(h)'
    BY <1>1, <1>2, <1>3 DEF Tells
  <2>2. \A g \in Handlers : Tells(g) => Tells(g)'
    BY <1>3, <2>1 DEF Tells
  <2> QED BY <2>2, ToldStays
<1>7. HandlerInv(h)'
  <2>1. HandlerInv(h) /\ SaveInv(h)
    BY <1>1 DEF HandlersInv, SavesInv
  <2>2. KlineOf(h).v = Final /\ Told(KlineOf(h).t)
    BY <2>1, <1>1 DEF HandlerInv
  <2>3. pc = "announced" => row[KlineOf(h).t] # Absent
    BY <2>1, <1>2 DEF SaveInv
  <2> QED BY <1>1, <1>3, <1>6, <2>2, <2>3 DEF HandlerInv
<1>8. HandlersInv'
  <2> SUFFICES ASSUME NEW g \in Handlers PROVE HandlerInv(g)'
    BY DEF HandlersInv
  <2>1. CASE g # h
    <3>1. HandlerInv(g) /\ handler'[g] = handler[g]
      BY <1>3, <2>1 DEF HandlersInv
    <3> QED BY <3>1, <1>1, <1>6 DEF HandlerInv
  <2> QED BY <1>7, <2>1
<1>9. SavesInv'
  <2> SUFFICES ASSUME NEW s \in Savers, s # h PROVE SaveInv(s)'
    BY <1>4 DEF SavesInv, SaveInv
  <2> QED BY <1>1, <1>3, <1>4 DEF SavesInv, SaveInv
<1>10. RowsInv' /\ CachedInv'
  BY <1>1, <1>6 DEF RowsInv, CachedInv
<1>11. SlotsInv'
  BY <1>1, <1>3 DEF SlotsInv
<1> QED BY <1>5, <1>8, <1>9, <1>10, <1>11

(* What a step that only moves the caches leaves true.                     *)
LEMMA CacheStep ==
  ASSUME IngestionInv, UNCHANGED <<row, save, cursor, handler>>
  PROVE  SlotsInv' /\ SavesInv' /\ RowsInv' /\ HandlersInv'
<1>1. \A t : Told(t) => Told(t)'
  BY ToldStays DEF Tells
<1> QED BY <1>1 DEF IngestionInv, SlotsInv, SavesInv, SaveInv, RowsInv, HandlersInv, HandlerInv

LEMMA SubscriptionInv ==
  ASSUME IngestionInv,
         UnsubscribeSymbol \/ SubscribeSymbol \/ LoadRows \/ LoadLatest \/ LoadFails
  PROVE  IngestionInv'
<1> USE DEF IngestionInv, storeVars, cacheVars
<1>0. UNCHANGED <<row, save, cursor, handler>>
  BY DEF UnsubscribeSymbol, SubscribeSymbol, LoadRows, LoadLatest, LoadFails
<1>1. SlotsInv' /\ SavesInv' /\ RowsInv' /\ HandlersInv'
  BY <1>0, CacheStep
<1>2. Idle \in [pc: LoaderPc, t: 0..NumCandles] /\ Idle.pc = "idle"
      /\ \A t \in 0..NumCandles : /\ [pc |-> "rows", t |-> t] \in [pc: LoaderPc, t: 0..NumCandles]
                                  /\ [pc |-> "latest", t |-> t] \in [pc: LoaderPc, t: 0..NumCandles]
  BY StoreAssumption DEF Idle, LoaderPc
<1>3. 0 \in 0..NumCandles
  BY StoreAssumption
<1>4. CASE UnsubscribeSymbol
  <2>1. memory' \in Seq(Candle) /\ Len(memory') <= MaxMemory
    BY <1>4, EmptySeq, IngestionAssumption DEF UnsubscribeSymbol
  <2>2. IngestionTypeOK'
    BY <1>0, <1>3, <1>4, <2>1 DEF UnsubscribeSymbol, IngestionTypeOK, StoreTypeOK
  <2>3. CachedInv'
    BY <1>4 DEF UnsubscribeSymbol, CachedInv
  <2> QED BY <1>1, <2>2, <2>3
<1>5. CASE SubscribeSymbol
  <2>1. listeners' \in 1..MaxListeners
    BY <1>5, IngestionAssumption DEF SubscribeSymbol, IngestionTypeOK
  <2>2. loader' = [pc |-> "rows", t |-> 0]
    BY <1>5 DEF SubscribeSymbol
  <2>3. IngestionTypeOK'
    BY <1>0, <1>2, <1>3, <1>5, <2>1, <2>2 DEF SubscribeSymbol, IngestionTypeOK, StoreTypeOK
  <2>4. CachedInv'
    BY <1>5, <2>2 DEF SubscribeSymbol, CachedInv
  <2> QED BY <1>1, <2>3, <2>4
<1>6. CASE LoadRows
  <2>1. PICK rows \in LatestRows(MaxMemory) :
          /\ latest' = latest
          /\ \/ rows = <<>> /\ loader' = Idle /\ memory' = memory
             \/ /\ rows # <<>> /\ memory' = rows
                /\ loader' = [pc |-> "latest", t |-> LastOf(rows).t]
    BY <1>6 DEF LoadRows
  <2>2. /\ rows \in Seq(Candle) /\ Len(rows) <= MaxMemory
        /\ \A i \in DOMAIN rows : row[rows[i].t] # Absent
    BY <2>1, LatestRowsFacts
  <2>3. rows # <<>> => LastOf(rows).t \in Times /\ LastOf(rows).t \in 0..NumCandles
                       /\ row[LastOf(rows).t] # Absent
    <3>1. rows # <<>> => Len(rows) \in 1..Len(rows) /\ DOMAIN rows = 1..Len(rows)
                         /\ rows[Len(rows)].t \in Times
      BY <2>2, CandlesOfSeq
    <3>2. Times \subseteq 0..NumCandles
      BY StoreAssumption DEF Times
    <3> QED BY <2>2, <3>1, <3>2 DEF LastOf
  <2>4. memory' \in Seq(Candle) /\ Len(memory') <= MaxMemory
    BY <2>1, <2>2 DEF IngestionTypeOK
  <2>5. loader' \in [pc: LoaderPc, t: 0..NumCandles]
    BY <1>2, <2>1, <2>3
  <2>6. IngestionTypeOK'
    BY <1>0, <1>6, <2>1, <2>4, <2>5 DEF LoadRows, IngestionTypeOK, StoreTypeOK
  <2>7. CachedInv'
    BY <1>0, <1>2, <2>1, <2>3 DEF CachedInv
  <2> QED BY <1>1, <2>6, <2>7
<1>7. CASE LoadLatest
  <2>1. loader.pc = "latest" /\ latest' = loader.t /\ loader' = Idle
    BY <1>7 DEF LoadLatest
  <2>2. latest' \in 0..NumCandles
    BY <2>1 DEF IngestionTypeOK
  <2>3. IngestionTypeOK'
    BY <1>0, <1>2, <1>7, <2>1, <2>2 DEF LoadLatest, IngestionTypeOK, StoreTypeOK
  <2>4. CachedInv'
    BY <1>0, <1>2, <2>1 DEF CachedInv
  <2> QED BY <1>1, <2>3, <2>4
<1>8. CASE LoadFails
  <2>1. IngestionTypeOK'
    BY <1>0, <1>2, <1>8 DEF LoadFails, IngestionTypeOK, StoreTypeOK
  <2>2. CachedInv'
    BY <1>0, <1>2, <1>8 DEF LoadFails, CachedInv
  <2> QED BY <1>1, <2>1, <2>2
<1> QED BY <1>4, <1>5, <1>6, <1>7, <1>8

LEMMA RestartInv ==
  ASSUME IngestionInv, Restart
  PROVE  IngestionInv'
<1> USE DEF IngestionInv
<1>1. /\ handler' = [h \in Handlers |->
                       IF handler[h].pc \notin {"find", "saving"} THEN handler[h]
                       ELSE IF KlineOf(h).v = Final THEN At("killed") ELSE At("none")]
      /\ save' = [s \in Savers |-> NoSave]
      /\ restarts' = restarts + 1 /\ row' = row /\ cursor' = cursor
      /\ latest' = 0 /\ listeners' = 1 /\ monitored' = TRUE /\ loader' = Idle
  BY DEF Restart, NoSavesLeft
<1>2. handler' \in [Handlers -> [pc: HandlerPc, isNew: BOOLEAN]]
  <2>1. At("killed") \in [pc: HandlerPc, isNew: BOOLEAN] /\ At("none") \in [pc: HandlerPc, isNew: BOOLEAN]
    BY DEF At, HandlerPc
  <2> QED BY <1>1, <2>1 DEF IngestionTypeOK
<1>3. memory' \in Seq(Candle) /\ Len(memory') <= MaxMemory
  <2>1. PICK rows : rows = memory' /\ (rows \in LatestRows(MaxMemory) \/ rows = <<>>)
    BY DEF Restart
  <2>2. CASE rows \in LatestRows(MaxMemory)
    BY <2>1, <2>2, LatestRowsFacts
  <2>3. CASE rows = <<>>
    <3>1. rows \in Seq(Candle) /\ Len(rows) = 0
      BY <2>3, EmptySeq
    <3> QED BY <2>1, <3>1, IngestionAssumption
  <2> QED BY <2>1, <2>2, <2>3
<1>4. save' \in [Savers -> Save] /\ \A s \in Savers : save'[s].pc = "none"
  BY <1>1, StoreAssumption DEF NoSave, Save, SavePc, Times
<1>5. IngestionTypeOK'
  <2>1. latest' \in 0..NumCandles /\ listeners' \in 1..MaxListeners
        /\ loader' \in [pc: LoaderPc, t: 0..NumCandles]
    BY <1>1, StoreAssumption, IngestionAssumption DEF Idle, LoaderPc
  <2> QED BY <1>1, <1>2, <1>3, <1>4, <2>1 DEF IngestionTypeOK, StoreTypeOK
<1>6. \A t : Told(t) => Told(t)'
  <2>1. ASSUME NEW h \in Handlers, KlineOf(h).v = Final, Tells(h)
        PROVE  Tells(h)'
    BY <1>1, <2>1 DEF Tells, At
  <2> QED BY <2>1, ToldStays
<1>7. HandlersInv'
  <2> SUFFICES ASSUME NEW h \in Handlers PROVE HandlerInv(h)'
    BY DEF HandlersInv
  <2>1. HandlerInv(h)
    BY DEF HandlersInv
  <2>2. \/ handler'[h] = handler[h]
        \/ handler[h].pc # "none" /\ KlineOf(h).v = Final /\ handler'[h].pc = "killed"
        \/ handler'[h].pc = "none"
    BY <1>1 DEF At
  <2> QED BY <1>1, <1>6, <2>1, <2>2 DEF HandlerInv
<1>8. SlotsInv'
  <2> SUFFICES ASSUME NEW h \in Handlers, handler'[h].pc # "none"
               PROVE  handler[h].pc # "none"
    BY <1>1 DEF SlotsInv
  <2> QED BY <1>1 DEF At
<1>9. RowsInv' /\ SavesInv' /\ CachedInv'
  BY <1>1, <1>4, <1>6 DEF RowsInv, SavesInv, SaveInv, CachedInv, Idle
<1> QED BY <1>5, <1>7, <1>8, <1>9

LEMMA NextIngestionInv == IngestionInv /\ [Next]_ingestionVars => IngestionInv'
<1> SUFFICES ASSUME IngestionInv, [Next]_ingestionVars PROVE IngestionInv'
  OBVIOUS
<1>1. ASSUME NEW w \in Sockets, Deliver(w) \/ Lose(w) PROVE IngestionInv'
  BY <1>1, DeliverInv, LoseInv
<1>2. ASSUME NEW h \in Handlers, Answer(h) PROVE IngestionInv'
  <2>1. CASE ReadLatest(h)
    <3>1. PICK found \in BOOLEAN : found = (row[KlineOf(h).t] # Absent)
      OBVIOUS
    <3> QED BY <2>1, <3>1, LatestReadInv DEF ReadLatest
  <2>2. CASE ReadLatestFails(h)
    BY <2>2, LatestReadInv DEF ReadLatestFails
  <2> QED BY <1>2, <2>1, <2>2, StoreInv, AnnounceInv DEF Answer
<1>3. CASE UnsubscribeSymbol \/ SubscribeSymbol \/ LoadRows \/ LoadLatest \/ LoadFails
  BY <1>3, SubscriptionInv
<1>4. CASE Restart
  BY <1>4, RestartInv
<1>5. CASE UNCHANGED ingestionVars
  <2>1. UNCHANGED <<row, save, cursor, handler, memory, latest, listeners, monitored, loader, restarts>>
    BY <1>5 DEF ingestionVars, storeVars, cacheVars, serviceVars
  <2>2. SlotsInv' /\ SavesInv' /\ RowsInv' /\ HandlersInv'
    BY <2>1, CacheStep
  <2>3. IngestionTypeOK' /\ CachedInv'
    BY <2>1 DEF IngestionInv, IngestionTypeOK, StoreTypeOK, CachedInv
  <2> QED BY <2>2, <2>3 DEF IngestionInv
<1> QED BY <1>1, <1>2, <1>3, <1>4, <1>5 DEF Next

LEMMA IngestionKeepsInv == Spec => []IngestionInv
BY IngestionStarts, NextIngestionInv, PTL DEF Spec

-----------------------------------------------------------------------------
(* The caches, the table and the handlers keep their types.                *)
THEOREM IngestionIsTyped == Spec => []IngestionTypeOK
<1>1. IngestionInv => IngestionTypeOK
  BY DEF IngestionInv
<1> QED BY <1>1, IngestionKeepsInv, PTL

(* candle.saved is emitted only of candles that are stored, as the final   *)
(* ones, for any number of connections and listeners whose saves overlap,  *)
(* lose the race to insert, or throw after taking effect.                  *)
THEOREM AnnouncedIsAlwaysStored == Spec => []AnnouncedIsStored
<1>1. IngestionInv => AnnouncedIsStored
  <2> SUFFICES ASSUME IngestionInv, NEW t \in Times, NEW h \in Ended(t, {"announced"})
               PROVE  row[t] = Final
    BY DEF AnnouncedIsStored
  <2>1. h \in Handlers /\ KlineOf(h).t = t /\ handler[h].pc = "announced"
    BY DEF Ended
  <2>2. row[t] # Absent
    BY <2>1 DEF IngestionInv, HandlersInv, HandlerInv
  <2> QED BY <2>2 DEF IngestionInv, RowsInv
<1> QED BY <1>1, IngestionKeepsInv, PTL

(* No completed candle is swallowed by the check for duplicates: when a    *)
(* handler stays quiet, another of the same candle told or will tell.      *)
THEOREM EveryFinalIsAlwaysTold == Spec => []EveryFinalIsTold
<1>1. IngestionInv => EveryFinalIsTold
  <2> SUFFICES ASSUME IngestionInv, NEW t \in Times, NEW h \in Ended(t, {"quiet"})
               PROVE  Ended(t, {"find", "saving", "announced", "failed", "killed"}) # {}
    BY DEF EveryFinalIsTold
  <2>1. h \in Handlers /\ KlineOf(h) = [t |-> t, v |-> Final] /\ handler[h].pc = "quiet"
    BY DEF Ended
  <2>2. Told(t)
    BY <2>1 DEF IngestionInv, HandlersInv, HandlerInv
  <2>3. PICK g \in Handlers : IsFinalOf(g, t) /\ Tells(g)
    BY <2>2 DEF Told
  <2> QED BY <2>3 DEF IsFinalOf, Tells, Ended
<1> QED BY <1>1, IngestionKeepsInv, PTL

-----------------------------------------------------------------------------
(* The table is not ahead of the stream.                                   *)
LEMMA RowsAreReached ==
  ASSUME IngestionInv, NEW t \in Times, row[t] # Absent
  PROVE  Reached(t)
<1>1. PICK h \in Handlers : IsFinalOf(h, t) /\ Tells(h)
  BY DEF IngestionInv, RowsInv, Told
<1>2. h[1] \in Sockets /\ h[2] \in Messages /\ Kline(h[2]).t = t
  BY <1>1, HandlerFacts DEF IsFinalOf
<1>3. h[2] <= cursor[h[1]] /\ cursor[h[1]] \in Int
  BY <1>1, <1>2, StoreAssumption DEF IngestionInv, SlotsInv, Tells, IngestionTypeOK
<1>4. 2 * t - 1 <= h[2] /\ h[2] \in Int /\ t \in Int
  BY <1>2, KlineFacts, StoreAssumption DEF Messages, Times
<1> QED BY <1>2, <1>3, <1>4 DEF Reached

(* What a load or a restart puts into the memory.                          *)
LEMMA LoadedFacts ==
  ASSUME IngestionInv, NEW rows, rows \in LatestRows(MaxMemory) \cup {<<>>}
  PROVE  Ascending(rows) /\ \A i \in DOMAIN rows : rows[i].t \in Int /\ Reached(rows[i].t)
<1>1. CASE rows = <<>>
  <2>1. DOMAIN rows = {}
    BY <1>1
  <2> QED BY <2>1 DEF Ascending
<1>2. CASE rows \in LatestRows(MaxMemory)
  <2>1. /\ rows \in Seq(Candle) /\ Ascending(rows)
        /\ \A i \in DOMAIN rows : row[rows[i].t] # Absent
    BY <1>2, LatestRowsFacts
  <2>2. \A i \in DOMAIN rows : rows[i].t \in Times /\ rows[i].t \in Int
    BY <2>1, CandlesOfSeq
  <2> QED BY <2>1, <2>2, RowsAreReached
<1> QED BY <1>1, <1>2

(* The memory changes by a message or is replaced by a load.               *)
LEMMA MemoryChanges ==
  ASSUME [Next]_ingestionVars
  PROVE  \/ UNCHANGED <<memory, cursor>>
         \/ cursor' = cursor /\ memory' \in LatestRows(MaxMemory) \cup {<<>>}
         \/ \E w \in Sockets : Deliver(w)
         \/ memory' = memory /\ \E w \in Sockets : Lose(w)
<1>1. ASSUME NEW h \in Handlers, Answer(h) PROVE UNCHANGED <<memory, cursor>>
  BY <1>1 DEF Answer, ReadLatest, ReadLatestFails, LatestRead, Store, Announce, cacheVars
<1>2. CASE UnsubscribeSymbol \/ SubscribeSymbol \/ LoadRows \/ LoadLatest \/ LoadFails
  BY <1>2 DEF UnsubscribeSymbol, SubscribeSymbol, LoadRows, LoadLatest, LoadFails, cacheVars
<1>3. CASE Restart
  BY <1>3 DEF Restart
<1>4. CASE UNCHANGED ingestionVars
  BY <1>4 DEF ingestionVars, cacheVars
<1>5. ASSUME NEW w \in Sockets, Lose(w) PROVE memory' = memory
  BY <1>5 DEF Lose, cacheVars
<1> QED BY <1>1, <1>2, <1>3, <1>4, <1>5 DEF Next

(* A message delivered, and what updateMemoryCache makes of it.            *)
LEMMA DeliveredFacts ==
  ASSUME IngestionInv, NEW w \in Sockets, Deliver(w)
  PROVE  \E k \in Messages, m \in Seq(Candle) :
           /\ cursor[w] = k - 1 /\ cursor'[w] = k
           /\ memory = m /\ Len(m) <= MaxMemory
           /\ Kline(k) \in Candle /\ memory' = Remember(m, Kline(k))
           /\ \A x \in Sockets : cursor[x] \in Int /\ cursor'[x] \in Int /\ cursor[x] <= cursor'[x]
<1>1. cursor \in [Sockets -> 0..(2 * NumCandles)] /\ NumCandles \in Nat
  BY StoreAssumption DEF IngestionInv, IngestionTypeOK
<1>2. PICK k \in Messages : k = cursor[w] + 1
  BY <1>1 DEF Deliver, Messages
<1>3. PICK m \in Seq(Candle) : m = memory /\ Len(m) <= MaxMemory
  BY DEF IngestionInv, IngestionTypeOK
<1>4. cursor' = [cursor EXCEPT ![w] = k] /\ memory' = Remember(m, Kline(k))
  BY <1>2, <1>3 DEF Deliver
<1>5. k \in Int /\ cursor[w] = k - 1
  BY <1>1, <1>2 DEF Messages
<1>6. \A x \in Sockets : cursor[x] \in Int /\ cursor'[x] \in Int /\ cursor[x] <= cursor'[x]
  BY <1>1, <1>4, <1>5
<1> QED BY <1>1, <1>3, <1>4, <1>5, <1>6, KlineFacts

LEMMA NextMemoryInv ==
  ASSUME IngestionInv, MemoryInv, [Next]_ingestionVars
  PROVE  MemoryInv'
<1>0. \A i \in DOMAIN memory : memory[i].t \in Int
  <2>1. PICK m \in Seq(Candle) : m = memory
    BY DEF IngestionInv, IngestionTypeOK
  <2> QED BY <2>1, CandlesOfSeq
<1>1. CASE UNCHANGED <<memory, cursor>>
  BY <1>1 DEF MemoryInv, Reached
<1>2. CASE cursor' = cursor /\ memory' \in LatestRows(MaxMemory) \cup {<<>>}
  BY <1>2, LoadedFacts DEF MemoryInv, Reached
<1>3. ASSUME NEW w \in Sockets, Deliver(w) PROVE MemoryInv'
  <2>1. PICK k \in Messages, m \in Seq(Candle) :
          /\ cursor'[w] = k /\ memory = m /\ Len(m) <= MaxMemory
          /\ Kline(k) \in Candle /\ memory' = Remember(m, Kline(k))
          /\ \A x \in Sockets : cursor[x] \in Int /\ cursor'[x] \in Int /\ cursor[x] <= cursor'[x]
    BY <1>3, DeliveredFacts
  <2> DEFINE S == {t \in Int : \E x \in Sockets : 2 * t - 1 <= cursor'[x]}
  <2>2. Kline(k).t \in S
    <3>1. Kline(k).t \in Int
      BY <2>1, StoreAssumption DEF Candle, Times
    <3>2. 2 * Kline(k).t - 1 <= cursor'[w]
      BY <2>1, KlineFacts
    <3> QED BY <3>1, <3>2
  <2>3. TimesIn(S, m)
    <3> SUFFICES ASSUME NEW i \in DOMAIN m PROVE m[i].t \in S
      BY DEF TimesIn
    <3>1. m[i].t \in Int /\ \E x \in Sockets : 2 * m[i].t - 1 <= cursor[x]
      BY <1>0, <2>1 DEF MemoryInv, Reached
    <3>2. PICK x \in Sockets : 2 * m[i].t - 1 <= cursor[x]
      BY <3>1
    <3>3. 2 * m[i].t - 1 <= cursor'[x]
      BY <2>1, <3>1, <3>2
    <3> QED BY <3>1, <3>3
  <2> HIDE DEF S
  <2>4. TimesIn(S, memory')
    BY <2>1, <2>2, <2>3, RememberFacts
  <2> QED BY <2>4 DEF TimesIn, MemoryInv, Reached, S
<1>4. ASSUME NEW w \in Sockets, Lose(w), memory' = memory PROVE MemoryInv'
  <2>1. /\ cursor \in [Sockets -> 0..(2 * NumCandles)]
        /\ cursor' = [cursor EXCEPT ![w] = cursor[w] + 1]
    BY <1>4 DEF Lose, IngestionInv, IngestionTypeOK
  <2>2. \A x \in Sockets : cursor[x] \in Int /\ cursor'[x] \in Int /\ cursor[x] <= cursor'[x]
    BY <2>1, StoreAssumption
  <2>3. ASSUME NEW i \in DOMAIN memory
        PROVE  \E x \in Sockets : 2 * memory[i].t - 1 <= cursor'[x]
    <3>1. PICK x \in Sockets : 2 * memory[i].t - 1 <= cursor[x]
      BY DEF MemoryInv, Reached
    <3>2. 2 * memory[i].t - 1 <= cursor'[x]
      BY <1>0, <2>2, <3>1
    <3> QED BY <3>2
  <2> QED BY <1>4, <2>3 DEF MemoryInv, Reached
<1> QED BY <1>1, <1>2, <1>3, <1>4, MemoryChanges

(* updateMemoryCache appends a candle older than the last of memory when   *)
(* another connection overtook this one, and in no other case; whatever    *)
(* loads and restarts replace the array under running handlers, for any    *)
(* number of connections, listeners, candles and handlers.                 *)
THEOREM OnlyOvertakingUnsortsMemory == Spec => OnlyOvertakingUnsorts
<1>1. Init => MemoryInv
  BY DEF Init, MemoryInv
<1>2. IngestionInv /\ MemoryInv /\ [Next]_ingestionVars => MemoryInv'
  BY NextMemoryInv
<1>3. ASSUME IngestionInv, MemoryInv, [Next]_ingestionVars, Ascending(memory), ~Ascending(memory')
      PROVE  OvertakenArrives
  <2>1. PICK w \in Sockets : Deliver(w)
    <3>1. ~ UNCHANGED <<memory, cursor>>
      BY <1>3
    <3>2. memory' \notin LatestRows(MaxMemory) \cup {<<>>}
      BY <1>3, LoadedFacts
    <3> QED BY <1>3, <3>1, <3>2, MemoryChanges
  <2>2. PICK k \in Messages, m \in Seq(Candle) :
          /\ cursor[w] = k - 1 /\ cursor'[w] = k
          /\ memory = m /\ Len(m) <= MaxMemory
          /\ Kline(k) \in Candle /\ memory' = Remember(m, Kline(k))
          /\ \A x \in Sockets : cursor[x] \in Int /\ cursor'[x] \in Int /\ cursor[x] <= cursor'[x]
    BY <1>3, <2>1, DeliveredFacts
  <2>3. ~UpTo(Kline(k).t, m)
    BY <1>3, <2>2, RememberFacts
  <2>4. PICK i \in DOMAIN m : ~(m[i].t <= Kline(k).t)
    BY <2>3 DEF UpTo
  <2>5. PICK x \in Sockets : 2 * m[i].t - 1 <= cursor[x]
    BY <1>3, <2>2, <2>4 DEF MemoryInv, Reached
  <2>6. m[i].t \in Times /\ m[i].t \in Int /\ Kline(k).t \in Int /\ k \in Int
    <3>1. m[i].t \in Times /\ m[i].t \in Int
      BY <2>4, CandlesOfSeq
    <3>2. Kline(k).t \in Int
      BY <2>2, StoreAssumption DEF Candle, Times
    <3>3. k \in Int
      BY StoreAssumption DEF Messages
    <3> QED BY <3>1, <3>2, <3>3
  <2>7. cursor[x] \in Messages
    BY <1>3, <2>5, <2>6, StoreAssumption DEF Messages, Times, IngestionInv, IngestionTypeOK
  <2>8. m[i].t <= Kline(cursor[x]).t /\ Kline(cursor[x]).t \in Int
    <3>1. \A t \in Times : 2 * t - 1 <= cursor[x] => t <= Kline(cursor[x]).t
      BY <2>7, KlineFacts
    <3>2. Kline(cursor[x]) \in Candle
      BY <2>7, KlineFacts
    <3>3. Kline(cursor[x]).t \in Int
      BY <3>2, StoreAssumption DEF Candle, Times
    <3> QED BY <2>5, <2>6, <3>1, <3>3
  <2>9. Kline(k).t < Kline(cursor[x]).t
    BY <2>4, <2>6, <2>8
  <2>10. cursor'[w] # cursor[w]
    BY <2>2, <2>6
  <2> QED BY <2>2, <2>9, <2>10 DEF OvertakenArrives
<1> QED BY <1>1, <1>2, <1>3, IngestionKeepsInv, PTL DEF Spec, OnlyOvertakingUnsorts

-----------------------------------------------------------------------------
(* The inductive invariant.                                                *)
Job ==
  [pc: JobPc, first: Int, from: Int, to: 0..NumCandles, cur: Int, tries: 0..(MaxRetries - 1),
   last: 0..NumCandles, pending: Seq(Candle), batch: Seq(Candle),
   fetched: SUBSET Times, unsaved: SUBSET Times, skipped: BOOLEAN]

(* What a call handed on comes from what it fetched.                       *)
Owned(j) ==
  /\ j.unsaved \subseteq j.fetched
  /\ Ranged(j.pending) \cup Ranged(j.batch) \subseteq j.fetched

(* What it fetched is still with it, in the table, or failed.              *)
Kept(j, stored) ==
  j.fetched \subseteq Ranged(j.pending) \cup Ranged(j.batch) \cup stored \cup j.unsaved

(* A call that gave no page up has everything before currentTime.          *)
Paged(j, clock) ==
  /\ j.to <= clock
  /\ j.skipped \/ j.fetched = {}
       \/ /\ j.cur <= j.to + 1
          /\ j.fetched = {t \in Times : Listed <= t /\ j.from <= t /\ t < j.cur}

(* Where a call stands in its loop: currentTime moves with what it got.    *)
Begun(j) == j.skipped \/ j.fetched # {} \/ j.cur = j.from
Placed(j) ==
  /\ j.pc \in {"check", "saving"} <=> j.batch # <<>>
  /\ j.pc \in {"none", "last", "earliest", "killed"} => j.fetched = {}
  /\ j.pc \in {"fetch", "retry"} => j.cur <= j.to /\ Begun(j)
  /\ j.pc = "done" => j.cur > j.to

JobInv(j, stored, clock) ==
  j \in Job /\ Owned(j) /\ Kept(j, stored) /\ Paged(j, clock) /\ Placed(j)

(* The save of a call is that of the first candle of its batch.            *)
SavingInv(c) ==
  job[c].pc = "saving" =>
    /\ save[c].t = Head(job[c].batch).t
    /\ save[c].pc = "returned" => row[save[c].t] # Absent

HistoryInv ==
  /\ StoreTypeOK
  /\ now \in Times
  /\ job \in [Collectors -> Job]
  /\ \A c \in Collectors : JobInv(job[c], StoredTimes, now) /\ SavingInv(c)

-----------------------------------------------------------------------------
(* The constants and the pages.                                            *)

LEMMA HistoryFacts ==
  /\ NumCandles \in Nat /\ MaxRetries \in Nat \ {0} /\ PageSize \in Nat \ {0}
  /\ BatchSize \in Nat \ {0} /\ Window \in Nat \ {0}
  /\ Listed \in Times /\ FirstNow \in Times /\ Collectors \subseteq Savers
  /\ \A t \in Times : t \in Int /\ 1 <= t /\ t <= NumCandles /\ t \in 0..NumCandles
<1>1. /\ NumCandles \in Nat /\ \A t \in Times : t \in Int /\ 1 <= t /\ t <= NumCandles /\ t \in 0..NumCandles
  BY StoreAssumption DEF Times
<1>2. \A x \in {Window, PageSize, BatchSize, MaxRetries} : x \in Nat \ {0}
  BY HistoryAssumption
<1> QED BY <1>1, <1>2, HistoryAssumption

LEMMA InRanged ==
  ASSUME NEW s, NEW t
  PROVE  t \in Ranged(s) <=> \E i \in DOMAIN s : s[i].t = t
BY DEF Ranged

LEMMA RangedFacts ==
  ASSUME NEW s \in Seq(Candle)
  PROVE  /\ Ranged(s) \subseteq Times
         /\ s = <<>> => Ranged(s) = {}
         /\ s # <<>> => /\ Head(s) \in Candle /\ Tail(s) \in Seq(Candle)
                        /\ Len(Tail(s)) = Len(s) - 1 /\ Len(s) \in Nat
                        /\ Ranged(s) = {Head(s).t} \cup Ranged(Tail(s))
<1>1. Ranged(s) \subseteq Times
  BY CandlesOfSeq DEF Ranged
<1>2. s = <<>> => Ranged(s) = {}
  BY DEF Ranged
<1>3. ASSUME s # <<>>
      PROVE  /\ Head(s) \in Candle /\ Tail(s) \in Seq(Candle)
             /\ Len(Tail(s)) = Len(s) - 1 /\ Len(s) \in Nat
             /\ Ranged(s) = {Head(s).t} \cup Ranged(Tail(s))
  <2>1. /\ Head(s) \in Candle /\ Tail(s) \in Seq(Candle) /\ Len(Tail(s)) = Len(s) - 1
        /\ \A i \in 1..Len(Tail(s)) : Tail(s)[i] = s[i + 1]
    BY <1>3, HeadTailProperties
  <2>2. /\ Head(s) = s[1] /\ Len(s) \in Nat \ {0}
        /\ DOMAIN s = 1..Len(s) /\ DOMAIN Tail(s) = 1..Len(Tail(s))
    BY <1>3, <2>1, EmptySeq, CandlesOfSeq
  <2> DEFINE n == Len(s)
             m == Len(Tail(s))
  <2>3. \A i \in 1..n : i = 1 \/ (i - 1 \in 1..m /\ Tail(s)[i - 1] = s[i])
    BY <2>1, <2>2
  <2>4. \A i \in 1..m : i + 1 \in 1..n /\ Tail(s)[i] = s[i + 1]
    BY <2>1, <2>2
  <2>5. 1 \in 1..n
    BY <2>2
  <2> HIDE DEF n, m
  <2>6. ASSUME NEW t \in Ranged(s) PROVE t \in {Head(s).t} \cup Ranged(Tail(s))
    <3>1. PICK i \in 1..n : s[i].t = t
      BY <2>2, InRanged DEF n
    <3>2. CASE i = 1
      BY <2>2, <3>1, <3>2
    <3>3. CASE i # 1
      BY <2>2, <2>3, <3>1, <3>3, InRanged DEF m
    <3> QED BY <3>2, <3>3
  <2>7. ASSUME NEW t \in {Head(s).t} \cup Ranged(Tail(s)) PROVE t \in Ranged(s)
    <3>1. CASE t = Head(s).t
      BY <2>2, <2>5, <3>1, InRanged DEF n
    <3>2. CASE t \in Ranged(Tail(s))
      <4>0. PICK u : u = Tail(s)
        OBVIOUS
      <4>1. PICK i \in 1..m : u[i].t = t
        <5>1. t \in Ranged(u) /\ DOMAIN u = 1..m
          BY <2>2, <3>2, <4>0 DEF m
        <5> QED BY <5>1, InRanged
      <4>2. i + 1 \in 1..n /\ s[i + 1].t = t
        BY <2>4, <4>0, <4>1
      <4> QED BY <2>2, <4>2, InRanged DEF n
    <3> QED BY <3>1, <3>2
  <2> QED BY <2>1, <2>6, <2>7
<1> QED BY <1>1, <1>2, <1>3

LEMMA ConcatRanged ==
  ASSUME NEW s \in Seq(Candle), NEW u \in Seq(Candle)
  PROVE  s \o u \in Seq(Candle) /\ Ranged(s \o u) = Ranged(s) \cup Ranged(u)
<1> DEFINE n == Len(s)
           m == Len(u)
           su == s \o u
<1>1. /\ su \in Seq(Candle) /\ Len(su) = n + m
      /\ \A i \in 1..(n + m) : su[i] = IF i <= n THEN s[i] ELSE u[i - n]
  BY ConcatProperties
<1>2. /\ n \in Nat /\ m \in Nat /\ DOMAIN s = 1..n /\ DOMAIN u = 1..m /\ DOMAIN su = 1..(n + m)
  BY <1>1, LenProperties
<1>3. \A i \in 1..n : i \in 1..(n + m) /\ su[i] = s[i]
  BY <1>1, <1>2
<1>4. \A i \in 1..m : n + i \in 1..(n + m) /\ su[n + i] = u[i]
  BY <1>1, <1>2
<1>5. \A i \in 1..(n + m) : i \in 1..n \/ (i - n \in 1..m /\ n + (i - n) = i)
  BY <1>2
<1> HIDE DEF n, m, su
<1>6. ASSUME NEW t \in Ranged(su) PROVE t \in Ranged(s) \cup Ranged(u)
  <2>1. PICK i \in 1..(n + m) : su[i].t = t
    BY <1>2, InRanged
  <2>2. CASE i \in 1..n
    BY <1>2, <1>3, <2>1, <2>2, InRanged
  <2>3. CASE i - n \in 1..m /\ n + (i - n) = i
    <3>1. u[i - n].t = t
      BY <1>4, <2>1, <2>3
    <3> QED BY <1>2, <2>3, <3>1, InRanged
  <2> QED BY <1>5, <2>2, <2>3
<1>7. ASSUME NEW t \in Ranged(s) \cup Ranged(u) PROVE t \in Ranged(su)
  <2>1. CASE t \in Ranged(s)
    BY <1>2, <1>3, <2>1, InRanged
  <2>2. CASE t \in Ranged(u)
    BY <1>2, <1>4, <2>2, InRanged
  <2> QED BY <2>1, <2>2
<1> QED BY <1>1, <1>6, <1>7 DEF su

(* A batch and what is left pending.                                       *)
LEMMA SplitRanged ==
  ASSUME NEW s \in Seq(Candle), NEW k \in Nat \ {0}, k <= Len(s)
  PROVE  /\ SubSeq(s, 1, k) \in Seq(Candle) /\ SubSeq(s, 1, k) # <<>>
         /\ SubSeq(s, k + 1, Len(s)) \in Seq(Candle)
         /\ Ranged(s) = Ranged(SubSeq(s, 1, k)) \cup Ranged(SubSeq(s, k + 1, Len(s)))
<1> DEFINE n == Len(s)
           a == SubSeq(s, 1, k)
           b == SubSeq(s, k + 1, n)
<1>1. n \in Nat /\ DOMAIN s = 1..n /\ \A i \in 1..n : s[i] \in Candle
  BY CandlesOfSeq
<1> HIDE DEF n
<1>2. k <= n /\ (\A i \in 1..k : s[i] \in Candle) /\ (\A i \in (k + 1)..n : s[i] \in Candle)
  BY <1>1 DEF n
<1>3. a \in Seq(Candle) /\ Len(a) = k /\ \A i \in 1..k : a[i] = s[i]
  <2>1. /\ a \in Seq(Candle) /\ Len(a) = IF 1 <= k THEN k - 1 + 1 ELSE 0
        /\ \A i \in 1..(k - 1 + 1) : a[i] = s[1 + i - 1]
    BY <1>1, <1>2, SubSeqProperties
  <2> QED BY <2>1
<1>4. b \in Seq(Candle) /\ Len(b) = n - k /\ \A i \in 1..(n - k) : b[i] = s[k + i]
  <2>1. /\ b \in Seq(Candle) /\ Len(b) = IF k + 1 <= n THEN n - (k + 1) + 1 ELSE 0
        /\ \A i \in 1..(n - (k + 1) + 1) : b[i] = s[k + 1 + i - 1]
    BY <1>1, <1>2, SubSeqProperties
  <2> QED BY <2>1, <1>1, <1>2
<1>5. a # <<>>
  BY <1>3, EmptySeq
<1>6. DOMAIN a = 1..k /\ DOMAIN b = 1..(n - k)
  BY <1>3, <1>4, LenProperties
<1> HIDE DEF a, b
<1>7. Ranged(s) \subseteq Ranged(a) \cup Ranged(b)
  <2> SUFFICES ASSUME NEW i \in 1..n PROVE s[i].t \in Ranged(a) \cup Ranged(b)
    BY <1>1 DEF Ranged
  <2>1. CASE i <= k
    <3>1. i \in 1..k
      BY <2>1, <1>1
    <3> QED BY <3>1, <1>3, <1>6 DEF Ranged
  <2>2. CASE ~(i <= k)
    <3>1. i - k \in 1..(n - k) /\ k + (i - k) = i
      BY <2>2, <1>1
    <3> QED BY <3>1, <1>4, <1>6 DEF Ranged
  <2> QED BY <2>1, <2>2
<1>8. Ranged(a) \subseteq Ranged(s) /\ Ranged(b) \subseteq Ranged(s)
  <2>1. \A i \in 1..k : i \in 1..n
    BY <1>1, <1>2
  <2>2. \A i \in 1..(n - k) : k + i \in 1..n
    BY <1>1, <1>2
  <2>3. \A t \in Ranged(a) : t \in Ranged(s)
    <3> SUFFICES ASSUME NEW i \in 1..k PROVE a[i].t \in Ranged(s)
      BY <1>6 DEF Ranged
    <3> QED BY <2>1, <1>1, <1>3, InRanged
  <2>4. \A t \in Ranged(b) : t \in Ranged(s)
    <3> SUFFICES ASSUME NEW i \in 1..(n - k) PROVE b[i].t \in Ranged(s)
      BY <1>6 DEF Ranged
    <3> QED BY <2>2, <1>1, <1>4, InRanged
  <2> QED BY <2>3, <2>4
<1> QED BY <1>3, <1>4, <1>5, <1>7, <1>8 DEF a, b, n

(* What the exchange has of a page: every candle from the later of its     *)
(* start and the listing on, and at least one if the start is listed.      *)
LEMMA PageFacts ==
  ASSUME NEW from \in Int, NEW to \in Int, now \in Times, from <= to, to <= now
  PROVE  LET page == Page(from, to)
             last == page[Len(page)].t
         IN  /\ page \in Seq(Candle)
             /\ page # <<>> =>
                  /\ last \in Int /\ from <= last /\ last <= to /\ Listed <= last
                  /\ Ranged(page) = {t \in Times : Listed <= t /\ from <= t /\ t <= last}
             /\ Listed <= from => page # <<>>
<1> DEFINE low == IF from < Listed THEN Listed ELSE from
           high == Smaller(Smaller(to, from + PageSize - 1), now)
           n == IF high < low THEN 0 ELSE high - low + 1
           c(i) == [t |-> low + i - 1, v |-> IF low + i - 1 < now THEN Final ELSE InProgress]
           page == Page(from, to)
<1>1. page = [i \in 1..n |-> c(i)]
  BY DEF Page
<1>2. /\ low \in Int /\ high \in Int /\ n \in Nat /\ Listed <= low /\ from <= low /\ 1 <= low
      /\ high <= to /\ high <= NumCandles /\ (low = Listed \/ low = from)
      /\ from <= high
      /\ high < low \/ n = high - low + 1
      /\ Listed <= from => low <= high
      /\ n = 0 <=> high < low
  BY HistoryFacts DEF Smaller
<1> HIDE DEF low, high
<1>3. \A i \in 1..n : c(i) \in Candle
  <2>1. \A i \in 1..n : low + i - 1 \in Times
    BY <1>2, HistoryFacts DEF Times
  <2> QED BY <2>1 DEF Candle
<1>4. page \in Seq(Candle) /\ Len(page) = n /\ DOMAIN page = 1..n
      /\ \A i \in 1..n : page[i].t = low + i - 1
  <2>1. page \in [1..n -> Candle]
    BY <1>1, <1>3
  <2>2. page \in Seq(Candle)
    BY <2>1, <1>2, SeqDef
  <2>3. DOMAIN page = 1..n
    BY <1>1
  <2>4. Len(page) = n
    BY <2>2, <2>3, <1>2, LenProperties
  <2>5. \A i \in 1..n : page[i] = c(i) /\ c(i).t = low + i - 1
    BY <1>1
  <2> HIDE DEF c, n, page
  <2> QED BY <2>2, <2>3, <2>4, <2>5
<1>5. page # <<>> <=> n # 0
  BY <1>4, EmptySeq
<1> HIDE DEF n, page
<1>6. ASSUME page # <<>>
      PROVE  /\ page[n].t = high /\ low <= high
             /\ Ranged(page) = {t \in Times : Listed <= t /\ from <= t /\ t <= high}
  <2>1. low <= high /\ n = high - low + 1 /\ n \in 1..n
    BY <1>2, <1>5, <1>6 DEF n
  <2>2. page[n].t = high
    BY <1>2, <1>4, <2>1
  <2>3. Ranged(page) = {low + i - 1 : i \in 1..n}
    BY <1>4 DEF Ranged
  <2>4. \A i \in 1..n : low + i - 1 \in Times /\ Listed <= low + i - 1
                        /\ from <= low + i - 1 /\ low + i - 1 <= high
    BY <1>2, <2>1, HistoryFacts DEF Times
  <2>5. ASSUME NEW t \in Times, Listed <= t, from <= t, t <= high
        PROVE  \E i \in 1..n : t = low + i - 1
    <3>1. t - low + 1 \in 1..n /\ t = low + (t - low + 1) - 1
      BY <1>2, <2>1, <2>5, HistoryFacts
    <3> QED BY <3>1
  <2> QED BY <2>1, <2>2, <2>3, <2>4, <2>5
<1>7. page # <<>> =>
        /\ page[n].t \in Int /\ from <= page[n].t /\ page[n].t <= to /\ Listed <= page[n].t
        /\ Ranged(page) = {t \in Times : Listed <= t /\ from <= t /\ t <= page[n].t}
  BY <1>2, <1>6, HistoryFacts
<1>8. Listed <= from => page # <<>>
  BY <1>2, <1>5 DEF n, low, high
<1> QED BY <1>4, <1>7, <1>8 DEF page

-----------------------------------------------------------------------------
(* The loop of a call.                                                     *)

Between(j, stored, clock) ==
  j \in Job /\ Owned(j) /\ Kept(j, stored) /\ Paged(j, clock) /\ j.batch = <<>>

(* Wherever the loop goes on, the invariant holds of the call.             *)
LEMMA LoopedInv ==
  ASSUME NEW j, NEW stored, NEW clock, Between(j, stored, clock), j.cur <= j.to => Begun(j)
  PROVE  JobInv(Looped(j), stored, clock) /\ Looped(j).pc # "saving"
<1> DEFINE l == Looped(j)
<1>0. /\ j \in Job /\ j.cur \in Int /\ j.to \in Int /\ j.pending \in Seq(Candle)
      /\ <<>> \in Seq(Candle)
  BY HistoryFacts, EmptySeq DEF Between, Job
<1>1. CASE j.cur <= j.to
  <2>1. l = [j EXCEPT !.pc = "fetch"]
    BY <1>1 DEF Looped
  <2>2. /\ l \in Job /\ l.pc = "fetch" /\ l.from = j.from /\ l.to = j.to /\ l.cur = j.cur
        /\ l.pending = j.pending /\ l.batch = j.batch
        /\ l.fetched = j.fetched /\ l.unsaved = j.unsaved /\ l.skipped = j.skipped
    BY <1>0, <2>1 DEF Job, JobPc
  <2> QED BY <1>1, <2>2 DEF Between, JobInv, Owned, Kept, Paged, Placed, Begun
<1>2. CASE ~(j.cur <= j.to) /\ j.pending # <<>>
  <2>1. l = [j EXCEPT !.pc = "check", !.batch = j.pending, !.pending = <<>>]
    BY <1>2 DEF Looped
  <2>2. /\ l \in Job /\ l.pc = "check" /\ l.from = j.from /\ l.to = j.to /\ l.cur = j.cur
        /\ l.pending = <<>> /\ l.batch = j.pending
        /\ l.fetched = j.fetched /\ l.unsaved = j.unsaved /\ l.skipped = j.skipped
    BY <1>0, <2>1 DEF Job, JobPc
  <2>3. Ranged(l.pending) \cup Ranged(l.batch) = Ranged(j.pending) \cup Ranged(j.batch)
    BY <2>2, RangedFacts DEF Between
  <2> QED BY <1>2, <2>2, <2>3 DEF Between, JobInv, Owned, Kept, Paged, Placed, Begun
<1>3. CASE ~(j.cur <= j.to) /\ j.pending = <<>>
  <2>1. l = [j EXCEPT !.pc = "done", !.last = 0]
    BY <1>3 DEF Looped
  <2>2. /\ l \in Job /\ l.pc = "done" /\ l.from = j.from /\ l.to = j.to /\ l.cur = j.cur
        /\ l.pending = j.pending /\ l.batch = j.batch
        /\ l.fetched = j.fetched /\ l.unsaved = j.unsaved /\ l.skipped = j.skipped
    <3>1. 0 \in 0..NumCandles
      BY HistoryFacts
    <3> QED BY <1>0, <2>1, <3>1 DEF Job, JobPc
  <2>3. l.cur > l.to
    BY <1>0, <1>3, <2>2
  <2> QED BY <2>2, <2>3 DEF Between, JobInv, Owned, Kept, Paged, Placed, Begun
<1> QED BY <1>1, <1>2, <1>3

(* A call that breaks off its loop has nothing, or gave a page up.         *)
LEMMA BrokenInv ==
  ASSUME NEW j, NEW stored, NEW clock, Between(j, stored, clock), j.fetched = {} \/ j.skipped
  PROVE  JobInv(Broken(j), stored, clock) /\ Broken(j).pc # "saving"
<1> DEFINE b == [j EXCEPT !.cur = j.to + 1]
<1>1. /\ b \in Job /\ b.from = j.from /\ b.to = j.to /\ b.cur = j.to + 1
      /\ b.pending = j.pending /\ b.batch = j.batch
      /\ b.fetched = j.fetched /\ b.unsaved = j.unsaved /\ b.skipped = j.skipped
  <2>1. j \in Job /\ j.to + 1 \in Int
    BY HistoryFacts DEF Between, Job
  <2> QED BY <2>1 DEF Job
<1>2. Broken(j) = Looped(b)
  BY DEF Broken
<1> HIDE DEF b
<1>3. ~(b.cur <= b.to)
  BY <1>1, HistoryFacts DEF Job
<1>4. Between(b, stored, clock)
  <2>1. Owned(b) /\ Kept(b, stored)
    BY <1>1 DEF Between, Owned, Kept
  <2>2. Paged(b, clock)
    BY <1>1 DEF Between, Paged
  <2> QED BY <1>1, <2>1, <2>2 DEF Between
<1> QED BY <1>2, <1>3, <1>4, LoopedInv

(* A call at its fetch.                                                    *)
LEMMA FetchingFacts ==
  ASSUME NEW j, NEW stored, NEW clock, JobInv(j, stored, clock), j.pc \in {"fetch", "retry"}
  PROVE  /\ Between(j, stored, clock) /\ j.cur <= j.to /\ j.to <= clock
         /\ j.cur \in Int /\ j.to \in Int /\ Begun(j)
BY HistoryFacts DEF JobInv, Placed, Between, Paged, Job

(* The exchange has a page for a call that already fetched something, so   *)
(* an empty one comes first or after a page given up.                      *)
LEMMA EmptyPageInv ==
  ASSUME now \in Times, NEW j, NEW stored, JobInv(j, stored, now), j.pc \in {"fetch", "retry"},
         Page(j.cur, j.to) = <<>>
  PROVE  j.fetched = {} \/ j.skipped
<1> SUFFICES ASSUME ~j.skipped, NEW t \in j.fetched PROVE FALSE
  OBVIOUS
<1>1. /\ j.cur <= j.to /\ j.to <= now /\ j.cur \in Int /\ j.to \in Int
      /\ Between(j, stored, now)
  BY FetchingFacts
<1>2. t \in Times /\ Listed <= t /\ t < j.cur
  BY <1>1 DEF Between, Paged
<1>3. Listed <= j.cur
  BY <1>1, <1>2, HistoryFacts
<1> QED BY <1>1, <1>3, PageFacts

(* A page continues what the call fetched.                                 *)
LEMMA ReceivedInv ==
  ASSUME now \in Times, NEW j, NEW stored, JobInv(j, stored, now), j.pc \in {"fetch", "retry"},
         NEW page, page = Page(j.cur, j.to), page # <<>>
  PROVE  Between(Received(j, page), stored, now) /\ Begun(Received(j, page))
<1> DEFINE r == Received(j, page)
           last == page[Len(page)].t
<1>1. /\ j.cur <= j.to /\ j.to <= now /\ j.cur \in Int /\ j.to \in Int
      /\ Between(j, stored, now) /\ j \in Job
  BY FetchingFacts DEF Between
<1>2. /\ page \in Seq(Candle)
      /\ last \in Int /\ j.cur <= last /\ last <= j.to /\ Listed <= last
      /\ Ranged(page) = {t \in Times : Listed <= t /\ j.cur <= t /\ t <= last}
  BY <1>1, PageFacts
<1>3. j.pending \in Seq(Candle)
  BY <1>1 DEF Job
<1>4. j.pending \o page \in Seq(Candle) /\ Ranged(j.pending \o page) = Ranged(j.pending) \cup Ranged(page)
  BY <1>2, <1>3, ConcatRanged
<1>5. r = [j EXCEPT !.pending = j.pending \o page, !.cur = last + 1, !.tries = 0,
                    !.fetched = j.fetched \cup Ranged(page)]
  BY DEF Received, Ranged
<1>6. last + 1 \in Int /\ 0 \in 0..(MaxRetries - 1) /\ j.fetched \cup Ranged(page) \in SUBSET Times
  BY <1>1, <1>2, HistoryFacts DEF Job
<1> HIDE DEF last
<1>7. /\ r \in Job /\ r.from = j.from /\ r.to = j.to /\ r.cur = last + 1
      /\ r.pending = j.pending \o page /\ r.batch = j.batch
      /\ r.fetched = j.fetched \cup Ranged(page) /\ r.unsaved = j.unsaved /\ r.skipped = j.skipped
  <2>1. j \in Job
    BY <1>1
  <2> DEFINE grown == j.pending \o page
             seen == j.fetched \cup Ranged(page)
             next == last + 1
  <2>2. grown \in Seq(Candle) /\ seen \in SUBSET Times /\ next \in Int
    BY <1>4, <1>6
  <2>3. r = [j EXCEPT !.pending = grown, !.cur = next, !.tries = 0, !.fetched = seen]
    BY <1>5
  <2>4. 0 \in 0..(MaxRetries - 1)
    BY <1>6
  <2> HIDE DEF r, grown, seen, next
  <2>5. /\ r \in Job /\ r.from = j.from /\ r.to = j.to /\ r.cur = next
        /\ r.pending = grown /\ r.batch = j.batch
        /\ r.fetched = seen /\ r.unsaved = j.unsaved /\ r.skipped = j.skipped
    BY <2>1, <2>2, <2>3, <2>4 DEF Job
  <2> QED BY <2>5 DEF r, grown, seen, next
<1>8. Owned(r) /\ Kept(r, stored)
  BY <1>1, <1>4, <1>7 DEF Between, Owned, Kept
<1>9. Paged(r, now)
  <2>1. CASE j.skipped
    BY <1>1, <1>7, <2>1 DEF Between, Paged
  <2>2. CASE ~j.skipped
    <3>1. r.cur <= r.to + 1
      BY <1>1, <1>2, <1>7
    <3>2. /\ j.fetched = {} \/ j.fetched = {t \in Times : Listed <= t /\ j.from <= t /\ t < j.cur}
          /\ j.from \in Int
      BY <1>1, <2>2 DEF Between, Paged, Job
    <3>3. j.from <= j.cur
      <4>1. CASE j.fetched = {}
        BY <1>1, <2>2, <3>2, <4>1, FetchingFacts DEF Begun
      <4>2. ASSUME NEW t \in j.fetched PROVE j.from <= j.cur
        <5>1. t \in Times /\ j.from <= t /\ t < j.cur
          BY <3>2, <4>2
        <5> QED BY <1>1, <3>2, <5>1, HistoryFacts
      <4> QED BY <4>1, <4>2
    <3>4. r.fetched = {t \in Times : Listed <= t /\ r.from <= t /\ t < r.cur}
      <4>1. \A t \in Times : t \in r.fetched <=> (Listed <= t /\ j.from <= t /\ t < last + 1)
        <5> SUFFICES ASSUME NEW t \in Times
                     PROVE  t \in r.fetched <=> (Listed <= t /\ j.from <= t /\ t < last + 1)
          OBVIOUS
        <5>1. t \in r.fetched <=> t \in j.fetched \/ (Listed <= t /\ j.cur <= t /\ t <= last)
          BY <1>2, <1>7
        <5>2. t \in Int /\ last \in Int /\ j.cur <= last
          BY <1>1, <1>2, HistoryFacts
        <5>3. CASE j.fetched = {}
          <6>1. j.cur = j.from
            BY <2>2, <5>3, FetchingFacts DEF Begun
          <6> QED BY <1>1, <5>1, <5>2, <5>3, <6>1
        <5>4. CASE j.fetched # {}
          <6>1. t \in j.fetched <=> (Listed <= t /\ j.from <= t /\ t < j.cur)
            BY <3>2, <5>4
          <6> QED BY <1>1, <3>2, <3>3, <5>1, <5>2, <6>1
        <5> QED BY <5>3, <5>4
      <4> QED BY <1>7, <4>1 DEF Job
    <3> QED BY <1>1, <1>7, <3>1, <3>4 DEF Between, Paged
  <2> QED BY <2>1, <2>2
<1>10. Begun(r)
  <2>1. last \in Ranged(page)
    BY <1>1, <1>2, HistoryFacts DEF Times
  <2> QED BY <1>7, <2>1 DEF Begun
<1> QED BY <1>1, <1>7, <1>8, <1>9, <1>10 DEF Between

(* saveCandlesBatch may leave a candle behind that is stored or failed.    *)
LEMMA NextOfBatchInv ==
  ASSUME NEW j, NEW stored, NEW clock, JobInv(j, stored, clock), j.pc \in {"check", "saving"},
         Head(j.batch).t \in stored \cup j.unsaved
  PROVE  JobInv(NextOfBatch(j), stored, clock) /\ NextOfBatch(j).pc # "saving"
<1>1. /\ j \in Job /\ j.batch \in Seq(Candle) /\ j.batch # <<>> /\ j.pending \in Seq(Candle)
      /\ Owned(j) /\ Kept(j, stored) /\ Paged(j, clock)
  BY DEF JobInv, Placed, Job
<1>2. PICK rest \in Seq(Candle) : rest = Tail(j.batch)
  BY <1>1, RangedFacts
<1>3. Ranged(j.batch) = {Head(j.batch).t} \cup Ranged(rest)
  BY <1>1, <1>2, RangedFacts
<1>4. CASE Len(j.batch) > 1
  <2> DEFINE k == [j EXCEPT !.pc = "check", !.batch = rest]
  <2>1. NextOfBatch(j) = k
    BY <1>2, <1>4 DEF NextOfBatch
  <2>2. rest # <<>>
    <3>1. PICK n \in Nat : n = Len(j.batch) /\ Len(rest) = n - 1
      BY <1>1, <1>2, RangedFacts
    <3>2. n > 1
      BY <1>4, <3>1
    <3>3. n - 1 # 0
      BY <3>2
    <3> QED BY <3>1, <3>3, EmptySeq
  <2>3. /\ k \in Job /\ k.pc = "check" /\ k.from = j.from /\ k.to = j.to /\ k.cur = j.cur
        /\ k.pending = j.pending /\ k.batch = rest
        /\ k.fetched = j.fetched /\ k.unsaved = j.unsaved /\ k.skipped = j.skipped
    BY <1>1, <1>2 DEF Job, JobPc
  <2> HIDE DEF k
  <2>4. Owned(k) /\ Kept(k, stored) /\ Paged(k, clock) /\ Placed(k)
    BY <1>1, <1>3, <2>2, <2>3 DEF Owned, Kept, Paged, Placed
  <2> QED BY <2>1, <2>3, <2>4 DEF JobInv
<1>5. CASE ~(Len(j.batch) > 1)
  <2> DEFINE k == [j EXCEPT !.batch = <<>>]
  <2>1. NextOfBatch(j) = Looped(k)
    BY <1>5 DEF NextOfBatch
  <2>2. rest = <<>>
    <3>1. PICK n \in Nat : n = Len(j.batch) /\ Len(rest) = n - 1
      BY <1>1, <1>2, RangedFacts
    <3>2. PICK m \in Nat : m = Len(rest)
      BY CandlesOfSeq
    <3>3. ~(n > 1)
      BY <1>5, <3>1
    <3>4. m = n - 1
      BY <3>1, <3>2
    <3>5. m = 0
      BY <3>3, <3>4
    <3> QED BY <3>2, <3>5, EmptySeq
  <2>3. /\ k \in Job /\ k.from = j.from /\ k.to = j.to /\ k.cur = j.cur
        /\ k.pending = j.pending /\ k.batch = <<>>
        /\ k.fetched = j.fetched /\ k.unsaved = j.unsaved /\ k.skipped = j.skipped
    BY <1>1, EmptySeq DEF Job
  <2>4. Ranged(<<>>) = {} /\ Ranged(rest) = {} /\ j.fetched # {}
    BY <1>1, <1>3, <2>2, RangedFacts DEF Owned
  <2> HIDE DEF k
  <2>5. Owned(k) /\ Kept(k, stored) /\ Paged(k, clock) /\ Begun(k)
    BY <1>1, <1>3, <2>3, <2>4 DEF Owned, Kept, Paged, Begun
  <2>6. Between(k, stored, clock)
    BY <2>3, <2>5 DEF Between
  <2> QED BY <2>1, <2>5, <2>6, LoopedInv
<1> QED BY <1>4, <1>5

(* What a call remembers stays true as the table and the clock grow.       *)
LEMMA JobInvStays ==
  ASSUME NEW j, NEW s, NEW u, s \subseteq u, NEW c \in Int, NEW d \in Int, c <= d,
         JobInv(j, s, c)
  PROVE  JobInv(j, u, d)
<1>1. j \in Job /\ j.to \in Int /\ Owned(j) /\ Kept(j, s) /\ Paged(j, c) /\ Placed(j)
  BY HistoryFacts DEF JobInv, Job
<1>2. j.to <= d
  BY <1>1 DEF Paged
<1>3. Paged(j, d)
  BY <1>1, <1>2 DEF Paged
<1>4. Kept(j, u)
  BY <1>1 DEF Kept
<1> QED BY <1>1, <1>3, <1>4 DEF JobInv

-----------------------------------------------------------------------------
(* The steps.                                                              *)

(* The table never loses a row.                                            *)
RowsGrow == StoredTimes \subseteq StoredTimes'

(* Others store and time passes: what the calls remember stays true.       *)
LEMMA OthersStep ==
  ASSUME HistoryInv, StoreTypeOK', now' \in Times, now <= now', RowsGrow,
         NEW c \in Collectors, job'[c] = job[c], save'[c] = save[c]
  PROVE  JobInv(job[c], StoredTimes, now)' /\ SavingInv(c)'
<1>1. JobInv(job[c], StoredTimes, now) /\ SavingInv(c) /\ now \in Int /\ now' \in Int
  <2>1. now \in Times /\ JobInv(job[c], StoredTimes, now) /\ SavingInv(c)
    BY DEF HistoryInv
  <2> QED BY <2>1, HistoryFacts
<1>2. PICK j : j = job[c]
  OBVIOUS
<1>2a. PICK s : s = StoredTimes
  OBVIOUS
<1>2b. PICK u : u = StoredTimes'
  OBVIOUS
<1>2c. PICK m \in Int, n \in Int : m = now /\ n = now'
  BY <1>1
<1>3. JobInv(j, u, n)
  BY <1>1, <1>2, <1>2a, <1>2b, <1>2c, JobInvStays DEF RowsGrow
<1>4. JobInv(job[c], StoredTimes, now)'
  BY <1>2, <1>2b, <1>2c, <1>3
<1>5. \A t \in Times : row[t] # Absent => row'[t] # Absent
  BY DEF RowsGrow, StoredTimes
<1>6. save[c].t \in Times
  BY HistoryFacts DEF HistoryInv, StoreTypeOK, Save
<1>7. SavingInv(c)'
  BY <1>1, <1>5, <1>6 DEF SavingInv
<1> QED BY <1>4, <1>7

(* A step of one call.                                                     *)
LEMMA CallStep ==
  ASSUME HistoryInv, NEW c \in Collectors, NEW j, job' = [job EXCEPT ![c] = j], now' = now,
         StoreTypeOK', RowsGrow, \A d \in Collectors \ {c} : save'[d] = save[d],
         JobInv(j, StoredTimes', now),
         j.pc = "saving" => /\ save'[c].t = Head(j.batch).t
                            /\ save'[c].pc = "returned" => row'[save'[c].t] # Absent
  PROVE  HistoryInv'
<1>1. job'[c] = j /\ \A d \in Collectors \ {c} : job'[d] = job[d]
  BY DEF HistoryInv
<1>2. job' \in [Collectors -> Job]
  BY <1>1 DEF HistoryInv, JobInv
<1>3. JobInv(job[c], StoredTimes, now)' /\ SavingInv(c)'
  BY <1>1 DEF SavingInv
<1>4. ASSUME NEW d \in Collectors, d # c
      PROVE  JobInv(job[d], StoredTimes, now)' /\ SavingInv(d)'
  <2>1. now' \in Times /\ now <= now'
    BY HistoryFacts DEF HistoryInv
  <2> QED BY <1>1, <1>4, <2>1, OthersStep
<1>5. now' \in Times
  BY DEF HistoryInv
<1> QED BY <1>2, <1>3, <1>4, <1>5 DEF HistoryInv

(* A step of one call that leaves the table alone.                         *)
LEMMA QuietCallStep ==
  ASSUME HistoryInv, NEW c \in Collectors, NEW j, Moves(c, j), UNCHANGED storeVars,
         JobInv(j, StoredTimes, now), j.pc # "saving"
  PROVE  HistoryInv'
<1>1. row' = row /\ save' = save /\ job' = [job EXCEPT ![c] = j] /\ now' = now
  BY DEF Moves, storeVars
<1>2. StoreTypeOK' /\ RowsGrow /\ StoredTimes' = StoredTimes
  BY <1>1 DEF HistoryInv, StoreTypeOK, RowsGrow, StoredTimes
<1> QED BY <1>1, <1>2, CallStep

LEMMA HistoryStarts == EmptyStart => HistoryInv
<1> SUFFICES ASSUME EmptyStart PROVE HistoryInv
  OBVIOUS
<1>1. /\ StoreTypeOK /\ now \in Times /\ now \in Int
      /\ \A c \in Collectors : job[c] = NoJob
      /\ job = [c \in Collectors |-> NoJob]
  BY StoreInitTypes, HistoryFacts DEF EmptyStart, HistoryInit
<1>2. JobInv(NoJob, StoredTimes, now) /\ NoJob.pc = "none"
  <2>1. 0 \in 0..NumCandles /\ 0 \in 0..(MaxRetries - 1) /\ <<>> \in Seq(Candle) /\ 0 <= now
    BY <1>1, HistoryFacts, EmptySeq
  <2>2. NoJob \in Job
    BY <2>1 DEF NoJob, Job, JobPc
  <2>3. Ranged(<<>>) = {}
    BY EmptySeq, RangedFacts
  <2> QED BY <2>1, <2>2, <2>3 DEF NoJob, JobInv, Owned, Kept, Paged, Placed
<1> QED BY <1>1, <1>2 DEF HistoryInv, SavingInv, JobInv

LEMMA TickInv ==
  ASSUME HistoryInv, Tick
  PROVE  HistoryInv'
<1>1. /\ now' = now + 1 /\ now < NumCandles /\ row' = row /\ save' = save /\ job' = job
  BY DEF Tick, storeVars
<1>2. /\ StoreTypeOK' /\ RowsGrow /\ job' \in [Collectors -> Job] /\ now \in Times
  BY <1>1 DEF HistoryInv, StoreTypeOK, RowsGrow, StoredTimes
<1>3. now' \in Times /\ now <= now'
  BY <1>1, <1>2, HistoryFacts DEF Times
<1>4. \A c \in Collectors : JobInv(job[c], StoredTimes, now)' /\ SavingInv(c)'
  BY <1>1, <1>2, <1>3, OthersStep
<1> QED BY <1>2, <1>3, <1>4 DEF HistoryInv

LEMMA CollectInv ==
  ASSUME HistoryInv, NEW c \in Collectors, Collect(c)
  PROVE  HistoryInv'
<1>1. PICK first \in Int : first = now - Window + 1
  BY HistoryFacts DEF HistoryInv
<1> DEFINE j == [NoJob EXCEPT !.pc = "last", !.first = first, !.from = first, !.to = now]
<1>2. Moves(c, j) /\ UNCHANGED storeVars
  BY <1>1 DEF Collect
<1>3. JobInv(j, StoredTimes, now) /\ j.pc # "saving"
  <2>1. /\ 0 \in 0..NumCandles /\ 0 \in 0..(MaxRetries - 1) /\ <<>> \in Seq(Candle)
        /\ now \in 0..NumCandles /\ now <= now
    <3>1. now \in Times
      BY DEF HistoryInv
    <3>2. <<>> \in Seq(Candle)
      BY EmptySeq
    <3>3. now \in Int /\ now \in 0..NumCandles
      BY <3>1, HistoryFacts
    <3>4. 0 \in 0..NumCandles /\ 0 \in 0..(MaxRetries - 1)
      BY HistoryFacts
    <3>5. now <= now
      BY <3>3
    <3> QED BY <3>2, <3>3, <3>4, <3>5
  <2>2. /\ j.pc = "last" /\ j.to = now /\ j.batch = <<>> /\ j.pending = <<>>
        /\ j.fetched = {} /\ j.unsaved = {}
    BY DEF NoJob
  <2>3. j \in Job
    <3>1. PICK clock \in 0..NumCandles : clock = now
      BY <2>1
    <3>2. PICK k : k = NoJob
      OBVIOUS
    <3>3. k \in Job
      BY <2>1, <3>2 DEF NoJob, Job, JobPc
    <3>4. j = [k EXCEPT !.pc = "last", !.first = first, !.from = first, !.to = clock]
      BY <3>1, <3>2
    <3> HIDE DEF j
    <3> QED BY <3>3, <3>4 DEF Job, JobPc
  <2>4. Ranged(<<>>) = {}
    BY EmptySeq, RangedFacts
  <2> HIDE DEF j
  <2> QED BY <2>1, <2>2, <2>3, <2>4 DEF JobInv, Owned, Kept, Paged, Placed
<1> HIDE DEF j
<1> QED BY <1>2, <1>3, QuietCallStep

LEMMA StoredTimesFacts == StoredTimes \subseteq Times
BY DEF StoredTimes

LEMMA FindLastInv ==
  ASSUME HistoryInv, NEW c \in Collectors, FindLast(c)
  PROVE  HistoryInv'
<1>1. PICK j : j = job[c]
  OBVIOUS
<1>2. JobInv(j, StoredTimes, now) /\ j.pc = "last" /\ j \in Job
  BY <1>1 DEF HistoryInv, FindLast, JobInv
<1>3. PICK last \in 0..NumCandles :
        Moves(c, [j EXCEPT !.pc = "earliest", !.last = last]) /\ UNCHANGED storeVars
  <2>1. PICK last : /\ last = 0 \/ last \in StoredTimes
                    /\ Moves(c, [j EXCEPT !.pc = "earliest", !.last = last])
                    /\ UNCHANGED storeVars
    BY <1>1 DEF FindLast
  <2>2. last \in 0..NumCandles
    BY <2>1, StoredTimesFacts, HistoryFacts
  <2> QED BY <2>1, <2>2
<1> DEFINE k == [j EXCEPT !.pc = "earliest", !.last = last]
<1>4. /\ k \in Job /\ k.pc = "earliest" /\ k.from = j.from /\ k.to = j.to /\ k.cur = j.cur
      /\ k.pending = j.pending /\ k.batch = j.batch
      /\ k.fetched = j.fetched /\ k.unsaved = j.unsaved /\ k.skipped = j.skipped
  BY <1>2 DEF Job, JobPc
<1> HIDE DEF k
<1>5. JobInv(k, StoredTimes, now)
  BY <1>2, <1>4 DEF JobInv, Owned, Kept, Paged, Placed
<1>6. Moves(c, k)
  BY <1>3 DEF k
<1> QED BY <1>3, <1>4, <1>5, <1>6, QuietCallStep

LEMMA FindFirstInv ==
  ASSUME HistoryInv, NEW c \in Collectors, FindFirst(c)
  PROVE  HistoryInv'
<1>1. PICK j : j = job[c]
  OBVIOUS
<1>1a. PICK stored : stored = StoredTimes
  OBVIOUS
<1>1b. PICK clock : clock = now
  OBVIOUS
<1>2. JobInv(j, stored, clock) /\ j.pc = "earliest" /\ j \in Job
  BY <1>1, <1>1a, <1>1b DEF HistoryInv, FindFirst, JobInv
<1>3. /\ j.fetched = {} /\ Between(j, stored, clock)
      /\ j.last \in Int /\ j.first \in Int
  BY <1>2, HistoryFacts DEF JobInv, Placed, Between, Job
<1>4. PICK from \in Int :
        /\ UNCHANGED storeVars
        /\ Moves(c, Broken(j)) \/ Moves(c, Looped([j EXCEPT !.from = from, !.cur = from]))
  <2>1. PICK earliest, resumes, from :
          /\ resumes = (earliest # 0 /\ j.last # 0 /\ earliest < j.first /\ j.last <= j.to)
          /\ from = IF resumes THEN j.last + 1 ELSE j.first
          /\ Moves(c, IF resumes /\ j.last = j.to THEN Broken(j)
                      ELSE Looped([j EXCEPT !.from = from, !.cur = from]))
    BY <1>1 DEF FindFirst
  <2>2. from \in Int
    BY <1>3, <2>1
  <2>3. UNCHANGED storeVars
    BY DEF FindFirst
  <2>4. Moves(c, Broken(j)) \/ Moves(c, Looped([j EXCEPT !.from = from, !.cur = from]))
    <3>1. CASE resumes /\ j.last = j.to
      BY <2>1, <3>1
    <3>2. CASE ~(resumes /\ j.last = j.to)
      BY <2>1, <3>2
    <3> QED BY <3>1, <3>2
  <2> QED BY <2>2, <2>3, <2>4
<1>5. CASE Moves(c, Broken(j))
  <2>1. PICK b : b = Broken(j)
    OBVIOUS
  <2>2. JobInv(b, StoredTimes, now) /\ b.pc # "saving"
    BY <1>1a, <1>1b, <1>3, <2>1, BrokenInv
  <2> QED BY <1>4, <1>5, <2>1, <2>2, QuietCallStep
<1>6. CASE Moves(c, Looped([j EXCEPT !.from = from, !.cur = from]))
  <2> DEFINE k == [j EXCEPT !.from = from, !.cur = from]
  <2>1. /\ k \in Job /\ k.from = from /\ k.to = j.to /\ k.cur = from
        /\ k.pending = j.pending /\ k.batch = j.batch
        /\ k.fetched = j.fetched /\ k.unsaved = j.unsaved /\ k.skipped = j.skipped
    BY <1>2 DEF Job
  <2>2. Moves(c, Looped(k))
    BY <1>6
  <2> HIDE DEF k
  <2>3. Between(k, stored, clock) /\ Begun(k)
    <3>1. Owned(k) /\ Kept(k, stored)
      BY <1>3, <2>1 DEF Between, Owned, Kept
    <3>2. Paged(k, clock)
      BY <1>3, <2>1 DEF Between, Paged
    <3> QED BY <1>3, <2>1, <3>1, <3>2 DEF Between, Begun
  <2>4. PICK l : l = Looped(k)
    OBVIOUS
  <2>5. JobInv(l, StoredTimes, now) /\ l.pc # "saving"
    BY <1>1a, <1>1b, <2>3, <2>4, LoopedInv
  <2> QED BY <1>4, <2>2, <2>4, <2>5, QuietCallStep
<1> QED BY <1>4, <1>5, <1>6

(* What a call at its fetch, or its retry, may do with a page.             *)
LEMMA PageInv ==
  ASSUME HistoryInv, NEW c \in Collectors, job[c].pc \in {"fetch", "retry"}, UNCHANGED storeVars,
         NEW page, page = Page(job[c].cur, job[c].to), page # <<>>,
         Moves(c, Looped(Received(job[c], page)))
  PROVE  HistoryInv'
<1>1. PICK j : j = job[c]
  OBVIOUS
<1>2. PICK stored : stored = StoredTimes
  OBVIOUS
<1>3. JobInv(j, stored, now) /\ now \in Times
  BY <1>1, <1>2 DEF HistoryInv
<1>4. PICK r : r = Received(j, page)
  OBVIOUS
<1>5. Between(r, stored, now) /\ Begun(r)
  BY <1>1, <1>3, <1>4, ReceivedInv
<1>6. PICK l : l = Looped(r)
  OBVIOUS
<1>7. PICK clock : clock = now
  OBVIOUS
<1>8. JobInv(l, StoredTimes, now) /\ l.pc # "saving"
  BY <1>2, <1>5, <1>6, <1>7, LoopedInv
<1> QED BY <1>1, <1>4, <1>6, <1>8, QuietCallStep

LEMMA FetchPageInv ==
  ASSUME HistoryInv, NEW c \in Collectors, FetchPage(c)
  PROVE  HistoryInv'
<1>1. PICK j : j = job[c]
  OBVIOUS
<1>2. PICK stored : stored = StoredTimes
  OBVIOUS
<1>3. PICK clock : clock = now
  OBVIOUS
<1>4. /\ JobInv(j, stored, now) /\ now \in Times /\ j.pc = "fetch" /\ UNCHANGED storeVars
      /\ Between(j, stored, now)
  <2>1. JobInv(j, stored, now) /\ now \in Times /\ j.pc = "fetch" /\ UNCHANGED storeVars
    BY <1>1, <1>2 DEF HistoryInv, FetchPage
  <2>2. Between(j, stored, clock)
    BY <1>3, <2>1, FetchingFacts
  <2> QED BY <1>3, <2>1, <2>2
<1>5. PICK page : page = Page(j.cur, j.to)
  OBVIOUS
<1>6. CASE page = <<>> /\ Moves(c, Broken(j))
  <2>1. j.fetched = {} \/ j.skipped
    BY <1>4, <1>5, <1>6, EmptyPageInv
  <2>2. PICK b : b = Broken(j)
    OBVIOUS
  <2>3. JobInv(b, StoredTimes, now) /\ b.pc # "saving"
    BY <1>2, <1>3, <1>4, <2>1, <2>2, BrokenInv
  <2> QED BY <1>4, <1>6, <2>2, <2>3, QuietCallStep
<1>7. CASE page # <<>> /\ Moves(c, Looped(Received(j, page)))
  BY <1>1, <1>4, <1>5, <1>7, PageInv
<1>8. CASE /\ page # <<>>
           /\ Len(Received(j, page).pending) >= BatchSize
           /\ Moves(c, [Received(j, page) EXCEPT !.pc = "check",
                          !.batch = SubSeq(Received(j, page).pending, 1, BatchSize),
                          !.pending = SubSeq(Received(j, page).pending, BatchSize + 1,
                                             Len(Received(j, page).pending))])
  <2>1. PICK r : r = Received(j, page)
    OBVIOUS
  <2>2. Between(r, stored, now) /\ Begun(r)
    BY <1>4, <1>5, <1>8, <2>1, ReceivedInv
  <2>3. PICK pending \in Seq(Candle) : pending = r.pending
    BY <2>2 DEF Between, Job
  <2>4. PICK batch, rest : batch = SubSeq(pending, 1, BatchSize)
                           /\ rest = SubSeq(pending, BatchSize + 1, Len(pending))
    OBVIOUS
  <2>5. /\ batch \in Seq(Candle) /\ batch # <<>> /\ rest \in Seq(Candle)
        /\ Ranged(pending) = Ranged(batch) \cup Ranged(rest)
    <3>1. BatchSize <= Len(pending)
      BY <1>8, <2>1, <2>3, HistoryFacts, CandlesOfSeq
    <3> QED BY <2>4, <3>1, HistoryFacts, SplitRanged
  <2> DEFINE k == [r EXCEPT !.pc = "check", !.batch = batch, !.pending = rest]
  <2>6. /\ k \in Job /\ k.pc = "check" /\ k.from = r.from /\ k.to = r.to /\ k.cur = r.cur
        /\ k.pending = rest /\ k.batch = batch
        /\ k.fetched = r.fetched /\ k.unsaved = r.unsaved /\ k.skipped = r.skipped
    BY <2>2, <2>5 DEF Between, Job, JobPc
  <2>7. Moves(c, k)
    BY <1>8, <2>1, <2>3, <2>4
  <2> HIDE DEF k
  <2>8. r.batch = <<>> /\ Ranged(<<>>) = {}
    BY <2>2, EmptySeq, RangedFacts DEF Between
  <2>9. JobInv(k, StoredTimes, now)
    BY <1>2, <2>2, <2>3, <2>5, <2>6, <2>8 DEF Between, JobInv, Owned, Kept, Paged, Placed
  <2> QED BY <1>4, <2>6, <2>7, <2>9, QuietCallStep
<1> QED BY <1>1, <1>5, <1>6, <1>7, <1>8 DEF FetchPage

LEMMA RetryInv ==
  ASSUME HistoryInv, NEW c \in Collectors, FetchFails(c) \/ Retry(c)
  PROVE  HistoryInv'
<1>1. PICK j : j = job[c]
  OBVIOUS
<1>2. PICK stored : stored = StoredTimes
  OBVIOUS
<1>3. PICK clock : clock = now
  OBVIOUS
<1>4. /\ JobInv(j, stored, clock) /\ j.pc \in {"fetch", "retry"} /\ UNCHANGED storeVars
      /\ Between(j, stored, clock) /\ Begun(j) /\ j \in Job
  <2>1. JobInv(j, stored, clock) /\ j.pc \in {"fetch", "retry"} /\ UNCHANGED storeVars
    BY <1>1, <1>2, <1>3 DEF HistoryInv, FetchFails, Retry
  <2> QED BY <2>1, FetchingFacts DEF Between
<1>5. CASE FetchFails(c)
  <2> DEFINE k == [j EXCEPT !.pc = "retry"]
  <2>1. /\ k \in Job /\ k.pc = "retry" /\ k.from = j.from /\ k.to = j.to /\ k.cur = j.cur
        /\ k.pending = j.pending /\ k.batch = j.batch
        /\ k.fetched = j.fetched /\ k.unsaved = j.unsaved /\ k.skipped = j.skipped
    BY <1>4 DEF Job, JobPc
  <2>2. Moves(c, k)
    BY <1>1, <1>5 DEF FetchFails
  <2> HIDE DEF k
  <2>3. JobInv(k, StoredTimes, now)
    BY <1>2, <1>3, <1>4, <2>1 DEF JobInv, Owned, Kept, Paged, Placed, Begun
  <2> QED BY <1>4, <2>1, <2>2, <2>3, QuietCallStep
<1>6. CASE Retry(c)
  <2>1. PICK page : page = Page(j.cur, j.to)
    OBVIOUS
  <2>2. CASE page # <<>> /\ Moves(c, Looped(Received(j, page)))
    BY <1>1, <1>4, <2>1, <2>2, PageInv
  <2>3. CASE j.tries + 1 < MaxRetries /\ Moves(c, [j EXCEPT !.tries = @ + 1])
    <3> DEFINE k == [j EXCEPT !.tries = j.tries + 1]
    <3>1. j.tries + 1 \in 0..(MaxRetries - 1)
      BY <1>4, <2>3, HistoryFacts DEF Job
    <3>2. /\ k \in Job /\ k.pc = j.pc /\ k.from = j.from /\ k.to = j.to /\ k.cur = j.cur
          /\ k.pending = j.pending /\ k.batch = j.batch
          /\ k.fetched = j.fetched /\ k.unsaved = j.unsaved /\ k.skipped = j.skipped
      BY <1>4, <3>1 DEF Job
    <3>3. Moves(c, k)
      BY <2>3
    <3> HIDE DEF k
    <3>4. JobInv(k, StoredTimes, now)
      BY <1>2, <1>3, <1>4, <3>2 DEF JobInv, Owned, Kept, Paged, Placed, Begun
    <3> QED BY <1>4, <3>2, <3>3, <3>4, QuietCallStep
  <2>4. CASE Moves(c, Looped([j EXCEPT !.cur = @ + PageSize, !.tries = 0, !.skipped = TRUE]))
    <3> DEFINE k == [j EXCEPT !.cur = j.cur + PageSize, !.tries = 0, !.skipped = TRUE]
    <3>1. 0 \in 0..(MaxRetries - 1) /\ j.cur + PageSize \in Int
      BY <1>4, HistoryFacts DEF Job
    <3>2. /\ k \in Job /\ k.to = j.to
          /\ k.pending = j.pending /\ k.batch = j.batch
          /\ k.fetched = j.fetched /\ k.unsaved = j.unsaved /\ k.skipped = TRUE
      BY <1>4, <3>1 DEF Job
    <3>3. Moves(c, Looped(k))
      BY <2>4
    <3> HIDE DEF k
    <3>4. Between(k, stored, clock) /\ Begun(k)
      BY <1>4, <3>2 DEF Between, Owned, Kept, Paged, Begun
    <3>5. PICK l : l = Looped(k)
      OBVIOUS
    <3>6. JobInv(l, StoredTimes, now) /\ l.pc # "saving"
      BY <1>2, <1>3, <3>4, <3>5, LoopedInv
    <3> QED BY <1>4, <3>3, <3>5, <3>6, QuietCallStep
  <2> QED BY <1>1, <1>6, <2>1, <2>2, <2>3, <2>4 DEF Retry
<1> QED BY <1>5, <1>6

LEMMA CheckCandleInv ==
  ASSUME HistoryInv, NEW c \in Collectors, CheckCandle(c)
  PROVE  HistoryInv'
<1>1. PICK j : j = job[c]
  OBVIOUS
<1>2. PICK stored : stored = StoredTimes
  OBVIOUS
<1>3. PICK clock : clock = now
  OBVIOUS
<1>4. /\ JobInv(j, stored, clock) /\ j.pc = "check" /\ j \in Job
      /\ j.batch \in Seq(Candle) /\ j.batch # <<>>
  BY <1>1, <1>2, <1>3 DEF HistoryInv, CheckCandle, JobInv, Placed, Job
<1>5. PICK candle \in Candle : candle = Head(j.batch)
  BY <1>4, RangedFacts
<1>6. candle.t \in Times /\ c \in Savers
  BY HistoryFacts DEF Candle
<1>7. CASE row[candle.t] # Absent /\ Moves(c, NextOfBatch(j)) /\ UNCHANGED storeVars
  <2>1. Head(j.batch).t \in stored
    BY <1>2, <1>5, <1>6, <1>7 DEF StoredTimes
  <2>2. PICK k : k = NextOfBatch(j)
    OBVIOUS
  <2>3. JobInv(k, StoredTimes, now) /\ k.pc # "saving"
    BY <1>2, <1>3, <1>4, <2>1, <2>2, NextOfBatchInv
  <2> QED BY <1>7, <2>2, <2>3, QuietCallStep
<1>8. CASE /\ Moves(c, [j EXCEPT !.pc = "saving"])
           /\ save' = [save EXCEPT ![c] = SaveOf(candle)]
           /\ row' = row
  <2> DEFINE k == [j EXCEPT !.pc = "saving"]
  <2>1. /\ k \in Job /\ k.pc = "saving" /\ k.from = j.from /\ k.to = j.to /\ k.cur = j.cur
        /\ k.pending = j.pending /\ k.batch = j.batch
        /\ k.fetched = j.fetched /\ k.unsaved = j.unsaved /\ k.skipped = j.skipped
    BY <1>4 DEF Job, JobPc
  <2>2. job' = [job EXCEPT ![c] = k] /\ now' = now
    BY <1>8 DEF Moves
  <2> HIDE DEF k
  <2>3. JobInv(k, stored, clock)
    BY <1>4, <2>1 DEF JobInv, Owned, Kept, Paged, Placed
  <2>4. SaveOf(candle) \in Save /\ SaveOf(candle).t = candle.t /\ SaveOf(candle).pc = "find"
    BY DEF SaveOf, Save, SavePc, Candle
  <2>5. /\ save' \in [Savers -> Save] /\ save'[c] = SaveOf(candle)
        /\ \A d \in Collectors \ {c} : save'[d] = save[d]
    BY <1>6, <1>8, <2>4, HistoryFacts DEF HistoryInv, StoreTypeOK
  <2>6. StoreTypeOK' /\ RowsGrow /\ StoredTimes' = StoredTimes
    BY <1>8, <2>5 DEF HistoryInv, StoreTypeOK, RowsGrow, StoredTimes
  <2>7. JobInv(k, StoredTimes', now)
    BY <1>2, <1>3, <2>3, <2>6
  <2> QED BY <1>5, <2>1, <2>2, <2>4, <2>5, <2>6, <2>7, CallStep
<1> QED BY <1>1, <1>5, <1>7, <1>8 DEF CheckCandle

LEMMA CandleSavedInv ==
  ASSUME HistoryInv, NEW c \in Collectors, CandleSaved(c)
  PROVE  HistoryInv'
<1>1. PICK j : j = job[c]
  OBVIOUS
<1>2. PICK stored : stored = StoredTimes
  OBVIOUS
<1>3. PICK clock : clock = now
  OBVIOUS
<1>4. /\ JobInv(j, stored, clock) /\ SavingInv(c) /\ j.pc = "saving" /\ j \in Job
      /\ j.batch \in Seq(Candle) /\ j.batch # <<>>
      /\ save[c].pc \in {"returned", "thrown"}
      /\ save' = [save EXCEPT ![c] = NoSave] /\ row' = row
      /\ save[c].t = Head(j.batch).t
  BY <1>1, <1>2, <1>3 DEF HistoryInv, CandleSaved, JobInv, Placed, Job, SavingInv
<1>5. Head(j.batch).t \in j.fetched /\ Head(j.batch).t \in Times
  <2>1. Ranged(j.batch) \subseteq j.fetched /\ Head(j.batch) \in Candle
        /\ Head(j.batch).t \in Ranged(j.batch)
    BY <1>4, RangedFacts DEF JobInv, Owned
  <2> QED BY <2>1 DEF Candle
<1> DEFINE k == [j EXCEPT !.unsaved = j.unsaved \cup {save[c].t}]
<1>6. PICK u : u = k
  OBVIOUS
<1>7. /\ u \in Job /\ u.pc = "saving" /\ u.from = j.from /\ u.to = j.to /\ u.cur = j.cur
      /\ u.pending = j.pending /\ u.batch = j.batch
      /\ u.fetched = j.fetched /\ u.unsaved = j.unsaved \cup {save[c].t} /\ u.skipped = j.skipped
  BY <1>4, <1>5, <1>6 DEF Job
<1>8. JobInv(u, stored, clock)
  BY <1>4, <1>5, <1>7 DEF JobInv, Owned, Kept, Paged, Placed
<1>9. /\ save' \in [Savers -> Save]
      /\ \A d \in Collectors \ {c} : save'[d] = save[d]
  <2>1. NoSave \in Save
    BY HistoryFacts, StoreAssumption DEF NoSave, Save, SavePc, Times
  <2> QED BY <1>4, <2>1, HistoryFacts DEF HistoryInv, StoreTypeOK
<1>10. StoreTypeOK' /\ RowsGrow /\ StoredTimes' = StoredTimes
  BY <1>4, <1>9 DEF HistoryInv, StoreTypeOK, RowsGrow, StoredTimes
<1>11. ASSUME NEW m, JobInv(m, stored, clock), m.pc # "saving", Moves(c, m)
       PROVE  HistoryInv'
  <2>1. job' = [job EXCEPT ![c] = m] /\ now' = now /\ JobInv(m, StoredTimes', now)
    BY <1>2, <1>3, <1>10, <1>11 DEF Moves
  <2> QED BY <1>9, <1>10, <1>11, <2>1, CallStep
<1>12. CASE save[c].pc = "returned" /\ Moves(c, NextOfBatch(j))
  <2>1. Head(j.batch).t \in stored
    <3>1. row[save[c].t] # Absent
      BY <1>1, <1>4, <1>12 DEF SavingInv
    <3> QED BY <1>2, <1>4, <1>5, <3>1 DEF StoredTimes
  <2>2. PICK m : m = NextOfBatch(j)
    OBVIOUS
  <2>3. JobInv(m, stored, clock) /\ m.pc # "saving"
    BY <1>4, <2>1, <2>2, NextOfBatchInv
  <2> QED BY <1>11, <1>12, <2>2, <2>3
<1>13. CASE Moves(c, NextOfBatch(u))
  <2>1. Head(u.batch).t \in u.unsaved
    BY <1>4, <1>7
  <2>2. PICK m : m = NextOfBatch(u)
    OBVIOUS
  <2>3. JobInv(m, stored, clock) /\ m.pc # "saving"
    BY <1>7, <1>8, <2>1, <2>2, NextOfBatchInv
  <2> QED BY <1>11, <1>13, <2>2, <2>3
<1> HIDE DEF k
<1>14. CASE save[c].pc = "returned"
  <2>1. Moves(c, NextOfBatch(j))
    BY <1>1, <1>14 DEF CandleSaved
  <2> QED BY <1>12, <1>14, <2>1
<1>15. CASE save[c].pc # "returned"
  <2>1. Moves(c, NextOfBatch(u))
    BY <1>1, <1>6, <1>15 DEF CandleSaved, k
  <2> QED BY <1>13, <2>1
<1> QED BY <1>14, <1>15

LEMMA SaveCandleInv ==
  ASSUME HistoryInv, NEW c \in Collectors, SaveCandle(c)
  PROVE  HistoryInv'
<1>1. c \in Savers /\ SaveStep(c) /\ now' = now /\ job' = job
  BY HistoryFacts DEF SaveCandle
<1>2. StoreTypeOK' /\ StepOfSave(c)
  BY <1>1, SaveStepEffect DEF HistoryInv
<1>3. RowsGrow
  <2>1. \A t \in Times : row[t] # Absent => row'[t] # Absent
    BY <1>1, <1>2, RowsRemain DEF HistoryInv
  <2> QED BY <2>1 DEF RowsGrow, StoredTimes
<1>4. /\ now' \in Times /\ now <= now' /\ job' \in [Collectors -> Job]
  BY <1>1, HistoryFacts DEF HistoryInv
<1>5. ASSUME NEW d \in Collectors, d # c
      PROVE  JobInv(job[d], StoredTimes, now)' /\ SavingInv(d)'
  <2>1. save'[d] = save[d] /\ job'[d] = job[d]
    BY <1>1, <1>2, <1>5, HistoryFacts DEF StepOfSave
  <2> QED BY <1>2, <1>3, <1>4, <2>1, OthersStep
<1>6. JobInv(job[c], StoredTimes, now)'
  <2>1. PICK j : j = job[c]
    OBVIOUS
  <2>2. PICK s : s = StoredTimes
    OBVIOUS
  <2>3. PICK u : u = StoredTimes'
    OBVIOUS
  <2>4. PICK clock \in Int : clock = now
    BY HistoryFacts DEF HistoryInv
  <2>5. JobInv(j, s, clock)
    BY <2>1, <2>2, <2>4 DEF HistoryInv
  <2>6. JobInv(j, u, clock)
    BY <1>3, <2>2, <2>3, <2>4, <2>5, JobInvStays DEF RowsGrow
  <2> QED BY <1>1, <2>1, <2>3, <2>4, <2>6
<1>7. SavingInv(c)'
  BY <1>1, <1>2 DEF HistoryInv, SavingInv, StepOfSave
<1> QED BY <1>2, <1>4, <1>5, <1>6, <1>7 DEF HistoryInv

(* The calls that were running are gone, with their saves.                 *)
LEMMA CallsEndInv ==
  ASSUME HistoryInv, CallsEnd, NoSavesLeft, row' = row, now' = now
  PROVE  HistoryInv'
<1>1. StoreTypeOK' /\ StoredTimes' = StoredTimes /\ now' \in Times
  <2>1. NoSave \in Save
    BY StoreAssumption DEF NoSave, Save, SavePc, Times
  <2> QED BY <2>1 DEF HistoryInv, StoreTypeOK, NoSavesLeft, StoredTimes
<1>2. PICK k : k = [NoJob EXCEPT !.pc = "killed"]
  OBVIOUS
<1>3. PICK stored, clock : stored = StoredTimes /\ clock = now
  OBVIOUS
<1>4. clock \in Times
  BY <1>3 DEF HistoryInv
<1>5. JobInv(k, stored, clock) /\ k.pc = "killed"
  <2>1. /\ k.pc = "killed" /\ k.to = 0 /\ k.batch = <<>> /\ k.pending = <<>>
        /\ k.fetched = {} /\ k.unsaved = {}
    BY <1>2 DEF NoJob
  <2>2. 0 \in 0..NumCandles /\ 0 \in 0..(MaxRetries - 1) /\ <<>> \in Seq(Candle)
    <3>1. <<>> \in Seq(Candle)
      BY EmptySeq
    <3> QED BY <3>1, HistoryFacts
  <2>3. k \in Job
    <3>1. k = [pc |-> "killed", first |-> 0, from |-> 0, to |-> 0, cur |-> 0,
               tries |-> 0, last |-> 0, pending |-> <<>>, batch |-> <<>>,
               fetched |-> {}, unsaved |-> {}, skipped |-> FALSE]
      BY <1>2 DEF NoJob
    <3>2. "killed" \in JobPc
      BY DEF JobPc
    <3> QED BY <2>2, <3>1, <3>2 DEF Job
  <2>4. Ranged(<<>>) = {}
    BY EmptySeq, RangedFacts
  <2>5. 0 <= clock
    BY <1>4, HistoryFacts
  <2> QED BY <2>1, <2>3, <2>4, <2>5 DEF JobInv, Owned, Kept, Paged, Placed
<1>6. ASSUME NEW c \in Collectors
      PROVE  job'[c] \in Job /\ JobInv(job'[c], stored, clock) /\ job'[c].pc # "saving"
  <2>1. CASE c \in Active
    BY <1>2, <1>5, <1>6, <2>1 DEF CallsEnd, JobInv
  <2>2. CASE c \notin Active
    <3>1. job'[c] = job[c] /\ job[c].pc \in {"none", "done", "killed"}
      BY <1>6, <2>2 DEF CallsEnd, Active
    <3> QED BY <1>3, <1>6, <3>1 DEF HistoryInv, JobInv
  <2> QED BY <2>1, <2>2
<1>7. job' \in [Collectors -> Job]
  BY <1>6 DEF CallsEnd
<1>8. \A c \in Collectors : JobInv(job[c], StoredTimes, now)' /\ SavingInv(c)'
  BY <1>1, <1>3, <1>6 DEF SavingInv
<1> QED BY <1>1, <1>7, <1>8 DEF HistoryInv

LEMMA CallStepsInv ==
  ASSUME HistoryInv, NEW c \in Collectors, Collect(c) \/ Progress(c)
  PROVE  HistoryInv'
BY CollectInv, FindLastInv, FindFirstInv, FetchPageInv, RetryInv, CheckCandleInv,
   SaveCandleInv, CandleSavedInv DEF Progress

LEMMA NextHistoryInv == HistoryInv /\ [HistoryNext]_historyVars => HistoryInv'
<1> SUFFICES ASSUME HistoryInv, [HistoryNext]_historyVars PROVE HistoryInv'
  OBVIOUS
<1>1. CASE Tick
  BY <1>1, TickInv
<1>2. CASE Kill
  BY <1>2, CallsEndInv DEF Kill
<1>3. ASSUME NEW c \in Collectors, Collect(c) \/ Progress(c) PROVE HistoryInv'
  BY <1>3, CallStepsInv
<1>4. CASE UNCHANGED historyVars
  BY <1>4 DEF historyVars, storeVars, HistoryInv, StoreTypeOK, StoredTimes, SavingInv
<1> QED BY <1>1, <1>2, <1>3, <1>4 DEF HistoryNext

LEMMA HistoryKeepsInv == HistorySpec => []HistoryInv
BY HistoryStarts, NextHistoryInv, PTL DEF HistorySpec

-----------------------------------------------------------------------------
(* What the calls promise follows from the invariant.                      *)
LEMMA HistoryPromises ==
  HistoryInv => HistoryTypeOK /\ NothingFetchedIsDropped /\ PagesMeet
<1> SUFFICES ASSUME HistoryInv PROVE HistoryTypeOK /\ NothingFetchedIsDropped /\ PagesMeet
  OBVIOUS
<1>1. ASSUME NEW c \in Collectors
      PROVE  /\ job[c] \in Job /\ Owned(job[c]) /\ Kept(job[c], StoredTimes)
             /\ Paged(job[c], now) /\ Placed(job[c])
  BY <1>1 DEF HistoryInv, JobInv
<1>2. HistoryTypeOK
  BY <1>1 DEF HistoryInv, HistoryTypeOK, Owned, Placed, Job
<1>3. NothingFetchedIsDropped
  BY <1>1 DEF NothingFetchedIsDropped, Kept, StoredTimes
<1>4. PagesMeet
  <2> SUFFICES ASSUME NEW c \in Collectors, job[c].pc = "done", ~job[c].skipped,
                      job[c].fetched # {}
               PROVE  job[c].fetched = {t \in Times : Listed <= t /\ job[c].from <= t
                                                       /\ t <= job[c].to}
    BY DEF PagesMeet
  <2>1. /\ job[c].fetched = {t \in Times : Listed <= t /\ job[c].from <= t /\ t < job[c].cur}
        /\ job[c].cur <= job[c].to + 1 /\ job[c].cur > job[c].to
        /\ job[c].cur \in Int /\ job[c].to \in Int
    BY <1>1, HistoryFacts DEF Paged, Placed, Job
  <2>2. \A t \in Times : t < job[c].cur <=> t <= job[c].to
    BY <2>1, HistoryFacts
  <2> QED BY <2>1, <2>2
<1> QED BY <1>2, <1>3, <1>4

(* The locals of every call keep their types, and a batch is what the loop *)
(* handed over or the rest of it.                                          *)
THEOREM HistoryIsTyped == HistorySpec => []HistoryTypeOK
BY HistoryKeepsInv, HistoryPromises, PTL

(* For any number of calls, pages and batches: a candle a call fetched is  *)
(* pending, in the batch, in the table, or its save threw.                 *)
THEOREM NothingIsEverDropped == HistorySpec => []NothingFetchedIsDropped
BY HistoryKeepsInv, HistoryPromises, PTL

(* The pages of a call that gave none up meet without a hole or an overlap *)
(* and reach its end, for every size of page, batch and window.            *)
THEOREM PagesAlwaysMeet == HistorySpec => []PagesMeet
BY HistoryKeepsInv, HistoryPromises, PTL

-----------------------------------------------------------------------------
(* The stream and the calls over one table.                                *)

(* The save a handler awaits is of its own candle; what it returned, or    *)
(* what was announced, has a row, be it the collector's.                   *)
HeldInv(h) ==
  /\ handler[h].pc = "saving" =>
       /\ save[h].t = KlineOf(h).t
       /\ save[h].pc = "returned" => row[KlineOf(h).t] # Absent
  /\ handler[h].pc = "announced" => row[KlineOf(h).t] # Absent

SystemInv == IngestionTypeOK /\ HistoryInv /\ \A h \in Handlers : HeldInv(h)

(* What the calls must not see of a step of the stream, and conversely.    *)
LeavesAlone(savers) == RowsGrow /\ \A s \in savers : save'[s] = save[s]

LEMMA SystemStarts == SystemInit => SystemInv
<1> SUFFICES ASSUME SystemInit PROVE SystemInv
  OBVIOUS
<1>1. IngestionTypeOK
  BY IngestionStarts DEF SystemInit, IngestionInv
<1>2. HistoryInv
  BY HistoryStarts DEF SystemInit, EmptyStart, Init
<1>3. \A h \in Handlers : HeldInv(h)
  BY DEF SystemInit, Init, At, HeldInv
<1> QED BY <1>1, <1>2, <1>3 DEF SystemInv

(* A handler whose save and state did not move.                            *)
LEMMA HeldStays ==
  ASSUME RowsGrow, NEW h \in Handlers, HeldInv(h), handler'[h] = handler[h], save'[h] = save[h]
  PROVE  HeldInv(h)'
<1>1. \A t \in Times : row[t] # Absent => row'[t] # Absent
  BY DEF RowsGrow, StoredTimes
<1> QED BY <1>1, HandlerFacts DEF HeldInv

LEMMA ProceedTypes ==
  ASSUME IngestionTypeOK, NEW hs \in SUBSET Handlers, NEW candle \in Candle, NEW isNew \in BOOLEAN,
         \A h \in hs : KlineOf(h) = candle,
         Proceed(hs, candle, isNew)
  PROVE  /\ handler' \in [Handlers -> [pc: HandlerPc, isNew: BOOLEAN]]
         /\ save' \in [Savers -> Save]
         /\ \A s \in Savers \ hs : save'[s] = save[s]
         /\ \A h \in Handlers \ hs : handler'[h] = handler[h]
         /\ \A h \in hs : /\ handler'[h].pc \in {"saving", "none"}
                          /\ handler'[h].pc = "saving" =>
                               save'[h].t = KlineOf(h).t /\ save'[h].pc = "find"
<1> DEFINE mine == IF candle.v = Final THEN [pc |-> "saving", isNew |-> isNew] ELSE At("none")
<1>1. /\ handler' = [h \in Handlers |-> IF h \notin hs THEN handler[h] ELSE mine]
      /\ save' = [s \in Savers |-> IF s \in hs /\ candle.v = Final THEN SaveOf(candle) ELSE save[s]]
  BY DEF Proceed
<1>2. /\ mine \in [pc: HandlerPc, isNew: BOOLEAN] /\ SaveOf(candle) \in Save
      /\ SaveOf(candle).t = candle.t /\ SaveOf(candle).pc = "find"
      /\ mine.pc \in {"saving", "none"} /\ (mine.pc = "saving" => candle.v = Final)
  BY DEF HandlerPc, At, SaveOf, Save, SavePc, Candle
<1> HIDE DEF mine
<1>3. \A h \in hs : h \in Handlers /\ h \in Savers
  BY HandlerFacts
<1> QED BY <1>1, <1>2, <1>3 DEF IngestionTypeOK, StoreTypeOK

LEMMA DeliverTypes ==
  ASSUME IngestionTypeOK, NEW w \in Sockets, Deliver(w),
         \A h \in Handlers : HeldInv(h)
  PROVE  /\ IngestionTypeOK' /\ LeavesAlone(Savers \ Handlers)
         /\ \A h \in Handlers : HeldInv(h)'
<1> USE DEF serviceVars
<1>1. PICK k \in Messages : k = cursor[w] + 1
  BY StoreAssumption DEF Deliver, IngestionTypeOK, Messages
<1> DEFINE candle == Kline(k)
           hs == {<<w, k, l>> : l \in 1..listeners}
<1>2. /\ cursor' = [cursor EXCEPT ![w] = k]
      /\ memory' = Remember(memory, candle)
      /\ UNCHANGED <<row, latest, listeners, monitored, loader, restarts>>
      /\ \/ /\ NeedsRow(candle)
            /\ handler' = [h \in Handlers |->
                 IF h \in hs THEN [pc |-> "find", isNew |-> candle.v = Final /\ IsNewCandle(candle)]
                 ELSE handler[h]]
            /\ UNCHANGED save
         \/ ~NeedsRow(candle) /\ Proceed(hs, candle, IsNewCandle(candle))
  BY <1>1 DEF Deliver
<1>3. hs \in SUBSET Handlers /\ \A h \in hs : KlineOf(h) = candle
  <2>1. 1..listeners \subseteq 1..MaxListeners
    BY IngestionAssumption DEF IngestionTypeOK
  <2> QED BY <2>1 DEF Handlers, KlineOf
<1>4. candle \in Candle
  BY KlineFacts
<1>5. PICK isNew \in BOOLEAN : isNew = IsNewCandle(candle)
  BY DEF IsNewCandle
<1> HIDE DEF candle, hs
<1>6. cursor' \in [Sockets -> 0..(2 * NumCandles)]
  BY <1>1, <1>2, StoreAssumption DEF IngestionTypeOK, Messages
<1>7. memory' \in Seq(Candle) /\ Len(memory') <= MaxMemory
  <2>1. PICK m \in Seq(Candle) : m = memory /\ Len(m) <= MaxMemory
    BY DEF IngestionTypeOK
  <2> QED BY <2>1, <1>2, <1>4, RememberFacts
<1>8. RowsGrow
  BY <1>2 DEF RowsGrow, StoredTimes
<1>9. ASSUME handler' \in [Handlers -> [pc: HandlerPc, isNew: BOOLEAN]], save' \in [Savers -> Save]
      PROVE  IngestionTypeOK'
  BY <1>2, <1>6, <1>7, <1>9 DEF IngestionTypeOK, StoreTypeOK
<1>10. CASE Proceed(hs, candle, isNew)
  <2>1. /\ handler' \in [Handlers -> [pc: HandlerPc, isNew: BOOLEAN]]
        /\ save' \in [Savers -> Save]
        /\ \A s \in Savers \ hs : save'[s] = save[s]
        /\ \A h \in Handlers \ hs : handler'[h] = handler[h]
        /\ \A h \in hs : /\ handler'[h].pc \in {"saving", "none"}
                         /\ handler'[h].pc = "saving" =>
                              save'[h].t = KlineOf(h).t /\ save'[h].pc = "find"
    <3>1. PICK c \in Candle, H \in SUBSET Handlers : c = candle /\ H = hs
      BY <1>3, <1>4
    <3> QED BY <3>1, <1>3, <1>10, ProceedTypes
  <2>2. LeavesAlone(Savers \ Handlers)
    BY <1>3, <1>8, <2>1 DEF LeavesAlone
  <2>3. ASSUME NEW h \in Handlers PROVE HeldInv(h)'
    <3>1. CASE h \in hs
      BY <2>1, <3>1 DEF HeldInv
    <3>2. CASE h \notin hs
      BY <1>8, <2>1, <3>2, HandlerFacts, HeldStays
    <3> QED BY <3>1, <3>2
  <2> QED BY <1>9, <2>1, <2>2, <2>3
<1>11. CASE /\ handler' = [h \in Handlers |->
                 IF h \in hs THEN [pc |-> "find", isNew |-> candle.v = Final /\ isNew]
                 ELSE handler[h]]
            /\ UNCHANGED save
  <2> DEFINE mine == [pc |-> "find", isNew |-> candle.v = Final /\ isNew]
  <2>1. mine \in [pc: HandlerPc, isNew: BOOLEAN] /\ mine.pc = "find"
    <3>1. (candle.v = Final /\ isNew) \in BOOLEAN
      OBVIOUS
    <3> QED BY <3>1 DEF HandlerPc
  <2>2. handler' = [h \in Handlers |-> IF h \in hs THEN mine ELSE handler[h]]
    BY <1>11
  <2> HIDE DEF mine
  <2>3. handler' \in [Handlers -> [pc: HandlerPc, isNew: BOOLEAN]]
    BY <2>1, <2>2 DEF IngestionTypeOK
  <2>4. save' \in [Savers -> Save]
    BY <1>11 DEF IngestionTypeOK, StoreTypeOK
  <2>5. LeavesAlone(Savers \ Handlers)
    BY <1>8, <1>11 DEF LeavesAlone
  <2>6. ASSUME NEW h \in Handlers PROVE HeldInv(h)'
    <3>1. CASE h \in hs
      BY <2>1, <2>2, <3>1 DEF HeldInv
    <3>2. CASE h \notin hs
      BY <1>8, <1>11, <2>2, <3>2, HeldStays
    <3> QED BY <3>1, <3>2
  <2> QED BY <1>9, <2>3, <2>4, <2>5, <2>6
<1> QED BY <1>2, <1>5, <1>10, <1>11

LEMMA AnswerTypes ==
  ASSUME IngestionTypeOK, NEW h \in Handlers, Answer(h),
         \A g \in Handlers : HeldInv(g)
  PROVE  /\ IngestionTypeOK' /\ LeavesAlone(Savers \ Handlers)
         /\ \A g \in Handlers : HeldInv(g)'
<1> USE DEF serviceVars, cacheVars
<1>0. h \in Savers
  BY HandlerFacts
<1>1. ASSUME NEW found \in BOOLEAN, LatestRead(h, found)
      PROVE  /\ IngestionTypeOK' /\ LeavesAlone(Savers \ Handlers)
             /\ \A g \in Handlers : HeldInv(g)'
  <2>1. /\ latest' = IF found THEN KlineOf(h).t ELSE latest
        /\ Proceed({h}, KlineOf(h), handler[h].isNew)
        /\ UNCHANGED <<row, cursor, memory, listeners, monitored, loader, restarts>>
    BY <1>1 DEF LatestRead
  <2>2. PICK candle \in Candle, isNew \in BOOLEAN, H \in SUBSET Handlers :
          candle = KlineOf(h) /\ isNew = handler[h].isNew /\ H = {h}
    BY HandlerFacts DEF IngestionTypeOK
  <2>3. /\ handler' \in [Handlers -> [pc: HandlerPc, isNew: BOOLEAN]]
        /\ save' \in [Savers -> Save]
        /\ \A s \in Savers \ H : save'[s] = save[s]
        /\ \A g \in Handlers \ H : handler'[g] = handler[g]
        /\ \A g \in H : /\ handler'[g].pc \in {"saving", "none"}
                        /\ handler'[g].pc = "saving" =>
                             save'[g].t = KlineOf(g).t /\ save'[g].pc = "find"
    <3>1. Proceed(H, candle, isNew) /\ \A g \in H : KlineOf(g) = candle
      BY <2>1, <2>2
    <3> QED BY <3>1, ProceedTypes
  <2>4. RowsGrow
    BY <2>1 DEF RowsGrow, StoredTimes
  <2>5. latest' \in 0..NumCandles
    BY <2>1, HandlerFacts DEF IngestionTypeOK
  <2>6. IngestionTypeOK'
    BY <2>1, <2>3, <2>5 DEF IngestionTypeOK, StoreTypeOK
  <2>7. ASSUME NEW g \in Handlers PROVE HeldInv(g)'
    <3>1. CASE g = h
      BY <2>2, <2>3, <3>1 DEF HeldInv
    <3>2. CASE g # h
      BY <2>2, <2>3, <2>4, <3>2, HandlerFacts, HeldStays
    <3> QED BY <3>1, <3>2
  <2>8. LeavesAlone(Savers \ Handlers)
    BY <2>2, <2>3, <2>4 DEF LeavesAlone
  <2> QED BY <2>6, <2>7, <2>8
<1>2. CASE Store(h)
  <2>1. /\ SaveStep(h)
        /\ UNCHANGED <<cursor, memory, latest, listeners, monitored, loader, handler, restarts>>
    BY <1>2 DEF Store
  <2>2. StoreTypeOK /\ StoreTypeOK' /\ StepOfSave(h)
    BY <1>0, <2>1, SaveStepEffect DEF IngestionTypeOK
  <2>3. IngestionTypeOK'
    BY <2>1, <2>2 DEF IngestionTypeOK
  <2>4. \A t \in Times : row[t] # Absent => row'[t] # Absent
    BY <1>0, <2>2, RowsRemain
  <2>5. RowsGrow
    BY <2>4 DEF RowsGrow, StoredTimes
  <2>6. LeavesAlone(Savers \ Handlers)
    BY <2>2, <2>5 DEF LeavesAlone, StepOfSave
  <2>7. ASSUME NEW g \in Handlers PROVE HeldInv(g)'
    <3>1. CASE g = h
      <4>1. HeldInv(h) /\ KlineOf(h).t \in Times
        BY HandlerFacts
      <4> QED BY <2>1, <2>2, <2>4, <3>1, <4>1 DEF HeldInv, StepOfSave
    <3>2. CASE g # h
      BY <2>1, <2>2, <2>5, <3>2, HandlerFacts, HeldStays DEF StepOfSave
    <3> QED BY <3>1, <3>2
  <2> QED BY <2>3, <2>6, <2>7
<1>3. CASE Announce(h)
  <2>1. /\ handler[h].pc = "saving"
        /\ save' = [save EXCEPT ![h] = NoSave]
        /\ UNCHANGED <<row, cursor, memory, latest, listeners, monitored, loader, restarts>>
    BY <1>3 DEF Announce
  <2>2. PICK pc \in {"announced", "quiet", "failed"} :
          /\ handler' = [handler EXCEPT ![h] = At(pc)]
          /\ pc = "announced" => save[h].pc = "returned"
    BY <1>3 DEF Announce
  <2>3. handler' \in [Handlers -> [pc: HandlerPc, isNew: BOOLEAN]]
        /\ handler'[h].pc = pc
        /\ \A g \in Handlers \ {h} : handler'[g] = handler[g]
    BY <2>2 DEF IngestionTypeOK, At, HandlerPc
  <2>4. save' \in [Savers -> Save] /\ \A s \in Savers \ {h} : save'[s] = save[s]
    <3>1. NoSave \in Save
      BY StoreAssumption DEF NoSave, Save, SavePc, Times
    <3> QED BY <2>1, <3>1 DEF IngestionTypeOK, StoreTypeOK
  <2>5. IngestionTypeOK'
    BY <2>1, <2>3, <2>4 DEF IngestionTypeOK, StoreTypeOK
  <2>6. RowsGrow
    BY <2>1 DEF RowsGrow, StoredTimes
  <2>7. LeavesAlone(Savers \ Handlers)
    BY <2>4, <2>6 DEF LeavesAlone
  <2>8. ASSUME NEW g \in Handlers PROVE HeldInv(g)'
    <3>1. CASE g = h
      <4>1. HeldInv(h)
        OBVIOUS
      <4> QED BY <2>1, <2>2, <2>3, <3>1, <4>1 DEF HeldInv
    <3>2. CASE g # h
      BY <2>3, <2>4, <2>6, <3>2, HandlerFacts, HeldStays
    <3> QED BY <3>1, <3>2
  <2> QED BY <2>5, <2>7, <2>8
<1>4. PICK found \in BOOLEAN : found = (row[KlineOf(h).t] # Absent)
  OBVIOUS
<1> QED BY <1>1, <1>2, <1>3, <1>4 DEF Answer, ReadLatest, ReadLatestFails

LEMMA SubscriptionTypes ==
  ASSUME IngestionTypeOK,
         UnsubscribeSymbol \/ SubscribeSymbol \/ LoadRows \/ LoadLatest \/ LoadFails
  PROVE  IngestionTypeOK' /\ UNCHANGED <<row, save, handler>>
<1> USE DEF storeVars, cacheVars
<1>0. UNCHANGED <<row, save, cursor, handler>>
  BY DEF UnsubscribeSymbol, SubscribeSymbol, LoadRows, LoadLatest, LoadFails
<1>1. Idle \in [pc: LoaderPc, t: 0..NumCandles] /\ 0 \in 0..NumCandles
      /\ \A t \in 0..NumCandles : /\ [pc |-> "rows", t |-> t] \in [pc: LoaderPc, t: 0..NumCandles]
                                  /\ [pc |-> "latest", t |-> t] \in [pc: LoaderPc, t: 0..NumCandles]
  BY StoreAssumption DEF Idle, LoaderPc
<1>2. CASE UnsubscribeSymbol
  <2>1. memory' \in Seq(Candle) /\ Len(memory') <= MaxMemory
    BY <1>2, EmptySeq, IngestionAssumption DEF UnsubscribeSymbol
  <2> QED BY <1>0, <1>1, <1>2, <2>1 DEF UnsubscribeSymbol, IngestionTypeOK, StoreTypeOK
<1>3. CASE SubscribeSymbol
  <2>1. listeners' \in 1..MaxListeners
    BY <1>3, IngestionAssumption DEF SubscribeSymbol, IngestionTypeOK
  <2>2. loader' \in [pc: LoaderPc, t: 0..NumCandles]
    BY <1>1, <1>3 DEF SubscribeSymbol
  <2> QED BY <1>0, <1>3, <2>1, <2>2 DEF SubscribeSymbol, IngestionTypeOK, StoreTypeOK
<1>4. CASE LoadRows
  <2>1. PICK rows \in LatestRows(MaxMemory) :
          \/ rows = <<>> /\ loader' = Idle /\ memory' = memory
          \/ /\ rows # <<>> /\ memory' = rows
             /\ loader' = [pc |-> "latest", t |-> LastOf(rows).t]
    BY <1>4 DEF LoadRows
  <2>2. rows \in Seq(Candle) /\ Len(rows) <= MaxMemory
    BY <2>1, LatestRowsFacts
  <2>3. rows # <<>> => LastOf(rows).t \in 0..NumCandles
    <3>1. rows # <<>> => rows[Len(rows)].t \in Times
      BY <2>2, CandlesOfSeq
    <3>2. Times \subseteq 0..NumCandles
      BY StoreAssumption DEF Times
    <3> QED BY <3>1, <3>2 DEF LastOf
  <2>4. memory' \in Seq(Candle) /\ Len(memory') <= MaxMemory
    BY <2>1, <2>2 DEF IngestionTypeOK
  <2>5. loader' \in [pc: LoaderPc, t: 0..NumCandles]
    BY <1>1, <2>1, <2>3
  <2> QED BY <1>0, <1>4, <2>4, <2>5 DEF LoadRows, IngestionTypeOK, StoreTypeOK
<1>5. CASE LoadLatest
  <2>1. latest' \in 0..NumCandles /\ loader' = Idle
    BY <1>5 DEF LoadLatest, IngestionTypeOK
  <2> QED BY <1>0, <1>1, <1>5, <2>1 DEF LoadLatest, IngestionTypeOK, StoreTypeOK
<1>6. CASE LoadFails
  BY <1>0, <1>1, <1>6 DEF LoadFails, IngestionTypeOK, StoreTypeOK
<1> QED BY <1>0, <1>2, <1>3, <1>4, <1>5, <1>6

LEMMA RestartTypes ==
  ASSUME IngestionTypeOK, Restart, \A h \in Handlers : HeldInv(h)
  PROVE  IngestionTypeOK' /\ row' = row /\ NoSavesLeft /\ \A h \in Handlers : HeldInv(h)'
<1>1. /\ handler' = [h \in Handlers |->
                       IF handler[h].pc \notin {"find", "saving"} THEN handler[h]
                       ELSE IF KlineOf(h).v = Final THEN At("killed") ELSE At("none")]
      /\ save' = [s \in Savers |-> NoSave]
      /\ restarts' = restarts + 1 /\ row' = row /\ cursor' = cursor
      /\ latest' = 0 /\ listeners' = 1 /\ monitored' = TRUE /\ loader' = Idle
  BY DEF Restart, NoSavesLeft
<1>2. handler' \in [Handlers -> [pc: HandlerPc, isNew: BOOLEAN]]
  <2>1. At("killed") \in [pc: HandlerPc, isNew: BOOLEAN] /\ At("none") \in [pc: HandlerPc, isNew: BOOLEAN]
    BY DEF At, HandlerPc
  <2> QED BY <1>1, <2>1 DEF IngestionTypeOK
<1>3. memory' \in Seq(Candle) /\ Len(memory') <= MaxMemory
  <2>1. PICK rows : rows = memory' /\ (rows \in LatestRows(MaxMemory) \/ rows = <<>>)
    BY DEF Restart
  <2>2. CASE rows \in LatestRows(MaxMemory)
    BY <2>1, <2>2, LatestRowsFacts
  <2>3. CASE rows = <<>>
    <3>1. rows \in Seq(Candle) /\ Len(rows) = 0
      BY <2>3, EmptySeq
    <3> QED BY <2>1, <3>1, IngestionAssumption
  <2> QED BY <2>1, <2>2, <2>3
<1>4. save' \in [Savers -> Save]
  BY <1>1, StoreAssumption DEF NoSave, Save, SavePc, Times
<1>5. IngestionTypeOK'
  <2>1. latest' \in 0..NumCandles /\ listeners' \in 1..MaxListeners
        /\ loader' \in [pc: LoaderPc, t: 0..NumCandles]
    BY <1>1, StoreAssumption, IngestionAssumption DEF Idle, LoaderPc
  <2> QED BY <1>1, <1>2, <1>3, <1>4, <2>1 DEF IngestionTypeOK, StoreTypeOK
<1>6. ASSUME NEW h \in Handlers PROVE HeldInv(h)'
  <2>1. handler'[h].pc # "saving" /\ (handler'[h].pc = "announced" => handler[h].pc = "announced")
    BY <1>1 DEF At
  <2>2. HeldInv(h)
    OBVIOUS
  <2> QED BY <1>1, <2>1, <2>2 DEF HeldInv
<1> QED BY <1>1, <1>5, <1>6 DEF NoSavesLeft

(* A call touches no save but its own, and no row but to fill it.          *)
LEMMA CallsLeaveAlone ==
  ASSUME StoreTypeOK, Tick \/ \E c \in Collectors : Collect(c) \/ Progress(c)
  PROVE  LeavesAlone(Savers \ Collectors)
<1>1. CASE UNCHANGED storeVars
  BY <1>1 DEF storeVars, LeavesAlone, RowsGrow, StoredTimes
<1>2. ASSUME NEW c \in Collectors, SaveCandle(c) PROVE LeavesAlone(Savers \ Collectors)
  <2>1. c \in Savers /\ StepOfSave(c)
    BY <1>2, HistoryFacts, SaveStepEffect DEF SaveCandle
  <2>2. \A t \in Times : row[t] # Absent => row'[t] # Absent
    BY <2>1, RowsRemain
  <2> QED BY <2>1, <2>2 DEF LeavesAlone, StepOfSave, RowsGrow, StoredTimes
<1>3. ASSUME NEW c \in Collectors, CheckCandle(c) \/ CandleSaved(c)
      PROVE  LeavesAlone(Savers \ Collectors)
  <2>1. row' = row /\ \A s \in Savers \ {c} : save'[s] = save[s]
    BY <1>3 DEF CheckCandle, CandleSaved, StoreTypeOK, storeVars
  <2> QED BY <2>1 DEF LeavesAlone, RowsGrow, StoredTimes
<1>4. ASSUME NEW c \in Collectors,
             Collect(c) \/ FindLast(c) \/ FindFirst(c) \/ FetchPage(c) \/ FetchFails(c) \/ Retry(c)
      PROVE  UNCHANGED storeVars
  BY <1>4 DEF Collect, FindLast, FindFirst, FetchPage, FetchFails, Retry
<1> QED BY <1>1, <1>2, <1>3, <1>4 DEF Tick, Progress

LEMMA NextSystemInv ==
  ASSUME Collectors \cap Handlers = {}
  PROVE  SystemInv /\ [SystemNext]_systemVars => SystemInv'
<1> SUFFICES ASSUME SystemInv, [SystemNext]_systemVars PROVE SystemInv'
  OBVIOUS
<1> USE DEF SystemInv
<1>1. CASE StreamStep
  <2>1. /\ IngestionTypeOK' /\ LeavesAlone(Savers \ Handlers)
        /\ \A h \in Handlers : HeldInv(h)'
    <3>1. CASE \E w \in Sockets : Deliver(w)
      BY <3>1, DeliverTypes
    <3>2. CASE \E w \in Sockets : Lose(w)
      <4>1. PICK w \in Sockets : Lose(w)
        BY <3>2
      <4>2. /\ cursor' \in [Sockets -> 0..(2 * NumCandles)]
            /\ UNCHANGED <<row, save, memory, latest, listeners, monitored, loader, handler, restarts>>
        BY <4>1, StoreAssumption DEF Lose, IngestionTypeOK, storeVars, cacheVars, serviceVars
      <4>3. IngestionTypeOK'
        BY <4>2 DEF IngestionTypeOK, StoreTypeOK
      <4> QED BY <4>2, <4>3 DEF LeavesAlone, RowsGrow, StoredTimes, HeldInv
    <3>3. CASE \E h \in Handlers : Answer(h)
      BY <3>3, AnswerTypes
    <3>4. CASE UnsubscribeSymbol \/ SubscribeSymbol \/ LoadRows \/ LoadLatest \/ LoadFails
      <4>1. IngestionTypeOK' /\ UNCHANGED <<row, save, handler>>
        BY <3>4, SubscriptionTypes
      <4> QED BY <4>1 DEF LeavesAlone, RowsGrow, StoredTimes, HeldInv
    <3> QED BY <1>1, <3>1, <3>2, <3>3, <3>4 DEF StreamStep
  <2>2. /\ now' = now /\ job' = job /\ now' \in Times /\ now <= now'
        /\ job' \in [Collectors -> Job]
    BY <1>1, HistoryFacts DEF StreamStep, HistoryInv
  <2>3. StoreTypeOK'
    BY <2>1 DEF IngestionTypeOK
  <2>4. ASSUME NEW c \in Collectors PROVE JobInv(job[c], StoredTimes, now)' /\ SavingInv(c)'
    <3>1. save'[c] = save[c] /\ RowsGrow
      BY <2>1, HistoryFacts DEF LeavesAlone
    <3> QED BY <2>2, <2>3, <3>1, OthersStep
  <2>5. HistoryInv'
    BY <2>2, <2>3, <2>4 DEF HistoryInv
  <2> QED BY <2>1, <2>5
<1>2. CASE CollectorStep
  <2>1. HistoryInv'
    BY <1>2, TickInv, CallStepsInv DEF CollectorStep
  <2>2. LeavesAlone(Savers \ Collectors)
    BY <1>2, CallsLeaveAlone DEF CollectorStep, HistoryInv
  <2>3. UNCHANGED <<cursor, memory, latest, listeners, monitored, loader, handler, restarts>>
    BY <1>2 DEF CollectorStep, cacheVars, serviceVars
  <2>4. IngestionTypeOK'
    BY <2>1, <2>3 DEF HistoryInv, IngestionTypeOK
  <2>5. ASSUME NEW h \in Handlers PROVE HeldInv(h)'
    <3>1. save'[h] = save[h] /\ RowsGrow
      BY <2>2, HandlerFacts DEF LeavesAlone
    <3> QED BY <2>3, <3>1, HeldStays
  <2> QED BY <2>1, <2>4, <2>5
<1>3. CASE RestartSystem
  <2>1. /\ IngestionTypeOK' /\ row' = row /\ NoSavesLeft
        /\ \A h \in Handlers : HeldInv(h)'
    BY <1>3, RestartTypes DEF RestartSystem
  <2>2. HistoryInv'
    BY <1>3, <2>1, CallsEndInv DEF RestartSystem
  <2> QED BY <2>1, <2>2
<1>4. CASE UNCHANGED systemVars
  <2>1. UNCHANGED <<row, save, cursor, handler, memory, latest, listeners, monitored, loader,
                    restarts, now, job>>
    BY <1>4 DEF systemVars, ingestionVars, storeVars, cacheVars, serviceVars
  <2>2. IngestionTypeOK'
    BY <2>1 DEF IngestionTypeOK, StoreTypeOK
  <2>3. HistoryInv'
    BY <2>1 DEF HistoryInv, StoreTypeOK, StoredTimes, SavingInv
  <2> QED BY <2>1, <2>2, <2>3 DEF HeldInv
<1> QED BY <1>1, <1>2, <1>3, <1>4 DEF SystemNext

(* Beside the live stream, whose handlers save the same candles, the calls *)
(* keep what they promise alone.                                           *)
THEOREM CallsKeepTheirPromises ==
  ASSUME Collectors \cap Handlers = {}
  PROVE  SystemSpec => [](NothingFetchedIsDropped /\ PagesMeet /\ HistoryTypeOK)
<1>1. SystemInv => NothingFetchedIsDropped /\ PagesMeet /\ HistoryTypeOK
  BY HistoryPromises DEF SystemInv
<1> QED BY <1>1, SystemStarts, NextSystemInv, PTL DEF SystemSpec

(* A candle announced by a listener is not missing from the table. *)
AnnouncedHasARow ==
  \A t \in Times : Ended(t, {"announced"}) # {} => row[t] # Absent

(* Beside the calls the stream keeps its types, and a candle announced has *)
(* a row: the final one it is without them may become partial again, as    *)
(* FinalRowsStay shows, but it is never missing.                           *)
THEOREM AnnouncedAlwaysHasARow ==
  ASSUME Collectors \cap Handlers = {}
  PROVE  SystemSpec => [](IngestionTypeOK /\ AnnouncedHasARow)
<1>1. SystemInv => IngestionTypeOK /\ AnnouncedHasARow
  <2> SUFFICES ASSUME SystemInv, NEW t \in Times, NEW h \in Ended(t, {"announced"})
               PROVE  row[t] # Absent
    BY DEF SystemInv, AnnouncedHasARow
  <2>1. h \in Handlers /\ KlineOf(h).t = t /\ handler[h].pc = "announced"
    BY DEF Ended
  <2> QED BY <2>1 DEF SystemInv, HeldInv
<1> QED BY <1>1, SystemStarts, NextSystemInv, PTL DEF SystemSpec
=============================================================================
