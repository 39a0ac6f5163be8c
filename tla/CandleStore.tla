----------------------------- MODULE CandleStore -----------------------------
(***************************************************************************)
(* Candle15MRepository: the candles_15m table of one symbol and market,    *)
(* and saveCandle, an "upsert" of three statements with an await after     *)
(* each: find the row, then update or insert it, and after a unique        *)
(* violation find it again.  A saver is one saveCandle in flight.          *)
(*                                                                         *)
(* A candle is known by its number (its open time) and how much of it the  *)
(* data covers: InProgress while the quarter of an hour lasts, Final when  *)
(* it is over.  A row that is not there is Absent.                         *)
(***************************************************************************)
EXTENDS Integers, Sequences

CONSTANTS
  NumCandles,   \* bound: candles of the behaviour
  Savers        \* calls of saveCandle that may be in flight

ASSUME StoreAssumption == NumCandles \in Nat \ {0}

VARIABLES
  row,    \* the table: what is stored of each candle
  save    \* saver: the statement it awaits, its argument, its findOne

storeVars == <<row, save>>

Absent == 0
InProgress == 1
Final == 2
Times == 1..NumCandles
Candle == [t: Times, v: {InProgress, Final}]

(* A save is over when it returned a row or threw. *)
SavePc == {"none", "find", "write", "reread", "returned", "thrown"}
Save == [pc: SavePc, t: Times, v: {InProgress, Final}, found: BOOLEAN]

NoSave == [pc |-> "none", t |-> 1, v |-> Final, found |-> FALSE]
SaveOf(candle) == [pc |-> "find", t |-> candle.t, v |-> candle.v, found |-> FALSE]

(* The save goes on; what findOne found is used by repository.save only. *)
SaveGoesTo(s, pc) == save' = [save EXCEPT ![s].pc = pc, ![s].found = FALSE]

StoreInit ==
  /\ row = [t \in Times |-> Absent]
  /\ save = [s \in Savers |-> NoSave]

(* findOne by symbol, market and open time. *)
FindRow(s) ==
  /\ save[s].pc = "find"
  /\ save' = [save EXCEPT ![s].pc = "write", ![s].found = row[save[s].t] # Absent]
  /\ UNCHANGED row

(* repository.save: the row found is updated, a row not found is inserted, *)
(* and the unique index refuses the insert when somebody else was faster.  *)
WriteRow(s) ==
  /\ save[s].pc = "write"
  /\ LET t == save[s].t
     IN  \/ /\ save[s].found \/ row[t] = Absent
            /\ row' = [row EXCEPT ![t] = save[s].v]
            /\ SaveGoesTo(s, "returned")
         \/ /\ ~save[s].found /\ row[t] # Absent
            /\ SaveGoesTo(s, "reread")
            /\ UNCHANGED row

(* After error 23505 the existing row is returned as it is. *)
RereadRow(s) ==
  /\ save[s].pc = "reread"
  /\ SaveGoesTo(s, IF row[save[s].t] # Absent THEN "returned" ELSE "thrown")
  /\ UNCHANGED row

(* A statement fails, or took effect and its reply is lost. *)
SaveThrows(s) ==
  /\ save[s].pc \in {"find", "write", "reread"}
  /\ SaveGoesTo(s, "thrown")
  /\ \/ UNCHANGED row
     \/ /\ save[s].pc = "write" /\ (save[s].found \/ row[save[s].t] = Absent)
        /\ row' = [row EXCEPT ![save[s].t] = save[s].v]

SaveStep(s) == FindRow(s) \/ WriteRow(s) \/ RereadRow(s) \/ SaveThrows(s)

(* The process ends, and the saves with it. *)
NoSavesLeft == save' = [s \in Savers |-> NoSave]

(* Rows in the order of their time, each candle once. *)
Ascending(candles) ==
  \A i, j \in DOMAIN candles : i < j => candles[i].t < candles[j].t

(* findLatestCandles: the newest rows, oldest first.  There is one such    *)
(* sequence; a row it leaves out is older than all of a full sequence.     *)
LatestRows(limit) ==
  {rows \in UNION {[1..n -> Candle] : n \in 0..limit} :
     /\ Ascending(rows)
     /\ \A i \in DOMAIN rows : row[rows[i].t] = rows[i].v
     /\ \A t \in Times : row[t] # Absent =>
          \/ \E i \in DOMAIN rows : rows[i].t = t
          \/ Len(rows) = limit /\ \A i \in DOMAIN rows : t < rows[i].t}

StoreTypeOK ==
  /\ row \in [Times -> {Absent, InProgress, Final}]
  /\ save \in [Savers -> Save]
=============================================================================
