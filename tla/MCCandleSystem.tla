---------------------------- MODULE MCCandleSystem ----------------------------
(* CandleSystem for TLC: the savers are the handlers and the calls. *)
EXTENDS CandleSystem

MCSockets == {1}
MCSavers == Collectors \cup (MCSockets \X (1..(2 * NumCandles)) \X (1..MaxListeners))
===============================================================================
