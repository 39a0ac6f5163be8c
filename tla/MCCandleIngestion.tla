-------------------------- MODULE MCCandleIngestion --------------------------
(* CandleIngestion for TLC: the savers are the handlers themselves.  The   *)
(* client opens a second socket of the stream when a reconnect timer fires *)
(* beside a live one.                                                      *)
EXTENDS CandleIngestion

OneSocket == {1}
TwoSockets == {1, 2}
MCSavers == Handlers
=============================================================================
