------------------------- MODULE MCHistoryCollection -------------------------
(* HistoryCollection for TLC: the savers are the calls themselves. *)
EXTENDS HistoryCollection, TLC

CallSymmetry == Permutations(Collectors)
=============================================================================
