--------------------------- MODULE MCFuturesSystem ---------------------------
(* FuturesSystem for TLC: accounts that start flat, long or short. *)
EXTENDS FuturesSystem, TLC

MCHoldings == {0, 1, -2}
FlatOrLong == {0, 2}

(* Call slots are interchangeable. *)
CallSymmetry == Permutations(Calls)
=============================================================================
