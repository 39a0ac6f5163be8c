---------------------------- MODULE MCSpotSystem ----------------------------
(* SpotSystem for TLC: an account with a little of everything. *)
EXTENDS SpotSystem, TLC

MCFunds == USDT :> 3 @@ Bitcoin :> 1 @@ [c \in Coins |-> 0]
MCPrices == {2}
=============================================================================
