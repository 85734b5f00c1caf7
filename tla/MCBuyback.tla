----------------------------- MODULE MCBuyback -----------------------------
(* Small instances of Buyback for TLC: three buybacks of different size.   *)
EXTENDS Buyback, TLC

CONSTANTS b1, b2, b3, agent, dex, myx

MCBuybacks == {b1, b2, b3}
MCAmountIn == b1 :> 1 @@ b2 :> 2 @@ b3 :> 3
MCAccounts == {agent, dex, myx}
=============================================================================
