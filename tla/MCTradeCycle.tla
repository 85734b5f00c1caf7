---------------------------- MODULE MCTradeCycle ----------------------------
(* Small instances of TradeCycle for TLC.                                  *)
EXTENDS TradeCycle, TLC

(* What two models that agree at 80, two fallbacks at 30, and two answers  *)
(* that are no number make of a decision.                                  *)
MCStrong  == [confidence |-> 80, agreement |-> 80]
MCWeak    == [confidence |-> 30, agreement |-> 30]
MCGarbled == [confidence |-> NaN, agreement |-> NaN]

MCDecisions == {MCStrong, MCWeak, MCGarbled}

MCPnl == {-2, 1}
=============================================================================
