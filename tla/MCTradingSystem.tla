--------------------------- MODULE MCTradingSystem ---------------------------
(* Small instances of TradingSystem for TLC.                               *)
EXTENDS TradingSystem, TLC

CONSTANT a

OneAgent == {a}
OneCharacter == <<a>>

MCSymmetry == Permutations(Cycles)
=============================================================================
