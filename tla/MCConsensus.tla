---------------------------- MODULE MCConsensus ----------------------------
(* Small instances of Consensus for TLC: the plugin's own thresholds and   *)
(* weights, and confidences around every place where an outcome turns.     *)
EXTENDS Consensus, TLC

MCRaw == {-20, 0, 24, 25, 26, 29, 30, 31, 44, 45, 49, 50, 51, 55, 82, 83, 84,
          91, 92, 93, 99, 100, 150, NaN, Absent}

(* The plugin's own settings keep a neutral signal weak.                   *)
ASSUME MCNeutral == NeutralIsWeak
=============================================================================
