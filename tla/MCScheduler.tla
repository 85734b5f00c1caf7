---------------------------- MODULE MCScheduler ----------------------------
(* Small instances of Scheduler for TLC.                                   *)
EXTENDS Scheduler, TLC

CONSTANTS a, b

TwoAgents == {a, b}
OneCharacter == <<a>>
=============================================================================
