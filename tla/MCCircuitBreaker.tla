-------------------------- MODULE MCCircuitBreaker --------------------------
(* Small instances of CircuitBreaker for TLC: two plain queries and one     *)
(* createMemory.                                                           *)
EXTENDS CircuitBreaker, TLC

CONSTANTS q, r, m

MCCalls  == {q, r, m}
MCNested == {m}
=============================================================================
