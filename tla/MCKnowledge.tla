---------------------------- MODULE MCKnowledge ----------------------------
(* A small instance of Knowledge for TLC: two agents share an item, and    *)
(* one of them has another of its own.                                     *)
EXTENDS Knowledge

CONSTANTS a, b, own, shared

MCAgents == {a, b}
MCItems == {own, shared}
MCKnown == [x \in MCAgents |-> IF x = a THEN <<own, shared>> ELSE <<shared>>]
MCFragments == [i \in MCItems |-> IF i = own THEN 1 ELSE 2]
MCCharacters == <<a, b>>
=============================================================================
