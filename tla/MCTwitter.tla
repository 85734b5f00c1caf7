----------------------------- MODULE MCTwitter -----------------------------
(* Small instances of Twitter for TLC: the second tweet replies to the     *)
(* first.                                                                  *)
EXTENDS Twitter, TLC

CONSTANTS p1, p2

TwoPolls == {p1, p2}
Thread == <<0, 1>>
Alike == Permutations(TwoPolls)
=============================================================================
