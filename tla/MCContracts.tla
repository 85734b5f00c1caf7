---------------------------- MODULE MCContracts ----------------------------
(* Small instances of Contracts for TLC.                                   *)
EXTENDS Contracts

CONSTANTS p, o, w, r, x, u

MCAccounts == {p, o, w, r, x, u}
MCAgents == {p, o}
MCApprovals == {<<p, r>>, <<w, r>>, <<w, p>>}
MCPnls == {-1, 8}
=============================================================================
