---------------------------- MODULE PacedSpender ----------------------------
(***************************************************************************)
(* What a treasury held by AuraLensWallet promises its owner, whatever the *)
(* agent, the routers and the token do: money leaves only by the owner's   *)
(* hand or by spends that are a bounded share of what is there and a       *)
(* minimum time apart.  The share holds up to the first spend that         *)
(* unbinds the treasury; the pace of spends holds for ever.                *)
(***************************************************************************)
EXTENDS Integers

CONSTANTS Floor,   \* the shortest timelock
          MaxBps,  \* the largest share of a spend ...
          BpsBase  \* ... in parts of this base

VARIABLES time, treasury, lastSpend, withdrawn, unbound

vars == <<time, treasury, lastSpend, withdrawn, unbound>>

Init ==
    /\ time \in Nat
    /\ treasury = 0
    /\ lastSpend = 0
    /\ withdrawn = 0
    /\ unbound = FALSE

Pass == time' >= time /\ UNCHANGED <<treasury, lastSpend, withdrawn, unbound>>

Receive ==
    treasury' >= treasury /\ UNCHANGED <<time, lastSpend, withdrawn, unbound>>

Withdraw ==
    /\ withdrawn' >= withdrawn
    /\ treasury - treasury' = withdrawn' - withdrawn
    /\ UNCHANGED <<time, lastSpend, unbound>>

(* A spend leaves the shortest timelock after the one before it.           *)
OnTime ==
    /\ time >= lastSpend + Floor
    /\ lastSpend' = time
    /\ UNCHANGED <<time, withdrawn>>

Spend ==
    /\ OnTime
    /\ BpsBase * (treasury - treasury') <= MaxBps * treasury
    /\ UNCHANGED unbound

(* A spend that is more than a transfer of a share, and what may follow.   *)
Unbind == OnTime /\ treasury' >= 0 /\ unbound' = TRUE

Elsewhere ==
    unbound /\ treasury' >= 0 /\ UNCHANGED <<time, lastSpend, withdrawn, unbound>>

Next == Pass \/ Receive \/ Withdraw \/ Spend \/ Unbind \/ Elsewhere

Spec == Init /\ [][Next]_vars

=============================================================================
