------------------------------- MODULE Trader -------------------------------
(***************************************************************************)
(* What the trading engine of AuraLens promises, without saying how: a     *)
(* cycle decides, is approved while a slot is free and the timelock is     *)
(* over, holds its position, settles, and is over.  There is no counter    *)
(* here: a slot is taken by a cycle that holds.  Approval and opening are  *)
(* two steps, so several cycles may be approved side by side: the slots    *)
(* and the timelock are promised to an approval, not to an opening.        *)
(***************************************************************************)
EXTENDS Naturals, FiniteSets

CONSTANTS Cycles, MaxOpenPositions, Timelock

VARIABLES now,      \* the time
          stage,    \* stage[c]: how far cycle c is
          opened,   \* when the running process recorded c's opening, or 0
          invoiced  \* the cycles with a Profit-Sharing Invoice

vars == <<now, stage, opened, invoiced>>

Stages == {"idle", "deciding", "approved", "holding", "settling", "over"}

Init ==
    /\ now = 1
    /\ stage = [c \in Cycles |-> "idle"]
    /\ opened = [c \in Cycles |-> 0]
    /\ invoiced = {}

Holders == {c \in Cycles : stage[c] = "holding"}

SlotFree == Cardinality(Holders) < MaxOpenPositions

TimelockOver == \A c \in Cycles : opened[c] > 0 => now >= opened[c] + Timelock

Moves(c, from, to) ==
    /\ stage[c] = from
    /\ stage' = [stage EXCEPT ![c] = to]
    /\ UNCHANGED <<now, invoiced>>

Begin(c) == Moves(c, "idle", "deciding") /\ UNCHANGED opened

(* Wrong form: the timelock is forgotten.                                  *)
ApproveAnyTime(c) == SlotFree /\ Moves(c, "deciding", "approved") /\ UNCHANGED opened

Approve(c) ==
    SlotFree /\ TimelockOver /\ Moves(c, "deciding", "approved") /\ UNCHANGED opened

Open(c) ==
    Moves(c, "approved", "holding") /\ opened' = [opened EXCEPT ![c] = now]

Close(c) == Moves(c, "holding", "settling") /\ UNCHANGED opened

(* One invoice for a cycle, and only after its position was held.          *)
Invoice(c) ==
    /\ stage[c] = "settling" /\ c \notin invoiced
    /\ invoiced' = invoiced \cup {c}
    /\ UNCHANGED <<now, stage, opened>>

(* A cycle may end wherever it is: denied, failed or settled.              *)
End(c) ==
    /\ \E from \in Stages \ {"idle", "over"} : Moves(c, from, "over")
    /\ UNCHANGED opened

Pass == now' > now /\ UNCHANGED <<stage, opened, invoiced>>

(* A new process knows of no opening.                                      *)
Restart ==
    /\ stage' = [c \in Cycles |-> IF stage[c] = "idle" THEN "idle" ELSE "over"]
    /\ opened' = [c \in Cycles |-> 0]
    /\ UNCHANGED <<now, invoiced>>

Next ==
    \/ \E c \in Cycles : \/ Begin(c) \/ Approve(c) \/ Open(c) \/ Close(c)
                         \/ Invoice(c) \/ End(c)
    \/ Pass
    \/ Restart

Spec == Init /\ [][Next]_vars

=============================================================================
