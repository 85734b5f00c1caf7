------------------------------- MODULE Buyback -------------------------------
(***************************************************************************)
(* The $AURA buyback (src/actions/buyback.ts): approve and swap as two     *)
(* transactions of the agent's account, sent without waiting for the first *)
(* to be mined.  Several trade cycles may be at it at once, and the same   *)
(* account pays the collateral of their positions meanwhile.               *)
(*                                                                         *)
(* The account's transactions are mined in the order of their nonces,      *)
(* which is the order in which they were sent.                             *)
(***************************************************************************)
EXTENDS MockERC20, Sequences

CONSTANTS
    Buybacks,   \* the calls of executeBuyback
    AmountIn,   \* the amount each swaps
    Agent,      \* the account of BNB_PRIVATE_KEY
    Dex,        \* PancakeSwap's router
    Myx,        \* who takes the collateral of positions
    Collaterals, \* inputs: what the positions of other cycles take
    Funds       \* what the account holds at first

ASSUME BuybackAssumption ==
    /\ Accounts = {Agent, Dex, Myx} /\ Cardinality(Accounts) = 3
    /\ AmountIn \in [Buybacks -> Nat]
    /\ Collaterals \subseteq Nat \ {0}
    /\ Funds \in Nat

VARIABLES
    pc,      \* the await each call is at
    mempool, \* transactions sent and not mined
    receipt, \* of each call's swap
    token,   \* the storage of the USDT contract
    clean    \* history: the calls nothing of the same account ran beside

buybackVars == <<pc, mempool, receipt, token, clean>>

(* "called": approving is simulated; "approved": the approval was sent and *)
(* the swap is simulated; "simulated": it is sent; "sent": its receipt is  *)
(* waited for.                                                             *)
Steps == {"idle", "called", "approved", "simulated", "sent", "done", "failed"}

Tx == [kind : {"approve", "swap"}, of : Buybacks]

BuybackTypeOK ==
    /\ pc \in [Buybacks -> Steps]
    /\ mempool \in Seq(Tx)
    /\ receipt \in [Buybacks -> {"none", "success", "reverted"}]
    /\ token \in Token
    /\ clean \subseteq Buybacks

BuybackInit ==
    /\ pc = [b \in Buybacks |-> "idle"]
    /\ mempool = <<>>
    /\ receipt = [b \in Buybacks |-> "none"]
    /\ token = Mint(EmptyToken, Agent, Funds)
    /\ clean = Buybacks

-----------------------------------------------------------------------------
InCall(b) == pc[b] \in {"called", "approved", "simulated", "sent"}
Busy(b)   == InCall(b) \/ \E i \in DOMAIN mempool : mempool[i].of = b

Go(b, step) == pc' = [pc EXCEPT ![b] = step]

Call(b) ==
    /\ pc[b] = "idle"
    /\ Go(b, "called")
    /\ LET others == {c \in Buybacks \ {b} : Busy(c)}
       IN  clean' = IF others = {} THEN clean ELSE clean \ (others \cup {b})
    /\ UNCHANGED <<mempool, receipt, token>>

Send(b, kind) == mempool' = Append(mempool, [kind |-> kind, of |-> b])

SendApprove(b) ==
    /\ pc[b] = "called"
    /\ Send(b, "approve")
    /\ Go(b, "approved")
    /\ UNCHANGED <<receipt, token, clean>>

(* Wrong form: the swap is sent unsimulated.                               *)
SimulateSwapAnyway(b) ==
    /\ pc[b] = "approved"
    /\ Go(b, "simulated")
    /\ UNCHANGED <<mempool, receipt, token, clean>>

(* Simulated on the state of the chain as it is, with the approval mined   *)
(* or not.                                                                 *)
SimulateSwap(b) ==
    /\ pc[b] = "approved"
    /\ CanTransferFrom(token, Dex, Agent, AmountIn[b])
    /\ Go(b, "simulated")
    /\ UNCHANGED <<mempool, receipt, token, clean>>

SendSwap(b) ==
    /\ pc[b] = "simulated"
    /\ Send(b, "swap")
    /\ Go(b, "sent")
    /\ UNCHANGED <<receipt, token, clean>>

(* Wrong form: only a receipt of a success is taken.                       *)
ReceiptOnSuccess(b) ==
    /\ pc[b] = "sent" /\ receipt[b] = "success"
    /\ Go(b, "done")
    /\ UNCHANGED <<mempool, receipt, token, clean>>

(* The receipt's status is not looked at: the result is success: true.     *)
Receipt(b) ==
    /\ pc[b] = "sent" /\ receipt[b] # "none"
    /\ Go(b, "done")
    /\ UNCHANGED <<mempool, receipt, token, clean>>

(* Any await may throw; what was sent stays sent.  A swap that the chain   *)
(* would refuse as it is must throw; the wait for a receipt throws only    *)
(* while there is none.                                                    *)
Fail(b) ==
    /\ InCall(b) /\ receipt[b] = "none"
    /\ Go(b, "failed")
    /\ UNCHANGED <<mempool, receipt, token, clean>>

-----------------------------------------------------------------------------
(* The chain.                                                              *)

MineApprove ==
    /\ mempool # <<>> /\ Head(mempool).kind = "approve"
    /\ token' = Approve(token, Agent, Dex, AmountIn[Head(mempool).of])
    /\ mempool' = Tail(mempool)
    /\ UNCHANGED <<pc, receipt, clean>>

MineSwap ==
    /\ mempool # <<>> /\ Head(mempool).kind = "swap"
    /\ LET b  == Head(mempool).of
           ok == CanTransferFrom(token, Dex, Agent, AmountIn[b])
       IN  /\ receipt' = [receipt EXCEPT ![b] = IF ok THEN "success" ELSE "reverted"]
           /\ token' = IF ok THEN TransferFrom(token, Dex, Agent, Dex, AmountIn[b])
                             ELSE token
    /\ mempool' = Tail(mempool)
    /\ UNCHANGED <<pc, clean>>

(* A position of another cycle takes its collateral.                       *)
PayCollateral ==
    \E amount \in Collaterals :
        /\ CanTransfer(token, Agent, amount)
        /\ token' = Transfer(token, Agent, Myx, amount)
        /\ clean' = clean \ {b \in Buybacks : Busy(b)}
        /\ UNCHANGED <<pc, mempool, receipt>>

-----------------------------------------------------------------------------
Awaits(b) ==
    SendApprove(b) \/ SimulateSwap(b) \/ SendSwap(b) \/ Receipt(b) \/ Fail(b)

Mine == MineApprove \/ MineSwap

BuybackNext ==
    \/ \E b \in Buybacks : Call(b) \/ Awaits(b)
    \/ Mine
    \/ PayCollateral

(* Every await settles and what was sent is mined.                         *)
BuybackSpec == /\ BuybackInit /\ [][BuybackNext]_buybackVars
        /\ \A b \in Buybacks : WF_buybackVars(Awaits(b))
        /\ WF_buybackVars(Mine)

-----------------------------------------------------------------------------
(* What holds.                                                             *)

(* A buyback that nothing else of the account ran beside is reported done  *)
(* only when it was swapped, and its swap is not reverted, were it mined   *)
(* after the wait for its receipt timed out: its approval is mined before  *)
(* its swap, and the balance its simulation saw is still there.            *)
AloneDoneIsSwapped ==
    \A b \in clean : /\ pc[b] = "done" => receipt[b] = "success"
                     /\ receipt[b] # "reverted"

(* No call is left hanging, whichever approvals and swaps are reverted.    *)
EveryBuybackEnds ==
    \A b \in Buybacks : pc[b] # "idle" ~> pc[b] \in {"done", "failed"}

=============================================================================
