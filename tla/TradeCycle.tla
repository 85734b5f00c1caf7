----------------------------- MODULE TradeCycle -----------------------------
(***************************************************************************)
(* The autonomous trading cycle of AuraLens                                *)
(* (packages/plugin-bnb-auralens/src/actions/tradeCycle.ts) with the       *)
(* providers it awaits.                                                    *)
(*                                                                         *)
(* A cycle is one invocation of the action's handler: by a timer of the    *)
(* scheduler, by the dashboard or by a chat message.  Invocations run in   *)
(* one Node process and interleave at their awaits, so the handler is cut  *)
(* into one action per await, and `pc' names the call a cycle is suspended *)
(* in.  The cycles share the record of RiskEngine, the chain and the       *)
(* history kept by Unibase.  The chain answers whenever it likes: a        *)
(* transaction may be mined or reverted after its sender stopped waiting.  *)
(* The process may crash between any two steps; it comes back with a fresh *)
(* RiskEngine, and the chain and Unibase keep what they have.              *)
(***************************************************************************)
EXTENDS RiskEngine, FiniteSets, Sequences, Functions

CONSTANTS
    Cycles,           \* the invocations of the handler
    Hold,             \* TRADE_HOLD_MS
    Window,           \* how many of the newest records the context quotes (5)
    TreasuryReadings, \* what getTreasuryState may return, in USD
    Decisions,        \* what getDGridConsensus may return
    PnlValues,        \* what a position may earn
    Collateral,       \* what a position locks
    WordRange,        \* 2^256: what BigInt(hex) makes of a 32-byte word
    ExponentFrom,     \* 10^21: from here toFixed() writes an exponent
    Overlap,          \* bound: handlers in flight at once
    Horizon,          \* bound: after it the clock only runs for a pending timer
    MaxCrashes        \* bound: crashes of the process

ASSUME TradeCycleAssumption ==
    /\ IsFiniteSet(Cycles)
    /\ {Hold, Window, Collateral, Horizon, MaxCrashes, Overlap} \subseteq Nat
    /\ TreasuryReadings \subseteq Nat
    /\ Decisions \subseteq Decision
    /\ WordRange \in Nat \ {0} /\ ExponentFrom \in Nat
    /\ \A p \in PnlValues : p \in Int /\ Collateral + p >= 0

VARIABLES
    now,        \* Date.now()
    risk,       \* the RiskEngine's record
    pc,         \* pc[c]: the call cycle c is suspended in, or how it ended
    local,      \* local[c]: the handler's local variables
    chain,      \* chain[c]: the transactions of cycle c and its position
    memory,     \* the records kept by Unibase, newest first
    invoiced,   \* the cycles that have a Profit-Sharing Invoice
    bought,     \* the cycles whose fee bought $AURA
    recorded,   \* history: when this process recorded cycle c's check, opening
                \* and result (0: it did not)
    crashes

vars == <<now, risk, pc, local, chain, memory, invoiced, bought,
          recorded, crashes>>
books == <<memory, invoiced, bought>>

-----------------------------------------------------------------------------
Ended  == {"threw", "brokenContext", "denied", "failedOpen", "failedClose",
           "completed", "crashed"}
Active == {"treasury", "context", "consult", "check", "deny", "opening",
           "openSent", "hold", "closing", "closeSent", "fees", "invoice",
           "buyback", "persist"}
Control == {"idle"} \cup Active \cup Ended

TxState == {"none", "pending", "mined", "reverted"}

Frame == [treasury : Nat, decision : Decision, verdict : SUBSET Reasons,
          holdUntil : Nat, usable : BOOLEAN, pnlUsd : Int]
ChainEntry  == [open : TxState, close : TxState, pnl : Int]
Record == [cycle : Cycles, quotable : BOOLEAN, invoice : BOOLEAN]
Times  == [check : Nat, open : Nat, result : Nat]

TypeOK ==
    /\ now \in Nat \ {0}
    /\ risk \in RiskState
    /\ pc \in [Cycles -> Control]
    /\ local \in [Cycles -> Frame]
    /\ chain \in [Cycles -> ChainEntry]
    /\ memory \in Seq(Record)
    /\ invoiced \subseteq Cycles
    /\ bought \subseteq Cycles
    /\ recorded \in [Cycles -> Times]
    /\ crashes \in Nat

EmptyFrame == [treasury |-> 0, decision |-> [confidence |-> 0, agreement |-> 0],
               verdict |-> {}, holdUntil |-> 0, usable |-> FALSE, pnlUsd |-> 0]
NoTimes == [check |-> 0, open |-> 0, result |-> 0]

Init ==
    /\ now = 1
    /\ risk = InitialRisk(1)
    /\ pc = [c \in Cycles |-> "idle"]
    /\ local = [c \in Cycles |-> EmptyFrame]
    /\ chain = [c \in Cycles |-> [open |-> "none", close |-> "none", pnl |-> 0]]
    /\ memory = <<>>
    /\ invoiced = {} /\ bought = {}
    /\ recorded = [c \in Cycles |-> NoTimes]
    /\ crashes = 0

-----------------------------------------------------------------------------
(* Helpers.                                                                *)
InFlight == {c \in Cycles : pc[c] \in Active}

(* Cycle c leaves the call `from' for `to'.                                *)
Go(c, from, to) == pc[c] = from /\ pc' = [pc EXCEPT ![c] = to]

(* The position of cycle c is on the chain and open.                       *)
PositionOpen(c) == chain[c].open = "mined" /\ chain[c].close # "mined"

(* The records the learning context quotes, and whether one of them has a  *)
(* confidence that toFixed() can be called on: NaN is stored as JSON null. *)
ContextThrows == \E i \in 1 .. Len(memory) : i <= Window /\ ~memory[i].quotable

NewRecord(c) == [cycle    |-> c,
                 quotable |-> local[c].decision.confidence # NaN,
                 invoice  |-> c \in invoiced]

(* Wrong form: the word of the receipt is read with its sign.              *)
ReadPnlSigned(p) == {p, Collateral + p}

(* closeMYXPosition reads the first log of the receipt as one unsigned     *)
(* word.  That log is the P&L, an int256, or the ERC20 Transfer that pays  *)
(* the position out, as in the receipts of the repository's MockMYXRouter. *)
ReadPnl(p) == {p % WordRange, Collateral + p}

-----------------------------------------------------------------------------
(* The handler, up to the risk check.                                      *)

(* A timer, the dashboard or a message calls the handler.                  *)
StartCycle(c) ==
    /\ Cardinality(InFlight) < Overlap
    /\ Go(c, "idle", "treasury")
    /\ UNCHANGED <<now, risk, local, chain, books, recorded, crashes>>

(* getTreasuryState never throws: a failed read yields a mock treasury.    *)
ReadTreasury(c) ==
    /\ Go(c, "treasury", "context")
    /\ \E usd \in TreasuryReadings :
          local' = [local EXCEPT ![c].treasury = usd]
    /\ UNCHANGED <<now, risk, chain, books, recorded, crashes>>

(* Signals and prices fall back to mocks; the history is quoted, or, when  *)
(* the query fails, taken as empty.                                        *)
BuildContext(c) ==
    /\ \/ Go(c, "context", "consult")
       \/ ContextThrows /\ Go(c, "context", "brokenContext")
    /\ UNCHANGED <<now, risk, local, chain, books, recorded, crashes>>

(* generateText and getDGridConsensus, whose errors end the cycle, then    *)
(* adjustLiquidityDepth, whose errors are logged.                          *)
Consult(c) ==
    /\ \/ /\ Go(c, "consult", "check")
          /\ \E d \in Decisions :
                local' = [local EXCEPT ![c].decision = d]
       \/ /\ Go(c, "consult", "threw")
          /\ UNCHANGED local
    /\ UNCHANGED <<now, risk, chain, books, recorded, crashes>>

(* runRiskCheck: synchronous, on the record as it is now.                  *)
CheckRisk(c) ==
    LET today   == ResetDailyIfNeeded(risk, now)
        verdict == Denials(today, now, local[c].decision, local[c].treasury)
    IN  /\ Go(c, "check", IF verdict = {} THEN "opening" ELSE "deny")
        /\ risk' = today
        /\ local' = [local EXCEPT ![c].verdict = verdict]
        /\ recorded' = [recorded EXCEPT ![c].check = now]
        /\ UNCHANGED <<now, chain, books, crashes>>

(* A record that cannot be stored is logged and forgotten.                 *)
Persist(c) ==
    \/ memory' = <<NewRecord(c)>> \o memory
    \/ UNCHANGED memory

PersistDenial(c) ==
    /\ Go(c, "deny", "denied")
    /\ Persist(c)
    /\ UNCHANGED <<now, risk, local, chain, invoiced, bought, recorded,
                   crashes>>

-----------------------------------------------------------------------------
(* openMYXPosition.                                                        *)

(* No router, no price, an amount that is no number, a simulation or a     *)
(* write that throws.                                                      *)
OpenFails(c) ==
    /\ Go(c, "opening", "failedOpen")
    /\ UNCHANGED <<now, risk, local, chain, books, recorded, crashes>>

(* Wrong form: an amount that is no number is sent as if it were one.      *)
OpenSendAnyAmount(c) ==
    /\ Go(c, "opening", "openSent")
    /\ chain' = [chain EXCEPT ![c].open = "pending"]
    /\ UNCHANGED <<now, risk, local, books, recorded, crashes>>

(* parseUnits rejects an amount that is NaN.                               *)
OpenSend(c) ==
    /\ CappedSize(local[c].decision, local[c].treasury) # NaN
    /\ Go(c, "opening", "openSent")
    /\ chain' = [chain EXCEPT ![c].open = "pending"]
    /\ UNCHANGED <<now, risk, local, books, recorded, crashes>>

(* A receipt, of a reverted transaction too, counts as success.  The id is *)
(* usable when the first log names the position; a made-up one is used     *)
(* when there is no log.                                                   *)
OpenReceipt(c) ==
    /\ chain[c].open \in {"mined", "reverted"}
    /\ Go(c, "openSent", "hold")
    /\ \E usable \in BOOLEAN :
          /\ usable => chain[c].open = "mined"
          /\ local' = [local EXCEPT ![c].usable = usable,
                                    ![c].holdUntil = now + Hold]
    /\ risk' = RecordPositionOpened(risk, now)
    /\ recorded' = [recorded EXCEPT ![c].open = now]
    /\ UNCHANGED <<now, chain, books, crashes>>

(* waitForTransactionReceipt throws, whatever becomes of the transaction.  *)
OpenWaitFails(c) ==
    /\ Go(c, "openSent", "failedOpen")
    /\ UNCHANGED <<now, risk, local, chain, books, recorded, crashes>>

(* Wrong form: the timer is late for ever.                                 *)
HoldElapsesLate(c) ==
    /\ now > local[c].holdUntil
    /\ Go(c, "hold", "closing")
    /\ UNCHANGED <<now, risk, local, chain, books, recorded, crashes>>

HoldElapses(c) ==
    /\ now >= local[c].holdUntil
    /\ Go(c, "hold", "closing")
    /\ UNCHANGED <<now, risk, local, chain, books, recorded, crashes>>

-----------------------------------------------------------------------------
(* closeMYXPosition.  Its failure, too, gives the slot back.               *)
CloseFails(c) ==
    /\ Go(c, "closing", "failedClose")
    /\ risk' = RecordPositionClosed(risk)
    /\ UNCHANGED <<now, local, chain, books, recorded, crashes>>

(* The simulation only passes for the id of an open position.              *)
CloseSend(c) ==
    /\ local[c].usable
    /\ PositionOpen(c)
    /\ Go(c, "closing", "closeSent")
    /\ chain' = [chain EXCEPT ![c].close = "pending"]
    /\ UNCHANGED <<now, risk, local, books, recorded, crashes>>

(* Wrong form: the receipt is not waited for.                              *)
CloseReceiptNoWait(c) ==
    /\ Go(c, "closeSent", "fees")
    /\ local' = [local EXCEPT ![c].pnlUsd = 0]
    /\ risk' = RecordTradeResult(RecordPositionClosed(risk), now, 0)
    /\ recorded' = [recorded EXCEPT ![c].result = now]
    /\ UNCHANGED <<now, chain, books, crashes>>

CloseReceipt(c) ==
    /\ chain[c].close \in {"mined", "reverted"}
    /\ Go(c, "closeSent", "fees")
    /\ \E read \in IF chain[c].close = "mined" THEN ReadPnl(chain[c].pnl)
                                              ELSE {0} :
          /\ local' = [local EXCEPT ![c].pnlUsd = read]
          /\ risk' = RecordTradeResult(RecordPositionClosed(risk), now, read)
    /\ recorded' = [recorded EXCEPT ![c].result = now]
    /\ UNCHANGED <<now, chain, books, crashes>>

CloseWaitFails(c) ==
    /\ Go(c, "closeSent", "failedClose")
    /\ risk' = RecordPositionClosed(risk)
    /\ UNCHANGED <<now, local, chain, books, recorded, crashes>>

-----------------------------------------------------------------------------
(* Settlement.                                                             *)

(* Paid, or not and then with a mock receipt: nobody looks at the receipt, *)
(* so which of the two it was is not kept here.                            *)
PayInfraFees(c) ==
    /\ Go(c, "fees", "invoice")
    /\ UNCHANGED <<now, risk, local, chain, books, recorded, crashes>>

(* Wrong form: a result of nothing counts as a profit.                     *)
IssueInvoiceForNothing(c) ==
    /\ IF local[c].pnlUsd >= 0
       THEN Go(c, "invoice", "buyback") /\ invoiced' = invoiced \cup {c}
       ELSE Go(c, "invoice", "persist") /\ UNCHANGED invoiced
    /\ UNCHANGED <<now, risk, local, chain, memory, bought, recorded,
                   crashes>>

(* When Pieverse cannot be reached the invoice is made up locally.         *)
IssueInvoice(c) ==
    /\ IF local[c].pnlUsd > 0
       THEN Go(c, "invoice", "buyback") /\ invoiced' = invoiced \cup {c}
       ELSE Go(c, "invoice", "persist") /\ UNCHANGED invoiced
    /\ UNCHANGED <<now, risk, local, chain, memory, bought, recorded,
                   crashes>>

(* The approval or the swap may fail; an amount written with an exponent   *)
(* always does.                                                            *)
ExecuteBuyback(c) ==
    /\ Go(c, "buyback", "persist")
    /\ \/ local[c].pnlUsd < ExponentFrom /\ bought' = bought \cup {c}
       \/ UNCHANGED bought
    /\ UNCHANGED <<now, risk, local, chain, memory, invoiced, recorded,
                   crashes>>

PersistResult(c) ==
    /\ Go(c, "persist", "completed")
    /\ Persist(c)
    /\ UNCHANGED <<now, risk, local, chain, invoiced, bought, recorded,
                   crashes>>

Handler(c) ==
    \/ ReadTreasury(c) \/ BuildContext(c) \/ Consult(c) \/ CheckRisk(c)
    \/ PersistDenial(c)
    \/ OpenFails(c) \/ OpenSend(c) \/ OpenReceipt(c) \/ OpenWaitFails(c)
    \/ HoldElapses(c)
    \/ CloseFails(c) \/ CloseSend(c) \/ CloseReceipt(c) \/ CloseWaitFails(c)
    \/ PayInfraFees(c) \/ IssueInvoice(c) \/ ExecuteBuyback(c)
    \/ PersistResult(c)

-----------------------------------------------------------------------------
(* The chain, the clock and the process.                                   *)
chainOnly == <<now, risk, pc, local, books, recorded, crashes>>

MineOpen(c) ==
    /\ chain[c].open = "pending"
    /\ \E s \in {"mined", "reverted"} : chain' = [chain EXCEPT ![c].open = s]
    /\ UNCHANGED chainOnly

MineClose(c) ==
    /\ chain[c].close = "pending"
    /\ \/ \E p \in PnlValues :
             chain' = [chain EXCEPT ![c].close = "mined", ![c].pnl = p]
       \/ chain' = [chain EXCEPT ![c].close = "reverted"]
    /\ UNCHANGED chainOnly

Tick ==
    /\ \/ now < Horizon
       \/ \E c \in Cycles : pc[c] = "hold" /\ now < local[c].holdUntil
    /\ now' = now + 1
    /\ UNCHANGED <<risk, pc, local, chain, books, recorded, crashes>>

(* The handlers in flight are gone; the module is loaded afresh.           *)
Crash ==
    /\ crashes < MaxCrashes
    /\ crashes' = crashes + 1
    /\ pc' = [c \in Cycles |-> IF pc[c] \in Active THEN "crashed" ELSE pc[c]]
    /\ risk' = InitialRisk(now)
    /\ recorded' = [c \in Cycles |-> NoTimes]
    /\ UNCHANGED <<now, local, chain, books>>

Next ==
    \/ \E c \in Cycles :
          StartCycle(c) \/ Handler(c) \/ MineOpen(c) \/ MineClose(c)
    \/ Tick
    \/ Crash

Spec == Init /\ [][Next]_vars

(* Every await has a timeout and timers fire, so a started handler and the *)
(* clock keep going; nothing obliges the chain to mine.                    *)
FairSpec == Spec /\ WF_vars(Tick) /\ \A c \in Cycles : WF_vars(Handler(c))

-----------------------------------------------------------------------------
(* What holds, whatever the interleaving, the failures and the crashes.    *)

Holding == {c \in Cycles : pc[c] \in {"hold", "closing", "closeSent"}}

(* The count that the risk check limits is exactly the number of handlers  *)
(* between recordPositionOpened and recordPositionClosed: every path out   *)
(* of a close gives the slot back once, and Math.max(0, ..) never hides a  *)
(* second return.                                                          *)
CountMatchesHandlers == risk.openPositionCount = Cardinality(Holding)

(* Nothing reaches the chain that the engine did not approve, on a         *)
(* decision that is a number above the threshold, a treasury above the     *)
(* floor and a size within its share of that treasury ("no trade executes  *)
(* without passing here", riskEngine.ts).  NaN passes every comparison of  *)
(* the engine and is stopped only by the formatting of the amount.         *)
OnlyApprovedOnChain ==
    \A c \in Cycles : chain[c].open # "none" =>
        /\ local[c].verdict = {}
        /\ local[c].decision.confidence \in Percent
        /\ local[c].decision.confidence >= MinConfidence
        /\ local[c].treasury >= MinTreasury
        /\ CappedSize(local[c].decision, local[c].treasury)
              <= 100 * (MaxTradePct * local[c].treasury)

(* A position that is open on the chain while no handler looks after it    *)
(* was left behind in one of four ways: its opening or its closing was     *)
(* reported as failed, the process crashed, or the transaction that was to *)
(* close it reverted.                                                      *)
UnattendedHasCause ==
    \A c \in Cycles : PositionOpen(c) /\ pc[c] \in Ended =>
        \/ pc[c] \in {"failedOpen", "failedClose", "crashed"}
        \/ chain[c].close = "reverted"

(* Two openings one process records less than the timelock apart were      *)
(* approved side by side: the later one was checked no later than the      *)
(* earlier one was recorded.  The time of check is the only way around     *)
(* the timelock.                                                           *)
TimelockBreachNeedsOverlap ==
    \A c, d \in Cycles :
        /\ recorded[c].open > 0
        /\ recorded[c].open < recorded[d].open
        /\ recorded[d].open < recorded[c].open + Timelock
        => recorded[d].check <= recorded[c].open

(* The daily figure never shows a loss: closeMYXPosition reads an unsigned *)
(* word, so the daily-loss check denies no trade, ever.                    *)
NoLossIsBooked ==
    /\ risk.dailyPnlUsd >= 0
    /\ MaxDailyLossPct > 0 =>
          \A c \in Cycles : "dailyLoss" \notin local[c].verdict

ReadSince(t, strict) ==
    SumFunctionOnSet([c \in Cycles |-> local[c].pnlUsd],
        {c \in Cycles : /\ recorded[c].result > 0
                        /\ recorded[c].result >= t
                        /\ strict => recorded[c].result # t})

(* The daily figure is the sum of the results this process read since the  *)
(* midnight that dailyResetAt holds, up to those of that very instant,     *)
(* which the strict comparison in resetDailyIfNeeded may leave to the day  *)
(* before.                                                                 *)
DailyFigureIsToday ==
    /\ ReadSince(risk.dailyResetAt, TRUE) <= risk.dailyPnlUsd
    /\ risk.dailyPnlUsd <= ReadSince(risk.dailyResetAt, FALSE)

(* A Profit-Sharing Invoice, and so a buyback, is only ever issued for a   *)
(* position that was closed on the chain, and the audit report never       *)
(* quotes an invoice of another kind, whatever closings were reverted or   *)
(* given up in between.                                                    *)
InvoicedIsClosed ==
    /\ bought \subseteq invoiced
    /\ \A c \in invoiced : chain[c].close = "mined"
    /\ \A i \in 1 .. Len(memory) :
          memory[i].invoice => memory[i].cycle \in invoiced

(* "Runs the trade cycle on a configurable interval without human          *)
(* intervention" (scheduler.ts), yet a cycle may end while it builds its   *)
(* context, and then some record in memory has no number to quote.  Such a *)
(* record is always of a cycle that was denied, and never for the          *)
(* confidence that it lacks.                                               *)
UnquotableWasDenied ==
    /\ \A c \in Cycles : pc[c] = "brokenContext" =>
          \E i \in 1 .. Len(memory) : ~memory[i].quotable
    /\ \A i \in 1 .. Len(memory) : ~memory[i].quotable =>
          LET verdict == local[memory[i].cycle].verdict
          IN  verdict # {} /\ "confidence" \notin verdict

(* Every handler that was called comes to an end: no await, timer or       *)
(* failure leaves it suspended for ever, so a position that is held is     *)
(* eventually asked to close, or its process has crashed.                  *)
EveryCycleEnds == \A c \in Cycles : pc[c] \in Active ~> pc[c] \in Ended

-----------------------------------------------------------------------------
(* The detailed cycle implements the abstract trader.                      *)

StageOf(call) ==
    CASE call = "idle" -> "idle"
      [] call \in {"treasury", "context", "consult", "check"} -> "deciding"
      [] call \in {"opening", "openSent"} -> "approved"
      [] call \in {"hold", "closing", "closeSent"} -> "holding"
      [] call \in {"fees", "invoice", "buyback", "persist"} -> "settling"
      [] OTHER -> "over"

Engine == INSTANCE Trader WITH
              stage  <- [c \in Cycles |-> StageOf(pc[c])],
              opened <- [c \in Cycles |-> recorded[c].open]

(* The counter, the stamp of the last trade and the handler's many exits   *)
(* amount to what Trader promises: an approval finds a slot that no        *)
(* handler holds and every opening of this process a timelock away, a      *)
(* position is held between one opening and one closing, and an invoice    *)
(* is issued once, after the holding.                                      *)
ImplementsTrader == Engine!Spec

=============================================================================
