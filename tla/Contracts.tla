------------------------------ MODULE Contracts ------------------------------
(***************************************************************************)
(* The contracts of AuraLens on one chain: the treasury wallet             *)
(* (contracts/AuraLensWallet.sol), the perpetuals router of the test       *)
(* network (contracts/MockMYXRouter.sol) and the token they share          *)
(* (MockERC20), with the plugin that opens positions from the agent's own  *)
(* account (src/providers/myx.ts).                                         *)
(*                                                                         *)
(* An action is one transaction that does not revert, with every call it   *)
(* makes from contract to contract; one that reverts changes nothing and   *)
(* is left out.  `now' is block.timestamp.  The wallet's issueInvoice,     *)
(* logDecisionProof and views change no storage.                           *)
(***************************************************************************)
EXTENDS MockERC20, Sequences

CONSTANTS
    Agents,         \* the accounts that may be the agent
    Plugin,         \* BNB_PRIVATE_KEY's account: the first agent
    Owner,          \* the wallet's owner
    Wallet, Router, \* the two contracts
    Usdt,           \* the token's own address
    External,       \* a contract that is not in this repository (MYX V2)
    InitialBps, MaxBps, BpsBase,     \* 100, 500 and 10000
    InitialTimelock, Floor,          \* 30 and 10 seconds
    PnlPct,         \* the result of a position on the test network, 5%
    ProviderUnit,   \* 10^6: one dollar, as myx.ts formats it
    Leverage,       \* MYX_DEFAULT_LEVERAGE
    Start,          \* the time of deployment
    Amounts, Sizes, BpsChoices, TimelockChoices, Pnls, Buybacks, \* inputs
    Approvals,      \* inputs: who may approve whom
    MaxPositions, MaxTrades, MaxWithdrawn, Horizon \* bounds

Humans == Agents \cup {Owner}
Callers == Humans \cup {External} \* who starts a call, or answers one with calls

ASSUME ContractsAssumption ==
    /\ Accounts = Callers \cup {Wallet, Router, Usdt}
    /\ Plugin \in Agents
    /\ {Wallet, Router, Usdt} \cap Callers = {} /\ External \notin Humans
    /\ Wallet # Router /\ Wallet # Usdt /\ Router # Usdt
    /\ Accounts \cap Int = {}
    /\ {InitialBps, MaxBps, InitialTimelock, Floor, PnlPct, MaxPositions,
        MaxTrades, MaxWithdrawn, Horizon} \subseteq Nat
    /\ {BpsBase, ProviderUnit, Leverage, Start} \subseteq Nat \ {0}
    /\ InitialBps <= MaxBps /\ MaxBps <= BpsBase
    /\ Floor <= InitialTimelock /\ 0 < Floor
    /\ PnlPct <= 100
    /\ Amounts \cup Sizes \cup BpsChoices \cup TimelockChoices \cup Buybacks
          \subseteq Nat
    /\ Pnls \subseteq Int
    /\ Approvals \subseteq (Callers \cup {Wallet}) \X Accounts

VARIABLES
    now,
    token,      \* the storage of MockERC20
    positions,  \* positions[id] of the router, id being its _nonce
    wallet,     \* the storage of AuraLensWallet
    held,       \* the position ids the plugin took from its receipts
    authorized, \* history: the trades the wallet authorized
    withdrawn   \* history: what the owner took out of the treasury

vars == <<now, token, positions, wallet, held, authorized, withdrawn>>

-----------------------------------------------------------------------------
Position == [collateral : Nat, open : BOOLEAN]

Storage == [agentAddress : Agents, maxTradeBps : Nat, timelockSeconds : Nat,
            lastTradeAt : Nat, paused : BOOLEAN, totalPnlUsd : Nat,
            totalBuybacksUsd : Nat]

(* What the calldata of a trade asks of the address it names.              *)
Calls == {"nothing", "open", "close", "approve", "move"}

Trade == [at : Nat, amount : Nat, router : Accounts, call : Calls]

TypeOK ==
    /\ now \in Nat \ {0}
    /\ token \in Token
    /\ positions \in Seq(Position)
    /\ wallet \in Storage
    /\ held \in Seq(Nat \cup Accounts)
    /\ authorized \in Seq(Trade)
    /\ withdrawn \in Nat

Init ==
    /\ now = Start
    /\ token = EmptyToken
    /\ positions = <<>>
    /\ wallet = [agentAddress |-> Plugin, maxTradeBps |-> InitialBps,
                 timelockSeconds |-> InitialTimelock, lastTradeAt |-> 0,
                 paused |-> FALSE, totalPnlUsd |-> 0, totalBuybacksUsd |-> 0]
    /\ held = <<>> /\ authorized = <<>> /\ withdrawn = 0

-----------------------------------------------------------------------------
(* The token: what its functions make of the tokens t.                     *)
Mints(t, u) ==
    \E amount \in Amounts, to \in Accounts :
        CanMint(t, amount) /\ u = Mint(t, to, amount)

Sends(t, from, u) ==
    \E amount \in Amounts, to \in Accounts :
        CanTransfer(t, from, amount) /\ u = Transfer(t, from, to, amount)

Pulls(t, spender, u) ==
    \E amount \in Amounts, from, to \in Accounts :
        /\ CanTransferFrom(t, spender, from, amount)
        /\ u = TransferFrom(t, spender, from, to, amount)

Approves(t, owner, u) ==
    \E amount \in Amounts, a \in Approvals :
        a[1] = owner /\ u = Approve(t, owner, a[2], amount)

onlyToken == <<now, positions, wallet, held, authorized, withdrawn>>

MintTokens == Mints(token, token') /\ UNCHANGED onlyToken
SendTokens(from) == Sends(token, from, token') /\ UNCHANGED onlyToken
PullTokens(spender) == Pulls(token, spender, token') /\ UNCHANGED onlyToken
ApproveTokens(owner) == Approves(token, owner, token') /\ UNCHANGED onlyToken

-----------------------------------------------------------------------------
(* The router.  openPosition pulls the collateral from its caller.         *)
CanOpen(t, caller, collateral) ==
    collateral > 0 /\ CanTransferFrom(t, Router, caller, collateral)

NextId == Len(positions) + 1

OpenLogs(caller, collateral) ==
    << TransferEvent(caller, collateral), [topic1 |-> NextId, data |-> collateral] >>

Opens(t, caller, collateral) ==
    /\ Len(positions) < MaxPositions
    /\ CanOpen(t, caller, collateral)
    /\ token' = TransferFrom(t, Router, caller, Router, collateral)
    /\ positions' = Append(positions, [collateral |-> collateral, open |-> TRUE])

(* openMYXPosition with the receipt of the router's openPosition: dollars  *)
(* become units of the provider's own scale, and the position's id is the  *)
(* first topic of the first log.                                           *)
PluginOpens ==
    \E size \in Sizes :
        LET collateral == (size * ProviderUnit) \div Leverage
            first      == OpenLogs(Plugin, collateral)[1]
        IN  /\ Opens(token, Plugin, collateral)
            /\ held' = Append(held, first.topic1)
            /\ UNCHANGED <<now, wallet, authorized, withdrawn>>

(* A third of the blocks loses; a profit is minted with the collateral, a  *)
(* loss pays the rest out of what the router holds.                        *)
Profitable == now % 3 # 0
PnlAbs(id) == (positions[id].collateral * PnlPct) \div 100

(* Wrong form: a profit, too, is paid from the router's own tokens.        *)
PayoutFromPool(t, caller, id) ==
    LET amount == positions[id].collateral
                     + (IF Profitable THEN PnlAbs(id) ELSE -PnlAbs(id))
    IN  Transfer(t, Router, caller, amount)

Payout(t, caller, id) ==
    IF Profitable
    THEN Mint(t, caller, positions[id].collateral + PnlAbs(id))
    ELSE Transfer(t, Router, caller, positions[id].collateral - PnlAbs(id))

CanPayout(t, id) ==
    IF Profitable
    THEN CanMint(t, positions[id].collateral + PnlAbs(id))
    ELSE CanTransfer(t, Router, positions[id].collateral - PnlAbs(id))

Closes(t, caller) ==
    \E id \in DOMAIN positions :
        /\ positions[id].open
        /\ CanPayout(t, id)
        /\ positions' = [positions EXCEPT ![id].open = FALSE]
        /\ token' = Payout(t, caller, id)

ClosePosition(caller) ==
    Closes(token, caller) /\ UNCHANGED <<now, wallet, held, authorized, withdrawn>>

-----------------------------------------------------------------------------
(* The wallet: onlyAgent and onlyOwner.                                    *)
OnlyAgent(sender) == sender = wallet.agentAddress
OnlyOwner(sender) == sender = Owner

Treasury == token.balanceOf[Wallet]
MaxTradeAmount == (Treasury * wallet.maxTradeBps) \div BpsBase

(* Wrong form: the time of the trade is not kept.                          *)
StampNever(w) == w

Stamp(w) == [w EXCEPT !.lastTradeAt = now]

(* timelockPassed; the sum reverts when it overflows.                      *)
TimelockPassed ==
    /\ wallet.lastTradeAt + wallet.timelockSeconds < Word
    /\ now >= wallet.lastTradeAt + wallet.timelockSeconds

(* authorizeTrade sends the amount to any address and then calls it with   *)
(* any data, as the wallet.  A call that reverts reverts the transfer too. *)
(* What a contract outside the repository does with what it is given is    *)
(* its own: External is among the callers.                                 *)
Called(router, call, sent) ==
    \/ call = "nothing" /\ token' = sent /\ UNCHANGED positions
    \/ /\ call = "open" /\ router = Router
       /\ \E collateral \in Amounts : Opens(sent, Wallet, collateral)
    \/ call = "close" /\ router = Router /\ Closes(sent, Wallet)
    \/ /\ call = "approve" /\ router = Usdt
       /\ Approves(sent, Wallet, token') /\ UNCHANGED positions
    \/ /\ call = "move" /\ router = Usdt
       /\ \/ Mints(sent, token')
          \/ Sends(sent, Wallet, token')
          \/ Pulls(sent, Wallet, token')
       /\ UNCHANGED positions

AuthorizeTrade(sender) ==
    OnlyAgent(sender) /\ \E amount \in Amounts, router \in Accounts, call \in Calls :
        LET trade == [at |-> now, amount |-> amount, router |-> router, call |-> call]
        IN  /\ Len(authorized) < MaxTrades
            /\ ~wallet.paused
            /\ TimelockPassed
            /\ amount <= MaxTradeAmount
            /\ amount > 0
            /\ wallet' = Stamp(wallet)
            /\ Called(router, call, Transfer(token, Wallet, router, amount))
            /\ authorized' = Append(authorized, trade)
            /\ UNCHANGED <<now, held, withdrawn>>

onlyWallet == <<now, token, positions, held, authorized, withdrawn>>

SettleTrade(sender) ==
    OnlyAgent(sender) /\ \E pnl \in Pnls :
        /\ pnl > 0 => wallet.totalPnlUsd + pnl < Word
        /\ wallet' = [wallet EXCEPT !.totalPnlUsd = IF pnl > 0 THEN @ + pnl
                                                               ELSE @]
        /\ UNCHANGED onlyWallet

RecordBuyback(sender) ==
    OnlyAgent(sender) /\ \E amount \in Buybacks :
        /\ wallet.totalBuybacksUsd + amount < Word
        /\ wallet' = [wallet EXCEPT !.totalBuybacksUsd = @ + amount]
        /\ UNCHANGED onlyWallet

SetAgent(sender) ==
    OnlyOwner(sender) /\ \E a \in Agents :
        wallet' = [wallet EXCEPT !.agentAddress = a] /\ UNCHANGED onlyWallet

(* Wrong form: any share is taken.                                         *)
SetMaxTradeBpsAny(sender) ==
    OnlyOwner(sender) /\ \E bps \in BpsChoices :
        /\ wallet' = [wallet EXCEPT !.maxTradeBps = bps]
        /\ UNCHANGED onlyWallet

SetMaxTradeBps(sender) ==
    OnlyOwner(sender) /\ \E bps \in BpsChoices :
        /\ bps <= MaxBps
        /\ wallet' = [wallet EXCEPT !.maxTradeBps = bps]
        /\ UNCHANGED onlyWallet

SetTimelockSeconds(sender) ==
    OnlyOwner(sender) /\ \E seconds \in TimelockChoices :
        /\ seconds >= Floor
        /\ wallet' = [wallet EXCEPT !.timelockSeconds = seconds]
        /\ UNCHANGED onlyWallet

Pause(sender) ==
    /\ OnlyOwner(sender)
    /\ wallet' = [wallet EXCEPT !.paused = TRUE]
    /\ UNCHANGED onlyWallet

Unpause(sender) ==
    /\ OnlyOwner(sender)
    /\ wallet' = [wallet EXCEPT !.paused = FALSE]
    /\ UNCHANGED onlyWallet

EmergencyWithdraw(sender) ==
    OnlyOwner(sender) /\ \E amount \in Amounts :
        /\ withdrawn + amount <= MaxWithdrawn
        /\ CanTransfer(token, Wallet, amount)
        /\ token' = Transfer(token, Wallet, Owner, amount)
        /\ withdrawn' = withdrawn + amount
        /\ UNCHANGED <<now, positions, wallet, held, authorized>>

-----------------------------------------------------------------------------
NextBlock ==
    /\ now < Horizon
    /\ now' = now + 1
    /\ UNCHANGED <<token, positions, wallet, held, authorized, withdrawn>>

Next ==
    \/ MintTokens
    \/ \E c \in Callers :
          \/ SendTokens(c) \/ PullTokens(c) \/ ApproveTokens(c)
          \/ ClosePosition(c)
    \/ \E h \in Humans :
          \/ AuthorizeTrade(h) \/ SettleTrade(h) \/ RecordBuyback(h)
          \/ SetAgent(h) \/ SetMaxTradeBps(h) \/ SetTimelockSeconds(h)
          \/ Pause(h) \/ Unpause(h) \/ EmergencyWithdraw(h)
    \/ PluginOpens
    \/ NextBlock

Spec == Init /\ [][Next]_vars

-----------------------------------------------------------------------------
(* What holds.                                                             *)

(* The collateral of the positions that are still open.                    *)
Locked(p) == IF p.open THEN p.collateral ELSE 0

LockedIn(ps) ==
    LET sum[n \in 0 .. Len(ps)] ==
            IF n = 0 THEN 0 ELSE sum[n - 1] + Locked(ps[n])
    IN  sum[Len(ps)]

OpenCollateral == LockedIn(positions)

(* The router can pay every position out: profits are minted and losses    *)
(* stay behind, so no closing is ever refused for want of tokens.          *)
RouterCoversPositions == token.balanceOf[Router] >= OpenCollateral

(* Counting authorizations is counting time: k further trades take at      *)
(* least k times the shortest timelock, however the owner changes the      *)
(* timelock in between ("Enforces spending cap ... and timelock",          *)
(* AuraLensWallet.sol).                                                    *)
PacedSpending ==
    \A i, j \in DOMAIN authorized :
        i < j => authorized[j].at - authorized[i].at >= Floor * (j - i)

(* The wallet pushes the collateral and the router pulls it again, so no   *)
(* opening is authorized on the router of this repository unless an        *)
(* earlier trade named the token in the router's place and approved a      *)
(* spender: no function of the wallet is meant to.                         *)
OpeningNeedsApproval ==
    \A j \in DOMAIN authorized :
        authorized[j].call = "open" =>
            \E i \in 1 .. j - 1 : authorized[i].call = "approve"

(* The wallet implements the promise to its owner, as far as it goes: the  *)
(* cap is on what authorizeTrade sends, and no longer bounds the treasury  *)
(* once a trade's call has had the token move or lend the wallet's tokens. *)
Unbound == \E i \in DOMAIN authorized : authorized[i].call \in {"approve", "move"}

Paced == INSTANCE PacedSpender WITH time <- now, treasury <- Treasury,
                                    lastSpend <- wallet.lastTradeAt,
                                    unbound <- Unbound
PacedSpenderSpec == Paced!Spec

-----------------------------------------------------------------------------
(* What the documents say, and the code does not do.                       *)

(* "This lets AuraLens run the full trade cycle on testnet with real txs"  *)
(* (MockMYXRouter.sol): the plugin can close what it opened, since the id  *)
(* it holds names the position.                                            *)
HeldIdsNamePositions == \A i \in DOMAIN held : held[i] \in DOMAIN positions

=============================================================================
