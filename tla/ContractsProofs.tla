--------------------------- MODULE ContractsProofs ---------------------------
(***************************************************************************)
(* Theorems about Contracts: the treasury wallet implements PacedSpender,  *)
(* the router can pay out every position it has open, and the token's      *)
(* balances add up to its supply.                                          *)
(***************************************************************************)
EXTENDS Contracts, SequenceTheorems, FiniteSetTheorems,
        WellFoundedInduction, TLAPS

-----------------------------------------------------------------------------
(* Arithmetic the prover needs in small steps.                             *)

(* A quotient is rounded down.                                             *)
LEMMA DivFloor ==
    ASSUME NEW n \in Nat, NEW k \in Nat \ {0}
    PROVE  n \div k \in Nat /\ k * (n \div k) <= n
  OBVIOUS

(* Multiplying keeps an order ...                                          *)
LEMMA TimesMonotone ==
    ASSUME NEW a \in Nat, NEW b \in Nat, a <= b, NEW k \in Nat
    PROVE  k * a <= k * b
  <1>1. PICK d \in Nat : b = a + d
    <2>1. b = a + (b - a) /\ b - a \in Nat
      OBVIOUS
    <2> QED BY <2>1
  <1>2. k * b = k * a + k * d /\ k * d \in Nat /\ k * a \in Nat
    BY <1>1
  <1> QED BY <1>2

(* ... and a factor that is not zero cancels.                              *)
LEMMA TimesCancels ==
    ASSUME NEW a \in Nat, NEW b \in Nat, NEW k \in Nat \ {0}, k * a <= k * b
    PROVE  a <= b
  <1> SUFFICES ASSUME a > b PROVE FALSE
    OBVIOUS
  <1>1. PICK d \in Nat : a = b + 1 + d
    <2>1. a = b + 1 + (a - b - 1) /\ a - b - 1 \in Nat
      OBVIOUS
    <2> QED BY <2>1
  <1>2. k * a = k * b + k + k * d /\ k * d \in Nat /\ k * b \in Nat
    BY <1>1
  <1> QED BY <1>2

-----------------------------------------------------------------------------
(* The token's functions.                                                  *)

(* Minting is well typed and only raises a balance.                        *)
LEMMA MintFacts ==
    ASSUME NEW t \in Token, NEW to \in Accounts, NEW amount \in Nat
    PROVE  /\ Mint(t, to, amount) \in Token
           /\ Mint(t, to, amount).allowance = t.allowance
           /\ \A a \in Accounts :
                 Mint(t, to, amount).balanceOf[a] >= t.balanceOf[a]
  <1> DEFINE b == [t.balanceOf EXCEPT ![to] = @ + amount]
             u == [t EXCEPT !.balanceOf = b]
  <1>0. b \in [Accounts -> Nat] /\ \A a \in Accounts : b[a] >= t.balanceOf[a]
    BY DEF Token
  <1> HIDE DEF b
  <1>1. /\ u \in Token
        /\ u.allowance = t.allowance
        /\ \A a \in Accounts : u.balanceOf[a] >= t.balanceOf[a]
    BY <1>0 DEF Token
  <1>2. Mint(t, to, amount) = [u EXCEPT !.totalSupply = @ + amount]
    BY DEF Mint, b
  <1> HIDE DEF u
  <1> QED BY <1>1, <1>2 DEF Token

(* A transfer between two accounts moves exactly the amount.               *)
LEMMA TransferFacts ==
    ASSUME NEW t \in Token, NEW from \in Accounts, NEW to \in Accounts,
           NEW amount \in Nat, CanTransfer(t, from, amount)
    PROVE  /\ Transfer(t, from, to, amount) \in Token
           /\ Transfer(t, from, to, amount).allowance = t.allowance
           /\ \A a \in Accounts \ {from} :
                 Transfer(t, from, to, amount).balanceOf[a] >= t.balanceOf[a]
           /\ Transfer(t, from, to, amount).balanceOf[from]
                 >= t.balanceOf[from] - amount
           /\ from # to =>
                 Transfer(t, from, to, amount).balanceOf[from]
                    = t.balanceOf[from] - amount
  <1> DEFINE b == [t.balanceOf EXCEPT ![from] = @ - amount]
             c == [b EXCEPT ![to] = @ + amount]
             u == [t EXCEPT !.balanceOf = b]
  <1>1. /\ b \in [Accounts -> Nat]
        /\ \A a \in Accounts \ {from} : b[a] = t.balanceOf[a]
        /\ b[from] = t.balanceOf[from] - amount
    BY DEF Token, CanTransfer
  <1>2. u.balanceOf = b
    BY DEF Token
  <1>3. Transfer(t, from, to, amount) = [u EXCEPT !.balanceOf = c]
    BY <1>2 DEF Transfer
  <1> HIDE DEF b
  <1>4. /\ c \in [Accounts -> Nat]
        /\ \A a \in Accounts \ {from} : c[a] >= t.balanceOf[a]
        /\ c[from] >= t.balanceOf[from] - amount
        /\ from # to => c[from] = t.balanceOf[from] - amount
    BY <1>1 DEF Token
  <1>5. u \in Token /\ u.allowance = t.allowance
    BY <1>1 DEF Token
  <1> HIDE DEF c, u
  <1> QED BY <1>3, <1>4, <1>5 DEF Token

(* A pulled transfer also uses up the allowance of the one who gives.      *)
LEMMA TransferFromFacts ==
    ASSUME NEW t \in Token, NEW spender \in Accounts, NEW from \in Accounts,
           NEW to \in Accounts, NEW amount \in Nat,
           CanTransferFrom(t, spender, from, amount)
    PROVE  /\ TransferFrom(t, spender, from, to, amount) \in Token
           /\ \A a \in Accounts \ {from} :
                 /\ TransferFrom(t, spender, from, to, amount).allowance[a]
                       = t.allowance[a]
                 /\ TransferFrom(t, spender, from, to, amount).balanceOf[a]
                       >= t.balanceOf[a]
           /\ TransferFrom(t, spender, from, to, amount).balanceOf[from]
                 >= t.balanceOf[from] - amount
  <1> DEFINE l == [t.allowance[from] EXCEPT ![spender] = @ - amount]
             m == [t.allowance EXCEPT ![from] = l]
             u == [t EXCEPT !.allowance = m]
  <1>a. l \in [Accounts -> Nat]
    BY DEF Token, CanTransferFrom
  <1>b. u = [t EXCEPT !.allowance[from][spender] = @ - amount]
    OBVIOUS
  <1> HIDE DEF l
  <1>c. /\ m \in [Accounts -> [Accounts -> Nat]]
        /\ \A a \in Accounts \ {from} : m[a] = t.allowance[a]
    BY <1>a DEF Token
  <1> HIDE DEF m
  <1>1. /\ u \in Token
        /\ u.balanceOf = t.balanceOf
        /\ \A a \in Accounts \ {from} : u.allowance[a] = t.allowance[a]
    BY <1>c DEF Token
  <1>2. CanTransfer(u, from, amount)
    BY <1>1 DEF CanTransfer, CanTransferFrom
  <1>3. TransferFrom(t, spender, from, to, amount) = Transfer(u, from, to, amount)
    BY <1>b DEF TransferFrom
  <1> HIDE DEF u
  <1> QED BY <1>1, <1>2, <1>3, TransferFacts

(* ... and raises no allowance.                                            *)
LEMMA PullUsesAllowance ==
    ASSUME NEW t \in Token, NEW spender \in Accounts, NEW from \in Accounts,
           NEW to \in Accounts, NEW amount \in Nat,
           CanTransferFrom(t, spender, from, amount)
    PROVE  \A s \in Accounts :
              TransferFrom(t, spender, from, to, amount).allowance[from][s]
                 <= t.allowance[from][s]
  <1> DEFINE l == [t.allowance[from] EXCEPT ![spender] = @ - amount]
             m == [t.allowance EXCEPT ![from] = l]
             u == [t EXCEPT !.allowance = m]
  <1>1. l \in [Accounts -> Nat] /\ \A s \in Accounts : l[s] <= t.allowance[from][s]
    BY DEF Token, CanTransferFrom
  <1>2. TransferFrom(t, spender, from, to, amount) = Transfer(u, from, to, amount)
    BY DEF TransferFrom
  <1> HIDE DEF l
  <1>3. m \in [Accounts -> [Accounts -> Nat]] /\ m[from] = l
    BY <1>1 DEF Token
  <1> HIDE DEF m
  <1>4. u \in Token /\ u.allowance = m /\ u.balanceOf = t.balanceOf
    BY <1>3 DEF Token
  <1> HIDE DEF u
  <1>5. Transfer(u, from, to, amount).allowance = m
    BY <1>4, TransferFacts DEF CanTransfer, CanTransferFrom
  <1> QED BY <1>1, <1>2, <1>3, <1>5

(* A transfer to another account credits it with the amount.               *)
LEMMA TransferCredits ==
    ASSUME NEW t \in Token, NEW from \in Accounts, NEW to \in Accounts,
           NEW amount \in Nat, CanTransfer(t, from, amount), from # to
    PROVE  Transfer(t, from, to, amount).balanceOf[to] = t.balanceOf[to] + amount
  <1> DEFINE b == [t.balanceOf EXCEPT ![from] = @ - amount]
             c == [b EXCEPT ![to] = @ + amount]
             u == [t EXCEPT !.balanceOf = b]
  <1>1. b \in [Accounts -> Nat] /\ b[to] = t.balanceOf[to]
    BY DEF Token, CanTransfer
  <1>2. u.balanceOf = b
    BY DEF Token
  <1>3. Transfer(t, from, to, amount) = [u EXCEPT !.balanceOf = c]
    BY <1>2 DEF Transfer
  <1> HIDE DEF b
  <1>4. c[to] = t.balanceOf[to] + amount
    BY <1>1
  <1>5. u \in Token
    BY <1>1 DEF Token
  <1> HIDE DEF c, u
  <1> QED BY <1>3, <1>4, <1>5 DEF Token

LEMMA PullCredits ==
    ASSUME NEW t \in Token, NEW spender \in Accounts, NEW from \in Accounts,
           NEW to \in Accounts, NEW amount \in Nat,
           CanTransferFrom(t, spender, from, amount), from # to
    PROVE  TransferFrom(t, spender, from, to, amount).balanceOf[to]
              = t.balanceOf[to] + amount
  <1> DEFINE l == [t.allowance[from] EXCEPT ![spender] = @ - amount]
             m == [t.allowance EXCEPT ![from] = l]
             u == [t EXCEPT !.allowance = m]
  <1>1. l \in [Accounts -> Nat]
    BY DEF Token, CanTransferFrom
  <1>2. TransferFrom(t, spender, from, to, amount) = Transfer(u, from, to, amount)
    BY DEF TransferFrom
  <1> HIDE DEF l
  <1>3. m \in [Accounts -> [Accounts -> Nat]]
    BY <1>1 DEF Token
  <1> HIDE DEF m
  <1>4. u \in Token /\ u.balanceOf = t.balanceOf
    BY <1>3 DEF Token
  <1> HIDE DEF u
  <1> QED BY <1>2, <1>4, TransferCredits DEF CanTransfer, CanTransferFrom

(* No account may take from this one.                                      *)
ApprovesNobody(t, who) == \A s \in Accounts : t.allowance[who][s] = 0

(* Moving tokens raises nobody's allowance, and takes from an account that *)
(* approves nobody only at its own call.                                   *)
LEMMA MoveFacts ==
    ASSUME NEW t \in Token, NEW caller \in Accounts, NEW who \in Accounts,
           NEW u, Mints(t, u) \/ Sends(t, caller, u) \/ Pulls(t, caller, u)
    PROVE  /\ u \in Token
           /\ ApprovesNobody(t, who) =>
                 /\ ApprovesNobody(u, who)
                 /\ who # caller => u.balanceOf[who] >= t.balanceOf[who]
  <1>1. Amounts \subseteq Nat /\ t.balanceOf[who] \in Nat
    BY ContractsAssumption DEF Token
  <1>2. CASE Mints(t, u)
    <2>1. PICK amount \in Amounts, to \in Accounts : u = Mint(t, to, amount)
      BY <1>2 DEF Mints
    <2> QED BY <1>1, <2>1, MintFacts DEF ApprovesNobody
  <1>3. CASE Sends(t, caller, u)
    <2>1. PICK amount \in Amounts, to \in Accounts :
             CanTransfer(t, caller, amount) /\ u = Transfer(t, caller, to, amount)
      BY <1>3 DEF Sends
    <2> QED BY <1>1, <2>1, TransferFacts DEF ApprovesNobody
  <1>4. CASE Pulls(t, caller, u)
    <2>1. PICK amount \in Amounts, from \in Accounts, to \in Accounts :
             /\ CanTransferFrom(t, caller, from, amount)
             /\ u = TransferFrom(t, caller, from, to, amount)
      BY <1>4 DEF Pulls
    <2>2. /\ u \in Token
          /\ \A a \in Accounts \ {from} :
                /\ u.allowance[a] = t.allowance[a]
                /\ u.balanceOf[a] >= t.balanceOf[a]
          /\ u.balanceOf[from] >= t.balanceOf[from] - amount
      BY <1>1, <2>1, TransferFromFacts
    <2>3. CASE who # from
      BY <2>2, <2>3 DEF ApprovesNobody
    <2>4. CASE who = from
      <3> SUFFICES ASSUME ApprovesNobody(t, who)
                   PROVE  /\ ApprovesNobody(u, who)
                          /\ u.balanceOf[who] >= t.balanceOf[who]
        BY <2>2
      <3>1. amount = 0
        BY <1>1, <2>1, <2>4 DEF CanTransferFrom, ApprovesNobody
      <3>2. \A s \in Accounts : u.allowance[who][s] <= t.allowance[who][s]
        BY <1>1, <2>1, <2>4, PullUsesAllowance
      <3>3. \A s \in Accounts : u.allowance[who][s] \in Nat
        BY <2>2 DEF Token
      <3> QED BY <1>1, <2>2, <2>4, <3>1, <3>2, <3>3 DEF ApprovesNobody
    <2> QED BY <2>3, <2>4
  <1> QED BY <1>2, <1>3, <1>4

(* An approval is the approver's own and moves nothing.                    *)
LEMMA ApproveFacts ==
    ASSUME NEW t \in Token, NEW owner \in Accounts, NEW u, Approves(t, owner, u)
    PROVE  /\ u \in Token
           /\ u.balanceOf = t.balanceOf /\ u.totalSupply = t.totalSupply
           /\ \A who \in Accounts \ {owner} : u.allowance[who] = t.allowance[who]
  <1>1. PICK amount \in Amounts, a \in Approvals :
           a[1] = owner /\ u = Approve(t, owner, a[2], amount)
    BY DEF Approves
  <1>2. amount \in Nat /\ a[2] \in Accounts
    BY ContractsAssumption
  <1> DEFINE l == [t.allowance[owner] EXCEPT ![a[2]] = amount]
             m == [t.allowance EXCEPT ![owner] = l]
  <1>3. u = [t EXCEPT !.allowance = m]
    BY <1>1 DEF Approve
  <1>4. l \in [Accounts -> Nat]
    BY <1>2 DEF Token
  <1> HIDE DEF l
  <1>5. /\ m \in [Accounts -> [Accounts -> Nat]]
        /\ \A who \in Accounts \ {owner} : m[who] = t.allowance[who]
    BY <1>4 DEF Token
  <1> HIDE DEF m
  <1> QED BY <1>3, <1>5 DEF Token

-----------------------------------------------------------------------------
(* The wallet's limits hold, and it approves a spender by a trade alone.   *)
WithinLimits == wallet.maxTradeBps <= MaxBps /\ wallet.timelockSeconds >= Floor

Approved == \E i \in DOMAIN authorized : authorized[i].call = "approve"

WalletInv == /\ TypeOK
             /\ WithinLimits
             /\ Approved \/ ApprovesNobody(token, Wallet)

(* The last authorization is no younger than the wallet's own stamp.       *)
Stamped ==
    authorized # <<>> => authorized[Len(authorized)].at <= wallet.lastTradeAt

PaceInv == WalletInv /\ Stamped /\ PacedSpending /\ OpeningNeedsApproval

LEMMA Roles ==
    /\ Plugin \in Accounts /\ Plugin # Wallet /\ Plugin # Router
    /\ Owner \in Accounts /\ Owner # Wallet /\ Owner # Router
    /\ Router \in Accounts /\ Router # Wallet
    /\ Wallet \in Accounts /\ Usdt \in Accounts
    /\ Usdt # Router /\ Usdt # Wallet
    /\ Humans \subseteq Callers
    /\ Callers \subseteq Accounts /\ Wallet \notin Callers /\ Router \notin Callers
  BY ContractsAssumption DEF Humans, Callers

LEMMA InitWalletInv == Init => WalletInv
  <1> SUFFICES ASSUME Init PROVE WalletInv
    OBVIOUS
  <1>1. EmptyToken \in Token
    BY DEF EmptyToken, Token
  <1>2. wallet \in Storage
    BY ContractsAssumption DEF Init, Storage
  <1>3. TypeOK
    BY <1>1, <1>2, EmptySeq, ContractsAssumption DEF Init, TypeOK
  <1>4. ApprovesNobody(token, Wallet)
    BY Roles DEF Init, ApprovesNobody, EmptyToken
  <1>5. WithinLimits
    BY ContractsAssumption DEF Init, WithinLimits
  <1> QED BY <1>3, <1>4, <1>5 DEF WalletInv

(* What a position pays is at most its collateral when it loses.           *)
LEMMA PnlBound ==
    ASSUME TypeOK, NEW id \in DOMAIN positions
    PROVE  /\ positions[id].collateral \in Nat
           /\ PnlAbs(id) \in Nat
           /\ PnlAbs(id) <= positions[id].collateral
  <1> DEFINE c == positions[id].collateral
  <1>1. c \in Nat
    <2>1. positions[id] \in Position
      BY ElementOfSeq, LenProperties DEF TypeOK
    <2> QED BY <2>1 DEF Position
  <1>2. PnlPct \in Nat /\ PnlPct <= 100
    BY ContractsAssumption
  <1> HIDE DEF c
  <1>3. c * PnlPct \in Nat /\ c * PnlPct <= c * 100
    BY <1>1, <1>2
  <1>4. \A n \in Nat : n <= c * 100 => n \div 100 \in Nat /\ n \div 100 <= c
    BY <1>1
  <1>5. (c * PnlPct) \div 100 \in Nat /\ (c * PnlPct) \div 100 <= c
    BY <1>3, <1>4
  <1> QED BY <1>1, <1>5 DEF PnlAbs, c

-----------------------------------------------------------------------------
(* What opening and closing do to the tokens t and to the positions.       *)

LEMMA OpenFacts ==
    ASSUME TypeOK, NEW t \in Token, NEW caller \in Accounts, NEW c \in Nat,
           Opens(t, caller, c), caller # Router
    PROVE  /\ token' \in Token /\ positions' \in Seq(Position)
           /\ positions' = Append(positions, [collateral |-> c, open |-> TRUE])
           /\ token'.balanceOf[Router] = t.balanceOf[Router] + c
           /\ \A a \in Accounts \ {caller} :
                 /\ token'.allowance[a] = t.allowance[a]
                 /\ token'.balanceOf[a] >= t.balanceOf[a]
           /\ ~ApprovesNobody(t, caller)
  <1>1. /\ token' = TransferFrom(t, Router, caller, Router, c)
        /\ CanTransferFrom(t, Router, caller, c) /\ c > 0
        /\ positions' = Append(positions, [collateral |-> c, open |-> TRUE])
    BY DEF Opens, CanOpen
  <1>2. [collateral |-> c, open |-> TRUE] \in Position
    BY DEF Position
  <1>3. positions' \in Seq(Position)
    BY <1>1, <1>2, AppendProperties DEF TypeOK
  <1>4. ~ApprovesNobody(t, caller)
    BY <1>1, Roles DEF CanTransferFrom, ApprovesNobody
  <1>5. token'.balanceOf[Router] = t.balanceOf[Router] + c
    BY <1>1, Roles, PullCredits
  <1> QED BY <1>1, <1>3, <1>4, <1>5, Roles, TransferFromFacts

(* A payment: a mint, or a transfer of the router's of at most c.          *)
Pays(t, to, c, u) ==
    \E amount \in Nat :
        \/ CanMint(t, amount) /\ u = Mint(t, to, amount)
        \/ /\ amount <= c /\ CanTransfer(t, Router, amount)
           /\ u = Transfer(t, Router, to, amount)

LEMMA CloseFacts ==
    ASSUME TypeOK, NEW t \in Token, NEW caller \in Accounts, Closes(t, caller)
    PROVE  /\ token' \in Token /\ positions' \in Seq(Position)
           /\ token'.allowance = t.allowance
           /\ \A a \in Accounts \ {Router} : token'.balanceOf[a] >= t.balanceOf[a]
           /\ \E id \in DOMAIN positions :
                 /\ positions[id].open
                 /\ positions' = [positions EXCEPT ![id].open = FALSE]
                 /\ Pays(t, caller, positions[id].collateral, token')
  <1>1. PICK id \in DOMAIN positions :
           /\ positions[id].open
           /\ CanPayout(t, id)
           /\ positions' = [positions EXCEPT ![id].open = FALSE]
           /\ token' = Payout(t, caller, id)
    BY DEF Closes
  <1> DEFINE c == positions[id].collateral
  <1>2. c \in Nat /\ PnlAbs(id) \in Nat /\ PnlAbs(id) <= c
    BY PnlBound
  <1>3. c - PnlAbs(id) \in Nat /\ c + PnlAbs(id) \in Nat /\ c - PnlAbs(id) <= c
    <2> HIDE DEF c
    <2> QED BY <1>2
  <1>4. Pays(t, caller, c, token')
    <2>1. CASE Profitable
      <3>1. /\ token' = Mint(t, caller, c + PnlAbs(id))
            /\ CanMint(t, c + PnlAbs(id))
        BY <1>1, <2>1 DEF Payout, CanPayout
      <3> QED BY <1>3, <3>1 DEF Pays
    <2>2. CASE ~Profitable
      <3>1. /\ token' = Transfer(t, Router, caller, c - PnlAbs(id))
            /\ CanTransfer(t, Router, c - PnlAbs(id))
        BY <1>1, <2>2 DEF Payout, CanPayout
      <3> QED BY <1>3, <3>1 DEF Pays
    <2> QED BY <2>1, <2>2
  <1> HIDE DEF c
  <1>5. /\ token' \in Token /\ token'.allowance = t.allowance
        /\ \A a \in Accounts \ {Router} : token'.balanceOf[a] >= t.balanceOf[a]
    <2>1. PICK amount \in Nat :
             \/ CanMint(t, amount) /\ token' = Mint(t, caller, amount)
             \/ /\ amount <= c /\ CanTransfer(t, Router, amount)
                /\ token' = Transfer(t, Router, caller, amount)
      BY <1>4 DEF Pays
    <2>2. CASE token' = Mint(t, caller, amount)
      BY <2>2, MintFacts
    <2>3. CASE /\ CanTransfer(t, Router, amount)
               /\ token' = Transfer(t, Router, caller, amount)
      BY <2>3, Roles, TransferFacts
    <2> QED BY <2>1, <2>2, <2>3
  <1>6. positions' \in Seq(Position)
    <2>1. positions \in Seq(Position) /\ positions[id] \in Position
      BY ElementOfSeq, LenProperties DEF TypeOK
    <2> DEFINE p == [positions[id] EXCEPT !.open = FALSE]
    <2>2. p \in Position
      BY <2>1 DEF Position
    <2>3. positions' = [positions EXCEPT ![id] = p]
      BY <1>1
    <2> HIDE DEF p
    <2> QED BY <2>1, <2>2, <2>3, ExceptSeq
  <1> QED BY <1>1, <1>4, <1>5, <1>6 DEF c

-----------------------------------------------------------------------------
(* One step of the contracts keeps WalletInv and is a step of PacedSpender *)
(* or leaves the treasury's ledger alone.                                  *)

LEMMA TreasuryType == WalletInv => Treasury \in Nat
  BY Roles DEF WalletInv, TypeOK, Token, Treasury

(* A spender the wallet approved is one a trade's call approved.           *)
LEMMA ApprovedUnbinds == Approved => Unbound
  BY DEF Approved, Unbound

(* Only tokens and positions move, and the treasury does not shrink unless *)
(* the wallet approves a spender.                                          *)
LEMMA TokenOnly ==
    ASSUME WalletInv, token' \in Token,
           ApprovesNobody(token, Wallet) =>
              /\ ApprovesNobody(token', Wallet)
              /\ token'.balanceOf[Wallet] >= Treasury,
           positions' \in Seq(Position), held' \in Seq(Nat \cup Accounts),
           UNCHANGED <<now, wallet, authorized, withdrawn>>
    PROVE  WalletInv' /\ [Paced!Next]_Paced!vars
  <1>1. WalletInv'
    BY DEF WalletInv, TypeOK, WithinLimits, Approved
  <1>2. Treasury' = token'.balanceOf[Wallet] /\ Treasury' \in Nat
    BY Roles DEF Treasury, Token
  <1>3. UNCHANGED <<now, wallet.lastTradeAt, withdrawn, Unbound>>
    BY DEF Unbound
  <1>4. CASE ApprovesNobody(token, Wallet)
    BY <1>1, <1>2, <1>3, <1>4 DEF Paced!Next, Paced!Receive
  <1>5. CASE Approved
    BY <1>1, <1>2, <1>3, <1>5, ApprovedUnbinds DEF Paced!Next, Paced!Elsewhere
  <1> QED BY <1>1, <1>4, <1>5 DEF WalletInv

(* Only the wallet's own storage moves, the stamp aside.                   *)
LEMMA WalletOnly ==
    ASSUME WalletInv, wallet' \in Storage, WithinLimits',
           wallet'.lastTradeAt = wallet.lastTradeAt, UNCHANGED onlyWallet
    PROVE  WalletInv' /\ [Paced!Next]_Paced!vars
  <1>1. WalletInv'
    BY DEF WalletInv, TypeOK, Approved, onlyWallet
  <1>2. UNCHANGED Paced!vars
    BY DEF Paced!vars, onlyWallet, Treasury, Unbound
  <1> QED BY <1>1, <1>2

(* The cap: what a trade takes is at most MaxBps of the treasury.          *)
LEMMA CapFacts ==
    ASSUME WalletInv, NEW amount \in Nat, amount <= MaxTradeAmount
    PROVE  BpsBase * amount <= MaxBps * Treasury
  <1> DEFINE T == Treasury
             b == wallet.maxTradeBps
  <1>1. T \in Nat /\ b \in Nat /\ b <= MaxBps
    BY Roles DEF WalletInv, TypeOK, Token, Storage, WithinLimits, Treasury
  <1>2. BpsBase \in Nat \ {0} /\ MaxBps \in Nat
    BY ContractsAssumption
  <1>3. amount <= (T * b) \div BpsBase
    BY DEF MaxTradeAmount
  <1> HIDE DEF T, b
  <1>4. T * b \in Nat /\ T * b <= MaxBps * T
    BY <1>1, <1>2
  <1>5. /\ (T * b) \div BpsBase \in Nat
        /\ BpsBase * ((T * b) \div BpsBase) <= T * b
    BY <1>2, <1>4, DivFloor
  <1>6. BpsBase * amount <= T * b
    BY <1>2, <1>3, <1>4, <1>5, TimesMonotone
  <1>7. BpsBase * amount \in Nat /\ MaxBps * T \in Nat
    BY <1>1, <1>2
  <1> QED BY <1>4, <1>6, <1>7 DEF T

(* What a trade's call does to the tokens the transfer left.               *)
LEMMA CallFacts ==
    ASSUME TypeOK, NEW t \in Token, NEW router \in Accounts, NEW call \in Calls,
           Called(router, call, t)
    PROVE  /\ token' \in Token /\ positions' \in Seq(Position)
           /\ ApprovesNobody(t, Wallet) =>
                 /\ call # "open"
                 /\ call # "approve" => ApprovesNobody(token', Wallet)
                 /\ call \notin {"approve", "move"} =>
                       token'.balanceOf[Wallet] >= t.balanceOf[Wallet]
  <1>1. positions \in Seq(Position) /\ t.balanceOf[Wallet] \in Nat
    BY Roles DEF TypeOK, Token
  <1>2. CASE call = "nothing"
    BY <1>1, <1>2 DEF Called
  <1>3. CASE call = "open"
    <2>1. PICK collateral \in Amounts : Opens(t, Wallet, collateral)
      BY <1>3 DEF Called
    <2>2. collateral \in Nat
      BY ContractsAssumption
    <2> QED BY <2>1, <2>2, Roles, OpenFacts
  <1>4. CASE call = "close"
    <2>1. Closes(t, Wallet)
      BY <1>4 DEF Called
    <2>2. /\ token' \in Token /\ positions' \in Seq(Position)
          /\ token'.allowance = t.allowance
          /\ token'.balanceOf[Wallet] >= t.balanceOf[Wallet]
      BY <2>1, Roles, CloseFacts
    <2> QED BY <1>4, <2>2 DEF ApprovesNobody
  <1>5. CASE call = "approve"
    <2>1. Approves(t, Wallet, token') /\ positions' = positions
      BY <1>5 DEF Called
    <2> QED BY <1>1, <1>5, <2>1, Roles, ApproveFacts
  <1>6. CASE call = "move"
    <2>1. /\ \/ Mints(t, token') \/ Sends(t, Wallet, token')
             \/ Pulls(t, Wallet, token')
          /\ positions' = positions
      BY <1>6 DEF Called
    <2> QED BY <1>1, <1>6, <2>1, Roles, MoveFacts
  <1> QED BY <1>2, <1>3, <1>4, <1>5, <1>6 DEF Calls

(* A trade: a transfer of at most the cap, the call, and the record.       *)
IsTrade(amount, router, call) ==
    /\ amount <= MaxTradeAmount
    /\ CanTransfer(token, Wallet, amount)
    /\ Called(router, call, Transfer(token, Wallet, router, amount))
    /\ authorized' = Append(authorized, [at |-> now, amount |-> amount,
                                         router |-> router, call |-> call])

LEMMA TradeFacts ==
    ASSUME WalletInv, NEW h \in Humans, AuthorizeTrade(h)
    PROVE  /\ \E amount \in Nat, router \in Accounts, call \in Calls :
                 IsTrade(amount, router, call)
           /\ wallet' = Stamp(wallet)
           /\ now >= wallet.lastTradeAt + Floor
           /\ UNCHANGED <<now, held, withdrawn>>
  <1>1. PICK amount \in Amounts, router \in Accounts, call \in Calls :
           /\ TimelockPassed
           /\ amount <= MaxTradeAmount
           /\ wallet' = Stamp(wallet)
           /\ Called(router, call, Transfer(token, Wallet, router, amount))
           /\ authorized' = Append(authorized, [at |-> now, amount |-> amount,
                                         router |-> router, call |-> call])
           /\ UNCHANGED <<now, held, withdrawn>>
    BY DEF AuthorizeTrade
  <1>2. /\ amount \in Nat /\ wallet \in Storage /\ Treasury \in Nat /\ now \in Nat
    BY ContractsAssumption, TreasuryType DEF WalletInv, TypeOK
  <1>3. CanTransfer(token, Wallet, amount)
    <2>1. BpsBase * amount <= MaxBps * Treasury
      BY <1>1, <1>2, CapFacts
    <2>2. BpsBase \in Nat \ {0} /\ MaxBps \in Nat /\ MaxBps <= BpsBase
      BY ContractsAssumption
    <2>3. MaxBps * Treasury <= BpsBase * Treasury
      BY <1>2, <2>2
    <2>4. /\ BpsBase * amount \in Nat /\ MaxBps * Treasury \in Nat
          /\ BpsBase * Treasury \in Nat
      BY <1>2, <2>2
    <2>5. BpsBase * amount <= BpsBase * Treasury
      BY <2>1, <2>3, <2>4
    <2>6. amount <= Treasury
      BY <1>2, <2>2, <2>5, TimesCancels
    <2> QED BY <1>2, <2>6 DEF CanTransfer, Treasury
  <1>4. now >= wallet.lastTradeAt + Floor
    <2>1. now >= wallet.lastTradeAt + wallet.timelockSeconds
      BY <1>1 DEF TimelockPassed
    <2>2. /\ wallet.lastTradeAt \in Nat /\ wallet.timelockSeconds \in Nat
          /\ wallet.timelockSeconds >= Floor
      BY <1>2 DEF Storage, WalletInv, WithinLimits
    <2>3. Floor \in Nat
      BY ContractsAssumption
    <2> QED BY <1>2, <2>1, <2>2, <2>3
  <1>5. IsTrade(amount, router, call)
    BY <1>1, <1>3 DEF IsTrade
  <1> QED BY <1>1, <1>2, <1>4, <1>5

(* The record of a trade, at the end of those before it.                   *)
LEMMA RecordFacts ==
    ASSUME WalletInv, NEW amount \in Nat, NEW router \in Accounts, NEW call \in Calls,
           IsTrade(amount, router, call)
    PROVE  /\ authorized' \in Seq(Trade)
           /\ Len(authorized) \in Nat
           /\ DOMAIN authorized = 1 .. Len(authorized)
           /\ Len(authorized') = Len(authorized) + 1
           /\ DOMAIN authorized' = 1 .. Len(authorized) + 1
           /\ \A i \in 1 .. Len(authorized) : authorized'[i] = authorized[i]
           /\ authorized'[Len(authorized) + 1].at = now
           /\ authorized'[Len(authorized) + 1].call = call
           /\ Approved => Approved'
           /\ call = "approve" => Approved'
           /\ Unbound' <=> (Unbound \/ call \in {"approve", "move"})
  <1> DEFINE trade == [at |-> now, amount |-> amount, router |-> router, call |-> call]
             n == Len(authorized)
  <1>1. trade \in Trade /\ authorized \in Seq(Trade)
    BY DEF Trade, WalletInv, TypeOK
  <1>2. trade.at = now /\ trade.call = call
    OBVIOUS
  <1>3. authorized' = Append(authorized, trade)
    BY DEF IsTrade
  <1> HIDE DEF trade
  <1>4. /\ authorized' \in Seq(Trade) /\ n \in Nat /\ DOMAIN authorized = 1 .. n
        /\ Len(authorized') = n + 1
        /\ \A i \in 1 .. n : authorized'[i] = authorized[i]
        /\ authorized'[n + 1] = trade
    BY <1>1, <1>3, AppendProperties, LenProperties
  <1>5. DOMAIN authorized' = 1 .. n + 1
    BY <1>4, LenProperties
  <1>6. \A i \in 1 .. n + 1 : i = n + 1 \/ i \in 1 .. n
    BY <1>4
  <1>7. n + 1 \in 1 .. n + 1 /\ 1 .. n \subseteq 1 .. n + 1
    BY <1>4
  <1> HIDE DEF n
  <1>8. Approved => Approved'
    BY <1>4, <1>5, <1>7 DEF Approved
  <1>9. call = "approve" => Approved'
    BY <1>2, <1>4, <1>5, <1>7 DEF Approved
  <1>10. Unbound' <=> (Unbound \/ call \in {"approve", "move"})
    BY <1>2, <1>4, <1>5, <1>6, <1>7 DEF Unbound
  <1> QED BY <1>2, <1>4, <1>5, <1>8, <1>9, <1>10 DEF n

LEMMA AuthorizeFacts ==
    ASSUME WalletInv, NEW h \in Humans, AuthorizeTrade(h)
    PROVE  WalletInv' /\ Paced!Next
  <1>1. PICK amount \in Nat, router \in Accounts, call \in Calls :
           /\ IsTrade(amount, router, call)
           /\ wallet' = Stamp(wallet)
           /\ now >= wallet.lastTradeAt + Floor
           /\ UNCHANGED <<now, held, withdrawn>>
    BY TradeFacts
  <1> DEFINE sent == Transfer(token, Wallet, router, amount)
  <1>2. /\ token \in Token /\ wallet \in Storage /\ Treasury \in Nat /\ now \in Nat
        /\ CanTransfer(token, Wallet, amount)
    BY <1>1, TreasuryType DEF WalletInv, TypeOK, IsTrade
  <1>3. /\ sent \in Token /\ sent.allowance = token.allowance
        /\ sent.balanceOf[Wallet] >= Treasury - amount
        /\ sent.balanceOf[Wallet] \in Nat
    <2>1. /\ sent \in Token /\ sent.allowance = token.allowance
          /\ sent.balanceOf[Wallet] >= Treasury - amount
      BY <1>2, Roles, TransferFacts DEF Treasury
    <2> HIDE DEF sent
    <2> QED BY <2>1, Roles DEF Token
  <1>4. Called(router, call, sent)
    BY <1>1 DEF IsTrade
  <1> HIDE DEF sent
  <1>5. /\ token' \in Token /\ positions' \in Seq(Position)
        /\ ApprovesNobody(sent, Wallet) =>
              /\ call # "approve" => ApprovesNobody(token', Wallet)
              /\ call \notin {"approve", "move"} =>
                    token'.balanceOf[Wallet] >= sent.balanceOf[Wallet]
    BY <1>3, <1>4, CallFacts DEF WalletInv
  <1>6. ApprovesNobody(token, Wallet) => ApprovesNobody(sent, Wallet)
    BY <1>3 DEF ApprovesNobody
  <1>7. /\ wallet' \in Storage
        /\ wallet'.lastTradeAt = now
        /\ wallet'.maxTradeBps = wallet.maxTradeBps
        /\ wallet'.timelockSeconds = wallet.timelockSeconds
    BY <1>1, <1>2 DEF Stamp, Storage
  <1>8. Approved' \/ ApprovesNobody(token', Wallet)
    BY <1>1, <1>5, <1>6, RecordFacts DEF WalletInv
  <1>9. WalletInv'
    <2>1. authorized' \in Seq(Trade)
      BY <1>1, RecordFacts
    <2> QED BY <1>1, <1>5, <1>7, <1>8, <2>1 DEF WalletInv, TypeOK, WithinLimits
  <1>10. Treasury' = token'.balanceOf[Wallet] /\ Treasury' \in Nat
    BY <1>5, Roles DEF Treasury, Token
  <1>11. Paced!OnTime
    BY <1>1, <1>7 DEF Paced!OnTime
  <1>12. CASE call \in {"approve", "move"} \/ Unbound
    <2>1. Unbound' = TRUE
      <3>1. Unbound'
        BY <1>1, <1>12, RecordFacts
      <3> QED BY <3>1 DEF Unbound
    <2> QED BY <1>9, <1>10, <1>11, <2>1 DEF Paced!Unbind, Paced!Next
  <1>13. CASE call \notin {"approve", "move"} /\ ~Unbound
    <2>1. Unbound' = Unbound
      <3>1. ~Unbound'
        BY <1>1, <1>13, RecordFacts
      <3> QED BY <1>13, <3>1 DEF Unbound
    <2>2. ApprovesNobody(token, Wallet)
      BY <1>13, ApprovedUnbinds DEF WalletInv
    <2>3. Treasury' >= Treasury - amount
      BY <1>2, <1>3, <1>5, <1>6, <1>10, <1>13, <2>2
    <2>4. BpsBase * amount <= MaxBps * Treasury
      BY <1>1, CapFacts DEF IsTrade
    <2>5. BpsBase * (Treasury - Treasury') <= MaxBps * Treasury
      <3>1. BpsBase \in Nat \ {0} /\ MaxBps \in Nat
        BY ContractsAssumption
      <3>2. CASE Treasury' >= Treasury
        <4>1. BpsBase * (Treasury - Treasury') <= 0 /\ MaxBps * Treasury >= 0
          BY <1>2, <1>10, <3>1, <3>2
        <4>2. /\ BpsBase * (Treasury - Treasury') \in Int
              /\ MaxBps * Treasury \in Int
          BY <1>2, <1>10, <3>1
        <4> QED BY <4>1, <4>2
      <3>3. CASE Treasury' < Treasury
        <4>1. Treasury - Treasury' \in Nat /\ Treasury - Treasury' <= amount
          BY <1>2, <1>10, <2>3, <3>3
        <4>2. BpsBase * (Treasury - Treasury') <= BpsBase * amount
          BY <3>1, <4>1, TimesMonotone
        <4>3. /\ BpsBase * (Treasury - Treasury') \in Nat
              /\ BpsBase * amount \in Nat /\ MaxBps * Treasury \in Nat
          BY <1>2, <3>1, <4>1
        <4> QED BY <2>4, <4>2, <4>3
      <3> QED BY <1>2, <1>10, <3>2, <3>3
    <2> QED BY <1>9, <1>11, <2>1, <2>5 DEF Paced!Spend, Paced!Next
  <1> QED BY <1>9, <1>12, <1>13

(* The calls that change the wallet's storage and nothing else.            *)
LEMMA StorageSteps ==
    ASSUME WalletInv, NEW h \in Humans,
           \/ SettleTrade(h) \/ RecordBuyback(h) \/ SetAgent(h)
           \/ SetMaxTradeBps(h) \/ SetTimelockSeconds(h)
           \/ Pause(h) \/ Unpause(h)
    PROVE  /\ wallet' \in Storage
           /\ WithinLimits'
           /\ wallet'.lastTradeAt = wallet.lastTradeAt
           /\ UNCHANGED onlyWallet
  <1>1. /\ wallet \in Storage
        /\ wallet.maxTradeBps <= MaxBps
        /\ wallet.timelockSeconds >= Floor
    BY DEF WalletInv, TypeOK, WithinLimits
  <1>2. /\ Buybacks \subseteq Nat /\ BpsChoices \subseteq Nat
        /\ TimelockChoices \subseteq Nat /\ Pnls \subseteq Int
    BY ContractsAssumption
  <1>3. CASE SettleTrade(h)
    BY <1>1, <1>2, <1>3 DEF SettleTrade, Storage, WithinLimits
  <1>4. CASE RecordBuyback(h)
    BY <1>1, <1>2, <1>4 DEF RecordBuyback, Storage, WithinLimits
  <1>5. CASE SetAgent(h)
    BY <1>1, <1>5 DEF SetAgent, Storage, WithinLimits
  <1>6. CASE SetMaxTradeBps(h)
    BY <1>1, <1>2, <1>6 DEF SetMaxTradeBps, Storage, WithinLimits
  <1>7. CASE SetTimelockSeconds(h)
    BY <1>1, <1>2, <1>7 DEF SetTimelockSeconds, Storage, WithinLimits
  <1>8. CASE Pause(h) \/ Unpause(h)
    BY <1>1, <1>8 DEF Pause, Unpause, Storage, WithinLimits
  <1> QED BY <1>3, <1>4, <1>5, <1>6, <1>7, <1>8

(* A call of token or router by a caller, or an opening by the plugin: it  *)
(* takes from the wallet only what the wallet approved.                    *)
LEMMA CallerSteps ==
    ASSUME WalletInv,
           \/ MintTokens \/ PluginOpens
           \/ \E c \in Callers : \/ SendTokens(c) \/ PullTokens(c)
                                 \/ ApproveTokens(c) \/ ClosePosition(c)
    PROVE  /\ token' \in Token
           /\ ApprovesNobody(token, Wallet) =>
                 /\ ApprovesNobody(token', Wallet)
                 /\ token'.balanceOf[Wallet] >= Treasury
           /\ positions' \in Seq(Position) /\ held' \in Seq(Nat \cup Accounts)
           /\ UNCHANGED <<now, wallet, authorized, withdrawn>>
  <1>1. /\ token \in Token /\ positions \in Seq(Position)
        /\ held \in Seq(Nat \cup Accounts) /\ TypeOK
        /\ token.balanceOf[Wallet] \in Nat
    BY Roles DEF WalletInv, TypeOK, Token
  <1>2. CASE MintTokens
    <2>1. Mints(token, token') /\ UNCHANGED onlyToken
      BY <1>2 DEF MintTokens
    <2>2. Plugin \in Accounts /\ Plugin # Wallet
      BY Roles
    <2> QED BY <1>1, <2>1, <2>2, Roles, MoveFacts DEF onlyToken, Treasury
  <1>3. ASSUME NEW c \in Callers, SendTokens(c) \/ PullTokens(c)
        PROVE  /\ token' \in Token
               /\ ApprovesNobody(token, Wallet) =>
                     /\ ApprovesNobody(token', Wallet)
                     /\ token'.balanceOf[Wallet] >= Treasury
               /\ UNCHANGED onlyToken
    <2>1. Sends(token, c, token') \/ Pulls(token, c, token')
      BY <1>3 DEF SendTokens, PullTokens
    <2>2. UNCHANGED onlyToken
      BY <1>3 DEF SendTokens, PullTokens
    <2>3. c \in Accounts /\ c # Wallet
      BY Roles
    <2> QED BY <1>1, <2>1, <2>2, <2>3, Roles, MoveFacts DEF Treasury
  <1>4. ASSUME NEW c \in Callers, ApproveTokens(c)
        PROVE  /\ token' \in Token
               /\ ApprovesNobody(token, Wallet) =>
                     /\ ApprovesNobody(token', Wallet)
                     /\ token'.balanceOf[Wallet] >= Treasury
               /\ UNCHANGED onlyToken
    <2>1. Approves(token, c, token') /\ UNCHANGED onlyToken
      BY <1>4 DEF ApproveTokens
    <2>2. c \in Accounts /\ c # Wallet
      BY Roles
    <2>3. /\ token' \in Token /\ token'.balanceOf = token.balanceOf
          /\ token'.allowance[Wallet] = token.allowance[Wallet]
      BY <1>1, <2>1, <2>2, Roles, ApproveFacts
    <2> QED BY <1>1, <2>1, <2>3 DEF ApprovesNobody, Treasury
  <1>5. ASSUME NEW c \in Callers, ClosePosition(c)
        PROVE  /\ token' \in Token
               /\ ApprovesNobody(token, Wallet) =>
                     /\ ApprovesNobody(token', Wallet)
                     /\ token'.balanceOf[Wallet] >= Treasury
               /\ positions' \in Seq(Position)
               /\ UNCHANGED <<now, wallet, held, authorized, withdrawn>>
    <2>1. /\ Closes(token, c)
          /\ UNCHANGED <<now, wallet, held, authorized, withdrawn>>
      BY <1>5 DEF ClosePosition
    <2>2. c \in Accounts
      BY Roles
    <2>3. /\ token' \in Token /\ positions' \in Seq(Position)
          /\ token'.allowance = token.allowance
          /\ token'.balanceOf[Wallet] >= token.balanceOf[Wallet]
      BY <1>1, <2>1, <2>2, Roles, CloseFacts
    <2> QED BY <2>1, <2>3 DEF ApprovesNobody, Treasury
  <1>6. CASE PluginOpens
    <2> DEFINE C(size) == (size * ProviderUnit) \div Leverage
    <2>1. PICK size \in Sizes :
             /\ Opens(token, Plugin, C(size))
             /\ held' = Append(held, Plugin)
             /\ UNCHANGED <<now, wallet, authorized, withdrawn>>
      BY <1>6 DEF PluginOpens, OpenLogs, TransferEvent
    <2>2. C(size) \in Nat
      <3>1. size \in Nat /\ size * ProviderUnit \in Nat /\ Leverage \in Nat \ {0}
        BY ContractsAssumption
      <3> QED BY <3>1, DivFloor
    <2> HIDE DEF C
    <2>3. /\ token' \in Token /\ positions' \in Seq(Position)
          /\ token'.allowance[Wallet] = token.allowance[Wallet]
          /\ token'.balanceOf[Wallet] >= token.balanceOf[Wallet]
      BY <1>1, <2>1, <2>2, Roles, OpenFacts
    <2>4. held' \in Seq(Nat \cup Accounts)
      BY <1>1, <2>1, Roles, AppendProperties
    <2> QED BY <2>1, <2>3, <2>4 DEF ApprovesNobody, Treasury
  <1> QED BY <1>1, <1>2, <1>3, <1>4, <1>5, <1>6 DEF onlyToken

(* The owner's withdrawal leaves the treasury by the owner's hand.         *)
LEMMA WithdrawFacts ==
    ASSUME WalletInv, NEW h \in Humans, EmergencyWithdraw(h)
    PROVE  /\ WalletInv'
           /\ Paced!Withdraw
           /\ UNCHANGED <<wallet, authorized>>
  <1>1. PICK amount \in Amounts :
           /\ CanTransfer(token, Wallet, amount)
           /\ token' = Transfer(token, Wallet, Owner, amount)
           /\ withdrawn' = withdrawn + amount
           /\ UNCHANGED <<now, positions, wallet, held, authorized>>
    BY DEF EmergencyWithdraw
  <1>2. amount \in Nat /\ token \in Token /\ withdrawn \in Nat /\ Treasury \in Nat
    BY ContractsAssumption, Roles DEF WalletInv, TypeOK, Treasury, Token
  <1>3. /\ token' \in Token /\ token'.allowance = token.allowance
        /\ token'.balanceOf[Wallet] = Treasury - amount
    BY <1>1, <1>2, Roles, TransferFacts DEF Treasury
  <1>4. WalletInv'
    BY <1>1, <1>2, <1>3 DEF WalletInv, TypeOK, ApprovesNobody, Approved, WithinLimits
  <1>5. Treasury' = Treasury - amount
    BY <1>3 DEF Treasury
  <1>6. Paced!Withdraw
    BY <1>1, <1>2, <1>5 DEF Paced!Withdraw, Unbound
  <1> QED BY <1>1, <1>4, <1>6

(* Every step: the wallet's invariant, the step of PacedSpender it is, and *)
(* the one way the list of authorizations grows.                           *)
LEMMA WalletStep ==
    ASSUME WalletInv, [Next]_vars
    PROVE  /\ WalletInv'
           /\ [Paced!Next]_Paced!vars
           /\ \/ /\ authorized' = authorized
                 /\ wallet'.lastTradeAt = wallet.lastTradeAt
              \/ \E h \in Humans : AuthorizeTrade(h)
  <1>1. CASE \/ MintTokens \/ PluginOpens
             \/ \E c \in Callers : \/ SendTokens(c) \/ PullTokens(c)
                                   \/ ApproveTokens(c) \/ ClosePosition(c)
    BY <1>1, CallerSteps, TokenOnly
  <1>2. ASSUME NEW h \in Humans, AuthorizeTrade(h)
        PROVE  WalletInv' /\ [Paced!Next]_Paced!vars
    BY <1>2, AuthorizeFacts
  <1>3. ASSUME NEW h \in Humans,
               \/ SettleTrade(h) \/ RecordBuyback(h) \/ SetAgent(h)
               \/ SetMaxTradeBps(h) \/ SetTimelockSeconds(h)
               \/ Pause(h) \/ Unpause(h)
        PROVE  /\ WalletInv' /\ [Paced!Next]_Paced!vars
               /\ authorized' = authorized
               /\ wallet'.lastTradeAt = wallet.lastTradeAt
    <2>1. /\ wallet' \in Storage /\ WithinLimits'
          /\ wallet'.lastTradeAt = wallet.lastTradeAt /\ UNCHANGED onlyWallet
      BY <1>3, StorageSteps
    <2>2. authorized' = authorized
      BY <2>1 DEF onlyWallet
    <2> QED BY <2>1, <2>2, WalletOnly
  <1>4. ASSUME NEW h \in Humans, EmergencyWithdraw(h)
        PROVE  /\ WalletInv' /\ [Paced!Next]_Paced!vars
               /\ authorized' = authorized
               /\ wallet'.lastTradeAt = wallet.lastTradeAt
    BY <1>4, WithdrawFacts DEF Paced!Next
  <1>5. CASE NextBlock
    <2>1. now \in Nat \ {0} /\ now' = now + 1
      BY <1>5 DEF NextBlock, WalletInv, TypeOK
    <2>2. WalletInv'
      BY <1>5, <2>1
         DEF NextBlock, WalletInv, TypeOK, ApprovesNobody, Approved, WithinLimits
    <2>3. Treasury' = Treasury /\ Unbound' = Unbound
      BY <1>5 DEF NextBlock, Treasury, Unbound
    <2>4. Paced!Pass
      BY <1>5, <2>1, <2>3 DEF NextBlock, Paced!Pass
    <2> QED BY <1>5, <2>2, <2>4 DEF NextBlock, Paced!Next
  <1>6. CASE UNCHANGED vars
    <2>1. WalletInv'
      BY <1>6 DEF vars, WalletInv, TypeOK, ApprovesNobody, Approved, WithinLimits
    <2>2. UNCHANGED Paced!vars
      BY <1>6 DEF vars, Paced!vars, Treasury, Unbound
    <2> QED BY <1>6, <2>1, <2>2 DEF vars
  <1> QED BY <1>1, <1>2, <1>3, <1>4, <1>5, <1>6 DEF Next

-----------------------------------------------------------------------------
(* The wallet implements the promise to its owner: whoever calls it, with  *)
(* whatever amounts, limits, routers and calldata, money leaves the        *)
(* treasury by the owner's hand or by trades of at most MaxBps that are    *)
(* Floor apart, up to the trade whose call has the token itself move or    *)
(* lend the wallet's tokens; the trades after it are still Floor apart.    *)
THEOREM WalletIsPaced == Spec => PacedSpenderSpec
  <1>1. Init => WalletInv
    BY InitWalletInv
  <1>2. Init => Paced!Init
    BY Roles, ContractsAssumption
       DEF Init, Paced!Init, Treasury, EmptyToken, Unbound
  <1>3. WalletInv /\ [Next]_vars => WalletInv' /\ [Paced!Next]_Paced!vars
    BY WalletStep
  <1> QED BY <1>1, <1>2, <1>3, PTL DEF Spec, PacedSpenderSpec, Paced!Spec

(* The storage of the three contracts has its types.                       *)
THEOREM ContractsTypeCorrect == Spec => []TypeOK
  <1>1. Init => WalletInv
    BY InitWalletInv
  <1>2. WalletInv /\ [Next]_vars => WalletInv'
    BY WalletStep
  <1>3. WalletInv => TypeOK
    BY DEF WalletInv
  <1> QED BY <1>1, <1>2, <1>3, PTL DEF Spec

-----------------------------------------------------------------------------
(* Pacing: the list of authorizations and the stamp move together.         *)

(* One more authorization keeps the pace of all the earlier ones.          *)
LEMMA PaceGrows ==
    ASSUME PaceInv, WalletInv', NEW h \in Humans, AuthorizeTrade(h)
    PROVE  PaceInv'
  <1> DEFINE n == Len(authorized)
  <1>1. PICK amount \in Nat, router \in Accounts, call \in Calls :
           IsTrade(amount, router, call)
    BY TradeFacts DEF PaceInv
  <1>2. /\ wallet'.lastTradeAt = now
        /\ now >= wallet.lastTradeAt + Floor
        /\ authorized \in Seq(Trade) /\ now \in Nat
        /\ wallet.lastTradeAt \in Nat /\ Floor \in Nat
    BY TradeFacts, ContractsAssumption DEF PaceInv, WalletInv, TypeOK, Storage, Stamp
  <1>3. \A i \in 1..n : authorized[i].at \in Nat
    <2>1. \A i \in 1..n : authorized[i] \in Trade
      BY <1>2, ElementOfSeq
    <2> QED BY <2>1 DEF Trade
  <1>4. /\ n \in Nat
        /\ Len(authorized') = n + 1
        /\ DOMAIN authorized' = 1..(n + 1)
        /\ \A i \in 1..n : authorized'[i] = authorized[i]
        /\ authorized'[n + 1].at = now
        /\ authorized'[n + 1].call = call
    BY <1>1, RecordFacts DEF PaceInv
  <1>5. DOMAIN authorized = 1..n
    BY <1>2, LenProperties
  <1> HIDE DEF n
  <1>6. Stamped'
    BY <1>2, <1>4 DEF Stamped
  <1>7. OpeningNeedsApproval'
    <2> SUFFICES ASSUME NEW j \in 1..(n + 1), authorized'[j].call = "open"
                 PROVE  \E i \in 1 .. j - 1 : authorized'[i].call = "approve"
      BY <1>4 DEF OpeningNeedsApproval
    <2>1. CASE j \in 1..n
      <3>1. PICK i \in 1 .. j - 1 : authorized[i].call = "approve"
        BY <1>4, <1>5, <2>1 DEF PaceInv, OpeningNeedsApproval
      <3>2. i \in 1..n
        BY <1>4, <2>1
      <3> QED BY <1>4, <3>1, <3>2
    <2>2. CASE j = n + 1
      <3>1. Approved
        <4> DEFINE sent == Transfer(token, Wallet, router, amount)
        <4>1. sent \in Token /\ sent.allowance = token.allowance
          BY <1>1, Roles, TransferFacts DEF IsTrade, PaceInv, WalletInv, TypeOK
        <4>2. Called(router, call, sent)
          BY <1>1 DEF IsTrade
        <4> HIDE DEF sent
        <4>3. call = "open"
          BY <1>4, <2>2
        <4>4. ~ApprovesNobody(sent, Wallet)
          BY <4>1, <4>2, <4>3, CallFacts DEF PaceInv, WalletInv
        <4> QED BY <4>1, <4>4 DEF PaceInv, WalletInv, ApprovesNobody
      <3>2. PICK i \in 1..n : authorized[i].call = "approve"
        BY <1>5, <3>1 DEF Approved
      <3>3. i \in 1 .. j - 1
        BY <1>4, <2>2
      <3> QED BY <1>4, <3>2, <3>3
    <2> QED BY <1>4, <2>1, <2>2
  <1>8. n > 0 => authorized[n].at + Floor <= now
    <2>1. n > 0 => authorized[n].at <= wallet.lastTradeAt
      BY <1>2, <1>4, LenProperties, EmptySeq DEF PaceInv, Stamped, n
    <2> QED BY <1>2, <1>3, <1>4, <2>1
  <1>9. \A i \in 1..n : now - authorized[i].at >= Floor * (n + 1 - i)
    <2> SUFFICES ASSUME NEW i \in 1..n
                 PROVE  now - authorized[i].at >= Floor * (n + 1 - i)
      OBVIOUS
    <2>1. authorized[n].at - authorized[i].at >= Floor * (n - i)
      <3>1. CASE i = n
        <4>1. Floor * (n - n) = 0 /\ authorized[n].at - authorized[n].at = 0
          BY <1>2, <1>3, <1>4
        <4> QED BY <3>1, <4>1
      <3>2. CASE i # n
        <4>1. i < n /\ n \in 1..n
          BY <1>4, <3>2
        <4> QED BY <1>5, <4>1 DEF PaceInv, PacedSpending
      <3> QED BY <3>1, <3>2
    <2>2. PICK d \in Nat : d = n - i
      BY <1>4
    <2>3. Floor * (d + 1) = Floor * d + Floor /\ Floor * d \in Nat
      BY <1>2
    <2>4. n + 1 - i = d + 1
      BY <1>4, <2>2
    <2>5. n \in 1..n
      BY <1>4
    <2>6. now - authorized[i].at >= Floor * d + Floor
      <3>1. PICK first, last, rest \in Int :
               first = authorized[i].at /\ last = authorized[n].at
                  /\ rest = Floor * d
        BY <1>3, <2>3, <2>5
      <3>2. last - first >= rest /\ last + Floor <= now
        BY <1>4, <1>8, <2>1, <2>2, <2>5, <3>1
      <3> QED BY <1>2, <3>1, <3>2
    <2> QED BY <2>3, <2>4, <2>6
  <1>10. PacedSpending'
    <2> SUFFICES ASSUME NEW i \in 1..(n + 1), NEW j \in 1..(n + 1), i < j
                 PROVE  authorized'[j].at - authorized'[i].at >= Floor * (j - i)
      BY <1>4 DEF PacedSpending
    <2>0. Floor' = Floor
      OBVIOUS
    <2>1. CASE j = n + 1
      <3>1. i \in 1..n
        BY <1>4, <2>1
      <3> QED BY <1>4, <1>9, <2>1, <3>1
    <2>2. CASE j # n + 1
      <3>1. i \in 1..n /\ j \in 1..n
        BY <1>4, <2>2
      <3> QED BY <1>4, <1>5, <3>1 DEF PaceInv, PacedSpending
    <2> QED BY <2>1, <2>2
  <1> QED BY <1>6, <1>7, <1>10 DEF PaceInv

LEMMA PaceInduction ==
    /\ Init => PaceInv
    /\ PaceInv /\ [Next]_vars => PaceInv'
  <1>1. Init => PaceInv
    BY InitWalletInv, EmptySeq, LenProperties
       DEF Init, PaceInv, Stamped, PacedSpending, OpeningNeedsApproval
  <1>2. ASSUME PaceInv, [Next]_vars PROVE PaceInv'
    <2>1. /\ WalletInv'
          /\ \/ /\ authorized' = authorized
                /\ wallet'.lastTradeAt = wallet.lastTradeAt
             \/ \E h \in Humans : AuthorizeTrade(h)
      BY <1>2, WalletStep DEF PaceInv
    <2>2. CASE /\ authorized' = authorized
               /\ wallet'.lastTradeAt = wallet.lastTradeAt
      BY <1>2, <2>1, <2>2
         DEF PaceInv, Stamped, PacedSpending, OpeningNeedsApproval
    <2>3. CASE \E h \in Humans : AuthorizeTrade(h)
      BY <1>2, <2>1, <2>3, PaceGrows
    <2> QED BY <2>1, <2>2, <2>3
  <1> QED BY <1>1, <1>2

(* k further authorizations take at least k times the shortest timelock,   *)
(* whatever the owner does to the timelock between them.                   *)
THEOREM SpendingIsPaced == Spec => []PacedSpending
  <1>1. PaceInv => PacedSpending
    BY DEF PaceInv
  <1> QED BY <1>1, PaceInduction, PTL DEF Spec

(* The repository's router serves no opening of the wallet's before a trade *)
(* has made the token approve a spender in the wallet's name.              *)
THEOREM OpeningTheorem == Spec => []OpeningNeedsApproval
  <1>1. PaceInv => OpeningNeedsApproval
    BY DEF PaceInv
  <1> QED BY <1>1, PaceInduction, PTL DEF Spec

-----------------------------------------------------------------------------
(* What the router owes.                                                   *)

(* Some number of every set of numbers is the least: an induction over the *)
(* positions is an argument about the least one where the claim fails.     *)
LEMMA Least ==
    ASSUME NEW B \in SUBSET Nat, B # {}
    PROVE  \E n \in B : \A m \in B : ~(m < n)
  <1> DEFINE Under == OpToRel(<, Nat)
  <1>1. PICK n \in B : \A m \in B : ~(<<m, n>> \in Under)
    <2>1. IsWellFoundedOn(Under, Nat)
      BY NatLessThanWellFounded
    <2> HIDE DEF Under
    <2> QED BY <2>1, WFMin
  <1> QED BY <1>1 DEF OpToRel

(* sum[n] is what the first n positions of ps lock.                        *)
SumsUp(sum, ps) ==
    \A n \in 0 .. Len(ps) :
        sum[n] = IF n = 0 THEN 0 ELSE sum[n - 1] + Locked(ps[n])

LEMMA LockedType ==
    ASSUME NEW ps \in Seq(Position), NEW n \in 1 .. Len(ps)
    PROVE  ps[n] \in Position /\ Locked(ps[n]) \in Nat
  <1>1. ps[n] \in Position
    BY ElementOfSeq
  <1> QED BY <1>1 DEF Locked, Position

(* The sums over a sequence of positions exist.                            *)
LEMMA SumsExist ==
    ASSUME NEW ps \in Seq(Position)
    PROVE  \E sum \in [0 .. Len(ps) -> Nat] : SumsUp(sum, ps)
  <1> DEFINE Step(f, n) == IF n = 0 THEN 0 ELSE f[n - 1] + Locked(ps[n])
             Upto(k) == \E f \in [0 .. k -> Nat] :
                           \A n \in 0 .. k : f[n] = Step(f, n)
             Bad == {k \in 0 .. Len(ps) : ~Upto(k)}
  <1>0. Len(ps) \in Nat
    BY LenProperties
  <1>1. Upto(0)
    <2> DEFINE f == [n \in 0 .. 0 |-> 0]
    <2>1. f \in [0 .. 0 -> Nat] /\ \A n \in 0 .. 0 : f[n] = Step(f, n)
      OBVIOUS
    <2> HIDE DEF f
    <2> QED BY <2>1
  <1>2. ASSUME NEW k \in Nat, k + 1 <= Len(ps), Upto(k) PROVE Upto(k + 1)
    <2>1. PICK f \in [0 .. k -> Nat] : \A n \in 0 .. k : f[n] = Step(f, n)
      BY <1>2
    <2> DEFINE g == [n \in 0 .. k + 1 |-> Step(f, n)]
    <2>2. \A n \in 0 .. k + 1 : Step(f, n) \in Nat
      <3>1. \A n \in 1 .. k + 1 : Locked(ps[n]) \in Nat /\ f[n - 1] \in Nat
        BY <1>0, <1>2, LockedType
      <3> QED BY <3>1
    <2>3. g \in [0 .. k + 1 -> Nat]
      BY <2>2
    <2>4. \A n \in 0 .. k : g[n] = f[n]
      BY <2>1
    <2>5. \A n \in 0 .. k + 1 : g[n] = Step(f, n)
      OBVIOUS
    <2> HIDE DEF g
    <2>6. \A n \in 1 .. k + 1 : n - 1 \in 0 .. k /\ g[n - 1] = f[n - 1]
      BY <2>4
    <2>7. \A n \in 0 .. k + 1 : g[n] = Step(g, n)
      BY <2>5, <2>6
    <2> QED BY <2>3, <2>7
  <1>3. Bad = {}
    <2>1. SUFFICES ASSUME Bad # {} PROVE FALSE
      OBVIOUS
    <2>2. PICK k \in Bad : \A m \in Bad : ~(m < k)
      <3>1. Bad \subseteq Nat
        BY <1>0
      <3> HIDE DEF Bad
      <3> QED BY <2>1, <3>1, Least
    <2>3. k \in Nat /\ k <= Len(ps) /\ k # 0
      BY <1>0, <1>1, <2>2
    <2>4. k - 1 \in Nat /\ k - 1 < k /\ (k - 1) + 1 = k /\ k - 1 \in 0 .. Len(ps)
      BY <1>0, <2>3
    <2>5. Upto(k - 1)
      BY <2>2, <2>4
    <2> HIDE DEF Upto
    <2>6. Upto((k - 1) + 1)
      BY <1>2, <2>3, <2>4, <2>5
    <2> QED BY <2>2, <2>4, <2>6
  <1>4. Upto(Len(ps))
    <2>1. Len(ps) \in 0 .. Len(ps)
      BY <1>0
    <2> HIDE DEF Upto
    <2> QED BY <1>3, <2>1
  <1> QED BY <1>4 DEF SumsUp

(* What the definition of LockedIn stands for.                             *)
LEMMA LockedInSums ==
    ASSUME NEW ps \in Seq(Position)
    PROVE  \E sum : SumsUp(sum, ps) /\ LockedIn(ps) = sum[Len(ps)]
  <1> DEFINE Table(f) == [n \in 0 .. Len(ps) |->
                            IF n = 0 THEN 0 ELSE f[n - 1] + Locked(ps[n])]
             sums == CHOOSE f : f = Table(f)
  <1>1. LockedIn(ps) = sums[Len(ps)]
    BY DEF LockedIn
  <1>2. PICK f \in [0 .. Len(ps) -> Nat] : SumsUp(f, ps)
    BY SumsExist
  <1>3. f = Table(f)
    BY <1>2 DEF SumsUp
  <1>4. sums = Table(sums)
    <2> HIDE DEF Table
    <2> QED BY <1>3
  <1>5. \A n \in 0 .. Len(ps) : sums[n] = Table(sums)[n]
    <2> HIDE DEF sums, Table
    <2> QED BY <1>4
  <1>6. SumsUp(sums, ps)
    <2> HIDE DEF sums
    <2> QED BY <1>5 DEF SumsUp
  <1> HIDE DEF sums
  <1> QED BY <1>1, <1>6

(* The first k positions of qs lock what those of ps do, but for id, which *)
(* locks less by gap.                                                      *)
Apart(ps, qs, k, id, gap) ==
    \A n \in 1 .. k :
        Locked(qs[n]) = Locked(ps[n]) - (IF n = id THEN gap ELSE 0)

(* Two sequences that differ at one position at most: so do their sums.    *)
LEMMA SumsDiffer ==
    ASSUME NEW ps \in Seq(Position), NEW qs \in Seq(Position),
           NEW k \in Nat, k <= Len(ps), k <= Len(qs),
           NEW f, SumsUp(f, ps), NEW g, SumsUp(g, qs),
           NEW id \in Nat \ {0}, NEW gap \in Int, Apart(ps, qs, k, id, gap)
    PROVE  g[k] = f[k] - (IF k >= id THEN gap ELSE 0) /\ f[k] \in Int
  <1> DEFINE Same(n) == g[n] = f[n] - (IF n >= id THEN gap ELSE 0) /\ f[n] \in Int
             Bad == {n \in 0 .. k : ~Same(n)}
  <1>0. Len(ps) \in Nat /\ Len(qs) \in Nat
    BY LenProperties
  <1>1. Same(0)
    BY <1>0 DEF SumsUp
  <1>2. ASSUME NEW n \in 0 .. k - 1, Same(n) PROVE Same(n + 1)
    <2>1. f[n + 1] = f[n] + Locked(ps[n + 1]) /\ g[n + 1] = g[n] + Locked(qs[n + 1])
      <3>1. n + 1 \in 0 .. Len(ps) /\ n + 1 \in 0 .. Len(qs) /\ n + 1 # 0
            /\ (n + 1) - 1 = n
        BY <1>0
      <3> QED BY <3>1 DEF SumsUp
    <2>2. Locked(ps[n + 1]) \in Nat /\ Locked(qs[n + 1]) \in Nat
      BY <1>0, LockedType
    <2>3. Locked(qs[n + 1]) = Locked(ps[n + 1]) - (IF n + 1 = id THEN gap ELSE 0)
      BY DEF Apart
    <2> QED BY <1>2, <2>1, <2>2, <2>3
  <1>3. Bad = {}
    <2>1. SUFFICES ASSUME Bad # {} PROVE FALSE
      OBVIOUS
    <2>2. PICK n \in Bad : \A m \in Bad : ~(m < n)
      <3>1. Bad \subseteq Nat
        OBVIOUS
      <3> HIDE DEF Bad
      <3> QED BY <2>1, <3>1, Least
    <2>3. n \in 0 .. k /\ n # 0
      BY <1>1, <2>2
    <2>4. n - 1 \in 0 .. k - 1 /\ n - 1 \in 0 .. k /\ n - 1 < n /\ (n - 1) + 1 = n
      BY <2>3
    <2>5. Same(n - 1)
      BY <2>2, <2>4
    <2> HIDE DEF Same
    <2>6. Same((n - 1) + 1)
      BY <1>2, <2>4, <2>5
    <2> QED BY <2>2, <2>4, <2>6
  <1>4. Same(k)
    <2>1. k \in 0 .. k
      OBVIOUS
    <2> HIDE DEF Same
    <2> QED BY <1>3, <2>1
  <1> QED BY <1>4

(* Sums of natural numbers are natural.                                    *)
LEMMA LockedInType ==
    ASSUME NEW ps \in Seq(Position) PROVE LockedIn(ps) \in Nat
  <1> DEFINE n == Len(ps)
  <1>1. n \in Nat /\ n <= n /\ n \in 0 .. n
    BY LenProperties
  <1>2. PICK f \in [0 .. n -> Nat] : SumsUp(f, ps)
    BY SumsExist
  <1>3. PICK g : SumsUp(g, ps) /\ LockedIn(ps) = g[n]
    BY LockedInSums
  <1>4. Apart(ps, ps, n, 1, 0)
    BY LockedType DEF Apart
  <1> HIDE DEF n
  <1>5. g[n] = f[n] - (IF n >= 1 THEN 0 ELSE 0) /\ f[n] \in Int
    <2>1. n <= Len(ps)
      BY <1>1 DEF n
    <2> QED BY <1>1, <1>2, <1>3, <1>4, <2>1, SumsDiffer
  <1>6. f[n] \in Nat
    BY <1>1, <1>2
  <1> QED BY <1>3, <1>5, <1>6

(* A new position adds its collateral to what is open ...                  *)
LEMMA OpeningLocks ==
    ASSUME NEW ps \in Seq(Position), NEW c \in Nat,
           NEW qs, qs = Append(ps, [collateral |-> c, open |-> TRUE])
    PROVE  LockedIn(qs) = LockedIn(ps) + c /\ LockedIn(ps) \in Int
  <1> DEFINE n == Len(ps)
             p == [collateral |-> c, open |-> TRUE]
  <1>1. /\ qs \in Seq(Position) /\ n \in Nat
        /\ Len(qs) = n + 1 /\ qs[n + 1] = p
        /\ \A i \in 1 .. n : qs[i] = ps[i]
    <2>1. p \in Position
      BY DEF Position
    <2> QED BY <2>1, AppendProperties, LenProperties
  <1>2. PICK f : SumsUp(f, ps) /\ LockedIn(ps) = f[n]
    BY LockedInSums
  <1>3. PICK g : SumsUp(g, qs) /\ LockedIn(qs) = g[Len(qs)]
    BY <1>1, LockedInSums
  <1>4. g[n] = f[n] /\ f[n] \in Int
    <2>1. \A i \in 1 .. n : Locked(ps[i]) \in Nat
      BY LockedType
    <2>2. Apart(ps, qs, n, 1, 0)
      BY <1>1, <2>1 DEF Apart
    <2>3. n <= Len(ps) /\ n <= Len(qs) /\ 1 \in Nat \ {0} /\ 0 \in Int
      BY <1>1
    <2> HIDE DEF n
    <2>4. g[n] = f[n] - (IF n >= 1 THEN 0 ELSE 0) /\ f[n] \in Int
      BY <1>1, <1>2, <1>3, <2>2, <2>3, SumsDiffer
    <2> QED BY <2>4
  <1>5. g[n + 1] = g[n] + c
    <2>1. n + 1 \in 0 .. Len(qs) /\ n + 1 # 0 /\ (n + 1) - 1 = n
      BY <1>1
    <2>2. g[n + 1] = g[n] + Locked(p)
      BY <1>1, <1>3, <2>1 DEF SumsUp
    <2> QED BY <2>2 DEF Locked
  <1> QED BY <1>1, <1>2, <1>3, <1>4, <1>5

(* ... and a closing takes that of its position away.                      *)
LEMMA ClosingUnlocks ==
    ASSUME NEW ps \in Seq(Position), NEW id \in DOMAIN ps, ps[id].open,
           NEW qs \in Seq(Position), qs = [ps EXCEPT ![id].open = FALSE]
    PROVE  /\ LockedIn(qs) = LockedIn(ps) - ps[id].collateral
           /\ LockedIn(ps) \in Int
  <1> DEFINE n == Len(ps)
             c == ps[id].collateral
  <1>1. n \in Nat /\ DOMAIN ps = 1 .. n /\ Len(qs) = n
    BY LenProperties
  <1>2. PICK f : SumsUp(f, ps) /\ LockedIn(ps) = f[n]
    BY LockedInSums
  <1>3. PICK g : SumsUp(g, qs) /\ LockedIn(qs) = g[n]
    BY <1>1, LockedInSums
  <1>4. ps[id] \in Position /\ c \in Nat
    <2>1. ps[id] \in Position
      BY <1>1, ElementOfSeq
    <2> QED BY <2>1 DEF Position
  <1>5. qs[id].open = FALSE /\ \A i \in 1 .. n : i # id => qs[i] = ps[i]
    BY <1>1, <1>4 DEF Position
  <1>6. Apart(ps, qs, n, id, c)
    <2>1. Locked(ps[id]) = c /\ Locked(qs[id]) = 0
      BY <1>5 DEF Locked
    <2>2. \A i \in 1 .. n : Locked(ps[i]) \in Nat
      BY <1>1, LockedType
    <2> HIDE DEF n, c
    <2> QED BY <1>4, <1>5, <2>1, <2>2 DEF Apart
  <1>7. id \in Nat \ {0} /\ id <= n /\ n <= Len(ps) /\ n <= Len(qs)
    BY <1>1
  <1> HIDE DEF c, n
  <1>8. g[n] = f[n] - (IF n >= id THEN c ELSE 0) /\ f[n] \in Int
    <2>1. n \in Nat /\ c \in Int
      BY <1>1, <1>4
    <2>2. SumsUp(f, ps) /\ SumsUp(g, qs)
      BY <1>2, <1>3
    <2> QED BY <1>6, <1>7, <2>1, <2>2, SumsDiffer
  <1> QED BY <1>1, <1>2, <1>3, <1>7, <1>8 DEF c

-----------------------------------------------------------------------------
(* The router can pay.                                                     *)

(* Inductive, under WalletInv: the router, too, approves nobody, so its    *)
(* tokens leave it by a losing position's payment alone.                   *)
CoverInv == ApprovesNobody(token, Router) /\ RouterCoversPositions

LEMMA CoverTypes ==
    ASSUME WalletInv
    PROVE  /\ token \in Token /\ token.balanceOf[Router] \in Nat
           /\ positions \in Seq(Position) /\ LockedIn(positions) \in Nat
           /\ OpenCollateral = LockedIn(positions)
  BY Roles, LockedInType DEF WalletInv, TypeOK, Token, OpenCollateral

(* From tokens t that cover the positions: a call that moves or approves   *)
(* tokens for anyone but the router, an opening and a closing keep it so.  *)
Covers(t) == t.balanceOf[Router] >= LockedIn(positions)

LEMMA CoverMoves ==
    ASSUME WalletInv, WalletInv', NEW t \in Token, ApprovesNobody(t, Router), Covers(t),
           positions' = positions, NEW c \in Accounts, c # Router,
           \/ token' = t
           \/ Mints(t, token') \/ Sends(t, c, token') \/ Pulls(t, c, token')
           \/ Approves(t, c, token')
    PROVE  CoverInv'
  <1>1. LockedIn(positions) \in Nat /\ t.balanceOf[Router] \in Nat
    BY CoverTypes, Roles DEF Token
  <1>2. /\ token'.balanceOf[Router] >= t.balanceOf[Router]
        /\ ApprovesNobody(token', Router)
    <2>1. CASE token' = t
      BY <1>1, <2>1
    <2>2. CASE Mints(t, token') \/ Sends(t, c, token') \/ Pulls(t, c, token')
      BY <2>2, Roles, MoveFacts
    <2>3. CASE Approves(t, c, token')
      BY <1>1, <2>3, Roles, ApproveFacts DEF ApprovesNobody
    <2> QED BY <2>1, <2>2, <2>3
  <1>3. token'.balanceOf[Router] \in Nat /\ OpenCollateral' = LockedIn(positions)
    BY Roles DEF WalletInv, TypeOK, Token, OpenCollateral
  <1> QED BY <1>1, <1>2, <1>3
          DEF CoverInv, ApprovesNobody, Covers, RouterCoversPositions

LEMMA CoverOpens ==
    ASSUME WalletInv, NEW t \in Token, ApprovesNobody(t, Router), Covers(t),
           NEW c \in Accounts, c # Router, NEW collateral \in Nat,
           Opens(t, c, collateral)
    PROVE  CoverInv'
  <1>1. TypeOK /\ positions \in Seq(Position) /\ LockedIn(positions) \in Nat
        /\ t.balanceOf[Router] \in Nat
    BY CoverTypes, Roles DEF WalletInv, Token
  <1>2. /\ positions' = Append(positions, [collateral |-> collateral, open |-> TRUE])
        /\ token'.balanceOf[Router] = t.balanceOf[Router] + collateral
        /\ token'.allowance[Router] = t.allowance[Router]
    BY <1>1, Roles, OpenFacts
  <1>3. LockedIn(positions') = LockedIn(positions) + collateral
    BY <1>1, <1>2, OpeningLocks
  <1>4. OpenCollateral' = LockedIn(positions')
    BY DEF OpenCollateral
  <1> QED BY <1>1, <1>2, <1>3, <1>4
          DEF CoverInv, Covers, ApprovesNobody, RouterCoversPositions

LEMMA CoverCloses ==
    ASSUME WalletInv, NEW t \in Token, ApprovesNobody(t, Router), Covers(t),
           NEW c \in Accounts, c # Router, Closes(t, c)
    PROVE  CoverInv'
  <1>1. /\ TypeOK /\ positions \in Seq(Position) /\ LockedIn(positions) \in Nat
        /\ t.balanceOf[Router] \in Nat
    BY CoverTypes, Roles DEF WalletInv, Token
  <1>2. /\ token' \in Token /\ positions' \in Seq(Position)
        /\ token'.allowance = t.allowance
    BY <1>1, CloseFacts
  <1>3. PICK id \in DOMAIN positions :
           /\ positions[id].open
           /\ positions' = [positions EXCEPT ![id].open = FALSE]
           /\ Pays(t, c, positions[id].collateral, token')
    BY <1>1, CloseFacts
  <1> DEFINE owed == positions[id].collateral
  <1>4. owed \in Nat
    BY <1>1, PnlBound
  <1>5. LockedIn(positions') = LockedIn(positions) - owed
    BY <1>1, <1>2, <1>3, ClosingUnlocks
  <1>6. Pays(t, c, owed, token')
    BY <1>3
  <1> HIDE DEF owed
  <1>7. token'.balanceOf[Router] >= t.balanceOf[Router] - owed
    <2>1. PICK amount \in Nat :
             \/ CanMint(t, amount) /\ token' = Mint(t, c, amount)
             \/ /\ amount <= owed /\ CanTransfer(t, Router, amount)
                /\ token' = Transfer(t, Router, c, amount)
      BY <1>6 DEF Pays
    <2>2. CASE token' = Mint(t, c, amount)
      <3>1. token'.balanceOf[Router] >= t.balanceOf[Router]
        BY <2>2, Roles, MintFacts
      <3>2. token'.balanceOf[Router] \in Nat
        BY <1>2, Roles DEF Token
      <3> QED BY <1>1, <1>4, <3>1, <3>2
    <2>3. CASE /\ amount <= owed /\ CanTransfer(t, Router, amount)
               /\ token' = Transfer(t, Router, c, amount)
      <3>1. token'.balanceOf[Router] = t.balanceOf[Router] - amount
        BY <2>3, Roles, TransferFacts
      <3> QED BY <1>1, <1>4, <2>1, <2>3, <3>1
    <2> QED BY <2>1, <2>2, <2>3
  <1>8. token'.balanceOf[Router] \in Nat /\ OpenCollateral' = LockedIn(positions')
    BY <1>2, Roles DEF Token, OpenCollateral
  <1> QED BY <1>1, <1>2, <1>4, <1>5, <1>7, <1>8
          DEF CoverInv, Covers, ApprovesNobody, RouterCoversPositions

(* A trade's call is one of these, from what its transfer has left.        *)
LEMMA CoverTrade ==
    ASSUME WalletInv, WalletInv', CoverInv, NEW h \in Humans, AuthorizeTrade(h)
    PROVE  CoverInv'
  <1>1. PICK amount \in Nat, router \in Accounts, call \in Calls :
           IsTrade(amount, router, call)
    BY TradeFacts
  <1> DEFINE t == Transfer(token, Wallet, router, amount)
  <1>2. /\ t \in Token /\ t.allowance = token.allowance
        /\ t.balanceOf[Router] >= token.balanceOf[Router]
    BY <1>1, Roles, CoverTypes, TransferFacts DEF IsTrade
  <1>3. Called(router, call, t)
    BY <1>1 DEF IsTrade
  <1> HIDE DEF t
  <1>4. ApprovesNobody(t, Router) /\ Covers(t)
    <2>1. t.balanceOf[Router] \in Nat
      BY <1>2, Roles DEF Token
    <2> QED BY <1>2, <2>1, CoverTypes
            DEF CoverInv, ApprovesNobody, Covers, RouterCoversPositions
  <1>5. Wallet \in Accounts /\ Wallet # Router
    BY Roles
  <1>6. CASE call \in {"nothing", "approve", "move"}
    <2>1. /\ positions' = positions
          /\ \/ token' = t
             \/ Mints(t, token') \/ Sends(t, Wallet, token')
             \/ Pulls(t, Wallet, token') \/ Approves(t, Wallet, token')
      BY <1>3, <1>6 DEF Called
    <2> QED BY <1>2, <1>4, <1>5, <2>1, CoverMoves
  <1>7. CASE call = "open"
    <2>1. PICK collateral \in Amounts : Opens(t, Wallet, collateral)
      BY <1>3, <1>7 DEF Called
    <2>2. collateral \in Nat
      BY ContractsAssumption
    <2> QED BY <1>2, <1>4, <1>5, <2>1, <2>2, CoverOpens
  <1>8. CASE call = "close"
    <2>1. Closes(t, Wallet)
      BY <1>3, <1>8 DEF Called
    <2> QED BY <1>2, <1>4, <1>5, <2>1, CoverCloses
  <1> QED BY <1>6, <1>7, <1>8 DEF Calls

LEMMA CoverStep ==
    ASSUME WalletInv, WalletInv', CoverInv, [Next]_vars
    PROVE  CoverInv'
  <1>1. /\ token \in Token /\ ApprovesNobody(token, Router) /\ Covers(token)
        /\ Plugin \in Accounts /\ Plugin # Router
    BY CoverTypes, Roles DEF CoverInv, Covers, RouterCoversPositions
  <1>2. ASSUME positions' = positions, NEW c \in Accounts, c # Router,
               \/ token' = token
               \/ Mints(token, token') \/ Sends(token, c, token')
               \/ Pulls(token, c, token') \/ Approves(token, c, token')
        PROVE  CoverInv'
    BY <1>1, <1>2, CoverMoves
  <1>3. CASE MintTokens
    BY <1>1, <1>2, <1>3 DEF MintTokens, onlyToken
  <1>4. ASSUME NEW c \in Callers, SendTokens(c) \/ PullTokens(c) \/ ApproveTokens(c)
        PROVE  CoverInv'
    <2>1. c \in Accounts /\ c # Router
      BY Roles
    <2> QED BY <1>2, <1>4, <2>1 DEF SendTokens, PullTokens, ApproveTokens, onlyToken
  <1>5. ASSUME NEW c \in Callers, ClosePosition(c) PROVE CoverInv'
    <2>1. c \in Accounts /\ c # Router /\ Closes(token, c)
      BY <1>5, Roles DEF ClosePosition
    <2> QED BY <1>1, <2>1, CoverCloses
  <1>6. CASE PluginOpens
    <2> DEFINE C(size) == (size * ProviderUnit) \div Leverage
    <2>1. PICK size \in Sizes : Opens(token, Plugin, C(size))
      BY <1>6 DEF PluginOpens
    <2>2. C(size) \in Nat
      <3>1. size \in Nat /\ size * ProviderUnit \in Nat /\ Leverage \in Nat \ {0}
        BY ContractsAssumption
      <3> QED BY <3>1, DivFloor
    <2> HIDE DEF C
    <2> QED BY <1>1, <2>1, <2>2, CoverOpens
  <1>7. ASSUME NEW h \in Humans, AuthorizeTrade(h) PROVE CoverInv'
    BY <1>7, CoverTrade
  <1>8. ASSUME NEW h \in Humans,
               \/ SettleTrade(h) \/ RecordBuyback(h) \/ SetAgent(h)
               \/ SetMaxTradeBps(h) \/ SetTimelockSeconds(h)
               \/ Pause(h) \/ Unpause(h)
        PROVE  CoverInv'
    <2>1. UNCHANGED onlyWallet
      BY <1>8, StorageSteps
    <2> QED BY <1>1, <1>2, <2>1 DEF onlyWallet
  <1>9. ASSUME NEW h \in Humans, EmergencyWithdraw(h) PROVE CoverInv'
    <2>1. Sends(token, Wallet, token') /\ positions' = positions
      BY <1>9, Roles DEF EmergencyWithdraw, Sends
    <2> QED BY <1>2, <2>1, Roles
  <1>10. CASE NextBlock \/ UNCHANGED vars
    <2>1. UNCHANGED <<token, positions>>
      BY <1>10 DEF NextBlock, vars
    <2> QED BY <1>1, <1>2, <2>1
  <1> QED BY <1>3, <1>4, <1>5, <1>6, <1>7, <1>8, <1>9, <1>10 DEF Next

(* The router can pay every open position out: no closing is ever refused  *)
(* for want of tokens, in whatever order positions win, lose and close.    *)
THEOREM RouterCanPay == Spec => []RouterCoversPositions
  <1>1. Init => CoverInv
    <2> SUFFICES ASSUME Init PROVE CoverInv
      OBVIOUS
    <2>1. /\ \A a \in Accounts : token.balanceOf[a] = 0
          /\ \A a, s \in Accounts : token.allowance[a][s] = 0
          /\ positions = <<>>
      BY DEF Init, EmptyToken
    <2>2. OpenCollateral = 0
      <3>1. positions \in Seq(Position) /\ Len(positions) = 0
        BY <2>1, EmptySeq
      <3>2. PICK f : SumsUp(f, positions) /\ LockedIn(positions) = f[Len(positions)]
        BY <3>1, LockedInSums
      <3> QED BY <3>1, <3>2 DEF SumsUp, OpenCollateral
    <2> QED BY <2>1, <2>2, Roles
            DEF CoverInv, ApprovesNobody, RouterCoversPositions
  <1>2. CoverInv => RouterCoversPositions
    BY DEF CoverInv
  <1>3. WalletInv /\ [Next]_vars => WalletInv'
    BY WalletStep
  <1> QED BY <1>1, <1>2, <1>3, InitWalletInv, CoverStep, PTL DEF Spec

-----------------------------------------------------------------------------
(* The supply.                                                             *)

(* What Transfer rests on, which takes no credit to overflow: the supply,  *)
(* which mint checks, fits a uint256, and nobody holds more.               *)
BalancesFit ==
    /\ token.totalSupply < Word
    /\ \A a \in Accounts : token.balanceOf[a] <= token.totalSupply

(* The accounts in some order, each of them once.                          *)
Holders == Cardinality(Accounts)

InOrder(s) ==
    /\ s \in [1 .. Holders -> Accounts]
    /\ \A a \in Accounts : \E k \in 1 .. Holders : s[k] = a
    /\ \A j, k \in 1 .. Holders : s[j] = s[k] => j = k

Order == CHOOSE s : InOrder(s)

(* The balances are added up as the collateral of positions is: an account *)
(* is an open position of what it holds.                                   *)
Ledger(b) == [k \in 1 .. Holders |-> [collateral |-> b[Order[k]], open |-> TRUE]]

Total(b) == LockedIn(Ledger(b))

SupplyInv == Total(token.balanceOf) = token.totalSupply /\ token.totalSupply < Word

LEMMA OrderExists == Holders \in Nat /\ InOrder(Order)
  <1>1. Holders \in Nat /\ ExistsBijection(1 .. Holders, Accounts)
    BY TokenAssumption, FS_CardinalityType DEF Holders
  <1>2. \E s : InOrder(s)
    <2>1. PICK s : s \in Bijection(1 .. Holders, Accounts)
      BY <1>1 DEF ExistsBijection
    <2>2. s \in Injection(1 .. Holders, Accounts) /\ s \in Surjection(1 .. Holders, Accounts)
      BY <2>1 DEF Bijection
    <2>3. /\ s \in [1 .. Holders -> Accounts]
          /\ \A j, k \in 1 .. Holders : s[j] = s[k] => j = k
      BY <2>2 DEF Injection, IsInjective
    <2>4. \A a \in Accounts : \E k \in 1 .. Holders : s[k] = a
      BY <2>2 DEF Surjection
    <2>5. InOrder(s)
      BY <2>3, <2>4 DEF InOrder
    <2> QED BY <2>5
  <1> QED BY <1>1, <1>2 DEF Order

LEMMA LedgerFacts ==
    ASSUME NEW b \in [Accounts -> Nat]
    PROVE  /\ Ledger(b) \in Seq(Position) /\ Len(Ledger(b)) = Holders
           /\ \A k \in 1 .. Holders : Locked(Ledger(b)[k]) = b[Order[k]]
  <1>1. /\ Holders \in Nat
        /\ \A k \in 1 .. Holders : Order[k] \in Accounts
    BY OrderExists DEF InOrder
  <1>2. \A k \in 1 .. Holders :
           /\ Ledger(b)[k] = [collateral |-> b[Order[k]], open |-> TRUE]
           /\ Ledger(b)[k] \in Position
    BY <1>1 DEF Ledger, Position
  <1>3. Ledger(b) \in [1 .. Holders -> Position]
    BY <1>2 DEF Ledger
  <1>4. Ledger(b) \in Seq(Position)
    BY <1>1, <1>3, SeqDef
  <1>5. Len(Ledger(b)) = Holders
    BY <1>1, <1>3, <1>4, LenProperties
  <1>6. \A k \in 1 .. Holders : Locked(Ledger(b)[k]) = b[Order[k]]
    <2> SUFFICES ASSUME NEW k \in 1 .. Holders
                 PROVE  Locked(Ledger(b)[k]) = b[Order[k]]
      OBVIOUS
    <2>1. Locked([collateral |-> b[Order[k]], open |-> TRUE]) = b[Order[k]]
      BY DEF Locked
    <2> QED BY <1>2, <2>1
  <1> QED BY <1>4, <1>5, <1>6

(* One balance changes, and the total by as much.                          *)
LEMMA TotalChanges ==
    ASSUME NEW b \in [Accounts -> Nat], NEW a \in Accounts, NEW v \in Nat
    PROVE  /\ Total(b) \in Nat
           /\ Total([b EXCEPT ![a] = v]) = Total(b) - (b[a] - v)
  <1> DEFINE c == [b EXCEPT ![a] = v]
             gap == b[a] - v
  <1>1. c \in [Accounts -> Nat] /\ gap \in Int
    OBVIOUS
  <1>2. PICK id \in 1 .. Holders : Order[id] = a
    BY OrderExists DEF InOrder
  <1>3. \A k \in 1 .. Holders :
           c[Order[k]] = b[Order[k]] - (IF k = id THEN gap ELSE 0)
    <2> SUFFICES ASSUME NEW k \in 1 .. Holders
                 PROVE  c[Order[k]] = b[Order[k]] - (IF k = id THEN gap ELSE 0)
      OBVIOUS
    <2>1. Order[k] \in Accounts /\ (Order[k] = a <=> k = id)
      BY <1>2, OrderExists DEF InOrder
    <2>2. CASE k = id
      BY <2>1, <2>2
    <2>3. CASE k # id
      BY <2>1, <2>3
    <2> QED BY <2>2, <2>3
  <1> HIDE DEF c, gap
  <1>4. /\ Ledger(b) \in Seq(Position) /\ Len(Ledger(b)) = Holders
        /\ Ledger(c) \in Seq(Position) /\ Len(Ledger(c)) = Holders
        /\ \A k \in 1 .. Holders : Locked(Ledger(b)[k]) = b[Order[k]]
        /\ \A k \in 1 .. Holders : Locked(Ledger(c)[k]) = c[Order[k]]
    BY <1>1, LedgerFacts
  <1>5. Apart(Ledger(b), Ledger(c), Holders, id, gap)
    BY <1>3, <1>4 DEF Apart
  <1>6. PICK f : SumsUp(f, Ledger(b)) /\ Total(b) = f[Holders]
    BY <1>4, LockedInSums DEF Total
  <1>7. PICK g : SumsUp(g, Ledger(c)) /\ Total(c) = g[Holders]
    BY <1>4, LockedInSums DEF Total
  <1>8. /\ Holders \in Nat /\ Holders >= id /\ id \in Nat \ {0}
        /\ Holders <= Len(Ledger(b)) /\ Holders <= Len(Ledger(c))
    BY <1>4, OrderExists
  <1>9. g[Holders] = f[Holders] - (IF Holders >= id THEN gap ELSE 0)
    BY <1>1, <1>4, <1>5, <1>6, <1>7, <1>8, SumsDiffer
  <1>10. Total(b) \in Nat
    BY <1>4, LockedInType DEF Total
  <1> QED BY <1>6, <1>7, <1>8, <1>9, <1>10 DEF c, gap

(* Nobody holds more than the total.                                       *)
LEMMA TotalCovers ==
    ASSUME NEW b \in [Accounts -> Nat], NEW a \in Accounts
    PROVE  b[a] <= Total(b)
  <1>1. [b EXCEPT ![a] = 0] \in [Accounts -> Nat] /\ b[a] \in Nat
    OBVIOUS
  <1>2. Total([b EXCEPT ![a] = 0]) \in Nat
    BY <1>1, TotalChanges
  <1>3. /\ Total(b) \in Nat
        /\ Total([b EXCEPT ![a] = 0]) = Total(b) - (b[a] - 0)
    BY TotalChanges
  <1> QED BY <1>1, <1>2, <1>3

LEMMA MintTotal ==
    ASSUME NEW t \in Token, NEW to \in Accounts, NEW amount \in Nat
    PROVE  /\ Total(Mint(t, to, amount).balanceOf) = Total(t.balanceOf) + amount
           /\ Mint(t, to, amount).totalSupply = t.totalSupply + amount
  <1> DEFINE v == t.balanceOf[to] + amount
             b == [t.balanceOf EXCEPT ![to] = v]
             u == [t EXCEPT !.balanceOf = b]
  <1>1. t.balanceOf \in [Accounts -> Nat] /\ t.balanceOf[to] \in Nat /\ v \in Nat
    BY DEF Token
  <1>2. Mint(t, to, amount) = [u EXCEPT !.totalSupply = @ + amount]
    BY DEF Mint
  <1>3. u.balanceOf = b /\ u.totalSupply = t.totalSupply
    BY DEF Token
  <1>4. DOMAIN u = DOMAIN t
    OBVIOUS
  <1>5. Total(t.balanceOf) \in Nat /\ Total(b) = Total(t.balanceOf) - (t.balanceOf[to] - v)
    <2> HIDE DEF v
    <2> QED BY <1>1, TotalChanges
  <1>6. t.balanceOf[to] - v = -amount
    BY <1>1
  <1>7. Total(b) = Total(t.balanceOf) + amount
    <2> HIDE DEF b, v
    <2> QED BY <1>5, <1>6
  <1>8. /\ Mint(t, to, amount).balanceOf = u.balanceOf
        /\ Mint(t, to, amount).totalSupply = u.totalSupply + amount
    <2>1. u \in Token
      <3>1. b \in [Accounts -> Nat]
        BY <1>1
      <3> HIDE DEF b
      <3> QED BY <3>1 DEF Token
    <2> HIDE DEF u
    <2> QED BY <1>2, <2>1 DEF Token
  <1> HIDE DEF b, u
  <1> QED BY <1>3, <1>7, <1>8

LEMMA TransferTotal ==
    ASSUME NEW t \in Token, NEW from \in Accounts, NEW to \in Accounts,
           NEW amount \in Nat, CanTransfer(t, from, amount)
    PROVE  /\ Total(Transfer(t, from, to, amount).balanceOf) = Total(t.balanceOf)
           /\ Transfer(t, from, to, amount).totalSupply = t.totalSupply
  <1> DEFINE f == t.balanceOf
             v == f[from] - amount
             b == [f EXCEPT ![from] = v]
             w == b[to] + amount
             c == [b EXCEPT ![to] = w]
             u == [t EXCEPT !.balanceOf = b]
  <1>1. f \in [Accounts -> Nat] /\ f[from] \in Nat /\ v \in Nat
    BY DEF Token, CanTransfer
  <1>2. u.balanceOf = b /\ u.totalSupply = t.totalSupply
    BY DEF Token
  <1>3. Transfer(t, from, to, amount) = [u EXCEPT !.balanceOf = c]
    BY <1>2 DEF Transfer
  <1>4. Total(f) \in Nat /\ Total(b) = Total(f) - (f[from] - v)
    <2> HIDE DEF f, v
    <2> QED BY <1>1, TotalChanges
  <1>5. b \in [Accounts -> Nat]
    <2> HIDE DEF f, v
    <2> QED BY <1>1
  <1>6. u \in Token
    <2> HIDE DEF b
    <2> QED BY <1>5 DEF Token
  <1>7. b[to] \in Nat /\ w \in Nat
    <2> HIDE DEF b
    <2> QED BY <1>5
  <1>8. Total(b) \in Nat /\ Total(c) = Total(b) - (b[to] - w)
    <2> HIDE DEF b, w
    <2> QED BY <1>5, <1>7, TotalChanges
  <1>9. f[from] - v = amount /\ b[to] - w = -amount
    <2> HIDE DEF f, b
    <2> QED BY <1>1, <1>7
  <1>10. Total(c) = Total(f)
    <2> HIDE DEF f, v, b, w, c
    <2> QED BY <1>4, <1>8, <1>9
  <1>11. /\ Transfer(t, from, to, amount).balanceOf = c
         /\ Transfer(t, from, to, amount).totalSupply = u.totalSupply
    <2> HIDE DEF u, c
    <2> QED BY <1>3, <1>6 DEF Token
  <1> QED BY <1>2, <1>10, <1>11

LEMMA PullTotal ==
    ASSUME NEW t \in Token, NEW spender \in Accounts, NEW from \in Accounts,
           NEW to \in Accounts, NEW amount \in Nat,
           CanTransferFrom(t, spender, from, amount)
    PROVE  /\ Total(TransferFrom(t, spender, from, to, amount).balanceOf)
                 = Total(t.balanceOf)
           /\ TransferFrom(t, spender, from, to, amount).totalSupply = t.totalSupply
  <1> DEFINE l == [t.allowance[from] EXCEPT ![spender] = @ - amount]
             m == [t.allowance EXCEPT ![from] = l]
             u == [t EXCEPT !.allowance = m]
  <1>1. l \in [Accounts -> Nat]
    BY DEF Token, CanTransferFrom
  <1>2. TransferFrom(t, spender, from, to, amount) = Transfer(u, from, to, amount)
    BY DEF TransferFrom
  <1> HIDE DEF l
  <1>3. m \in [Accounts -> [Accounts -> Nat]]
    BY <1>1 DEF Token
  <1> HIDE DEF m
  <1>4. u \in Token /\ u.balanceOf = t.balanceOf /\ u.totalSupply = t.totalSupply
    BY <1>3 DEF Token
  <1> HIDE DEF u
  <1> QED BY <1>2, <1>4, TransferTotal DEF CanTransfer, CanTransferFrom

Balanced(t) == Total(t.balanceOf) = t.totalSupply /\ t.totalSupply < Word

(* Every call moves tokens, or mints them and counts them.                 *)
LEMMA MovesBalance ==
    ASSUME NEW t \in Token, Balanced(t), NEW c \in Accounts, NEW u,
           \/ u = t
           \/ Mints(t, u) \/ Sends(t, c, u) \/ Pulls(t, c, u) \/ Approves(t, c, u)
    PROVE  Balanced(u)
  <1>1. t.totalSupply \in Nat /\ Word \in Nat /\ Amounts \subseteq Nat
    BY TokenAssumption, ContractsAssumption DEF Token
  <1>2. CASE u = t
    BY <1>2
  <1>3. CASE Mints(t, u)
    BY <1>1, <1>3, MintTotal DEF Mints, CanMint, Balanced
  <1>4. CASE Sends(t, c, u)
    BY <1>1, <1>4, TransferTotal DEF Sends, Balanced
  <1>5. CASE Pulls(t, c, u)
    BY <1>1, <1>5, PullTotal DEF Pulls, Balanced
  <1>6. CASE Approves(t, c, u)
    BY <1>6, ApproveFacts DEF Balanced
  <1> QED BY <1>2, <1>3, <1>4, <1>5, <1>6

LEMMA OpensBalance ==
    ASSUME NEW t \in Token, Balanced(t), NEW c \in Accounts,
           NEW collateral \in Nat, Opens(t, c, collateral)
    PROVE  Balanced(token')
  <1>1. /\ token' = TransferFrom(t, Router, c, Router, collateral)
        /\ CanTransferFrom(t, Router, c, collateral)
    BY DEF Opens, CanOpen
  <1> QED BY <1>1, Roles, PullTotal DEF Balanced

LEMMA ClosesBalance ==
    ASSUME TypeOK, NEW t \in Token, Balanced(t), NEW c \in Accounts, Closes(t, c)
    PROVE  Balanced(token')
  <1>1. \E amount \in Nat :
           \/ CanMint(t, amount) /\ token' = Mint(t, c, amount)
           \/ CanTransfer(t, Router, amount) /\ token' = Transfer(t, Router, c, amount)
    BY CloseFacts DEF Pays
  <1>2. t.totalSupply \in Nat /\ Word \in Nat
    BY TokenAssumption DEF Token
  <1> QED BY <1>1, <1>2, Roles, MintTotal, TransferTotal DEF Balanced, CanMint

LEMMA TradeBalance ==
    ASSUME WalletInv, SupplyInv, NEW h \in Humans, AuthorizeTrade(h)
    PROVE  SupplyInv'
  <1>1. PICK amount \in Nat, router \in Accounts, call \in Calls :
           IsTrade(amount, router, call)
    BY TradeFacts
  <1> DEFINE t == Transfer(token, Wallet, router, amount)
  <1>2. t \in Token /\ Balanced(t)
    <2>1. token \in Token /\ CanTransfer(token, Wallet, amount)
      BY <1>1 DEF WalletInv, TypeOK, IsTrade
    <2> QED BY <2>1, Roles, TransferFacts, TransferTotal DEF SupplyInv, Balanced
  <1>3. Called(router, call, t)
    BY <1>1 DEF IsTrade
  <1> HIDE DEF t
  <1>4. Wallet \in Accounts /\ TypeOK
    BY Roles DEF WalletInv
  <1>5. CASE call \in {"nothing", "approve", "move"}
    <2>1. \/ token' = t
          \/ Mints(t, token') \/ Sends(t, Wallet, token')
          \/ Pulls(t, Wallet, token') \/ Approves(t, Wallet, token')
      BY <1>3, <1>5 DEF Called
    <2>2. Balanced(token')
      BY <1>2, <1>4, <2>1, MovesBalance
    <2> QED BY <2>2 DEF Balanced, SupplyInv
  <1>6. CASE call = "open"
    <2>1. PICK collateral \in Amounts : Opens(t, Wallet, collateral)
      BY <1>3, <1>6 DEF Called
    <2>2. collateral \in Nat
      BY ContractsAssumption
    <2>3. Balanced(token')
      BY <1>2, <1>4, <2>1, <2>2, OpensBalance
    <2> QED BY <2>3 DEF Balanced, SupplyInv
  <1>7. CASE call = "close"
    <2>1. Closes(t, Wallet)
      BY <1>3, <1>7 DEF Called
    <2>2. Balanced(token')
      BY <1>2, <1>4, <2>1, ClosesBalance
    <2> QED BY <2>2 DEF Balanced, SupplyInv
  <1> QED BY <1>5, <1>6, <1>7 DEF Calls

LEMMA SupplyStep ==
    ASSUME WalletInv, SupplyInv, [Next]_vars PROVE SupplyInv'
  <1>1. token \in Token /\ Balanced(token) /\ TypeOK /\ Plugin \in Accounts
    BY Roles DEF WalletInv, TypeOK, SupplyInv, Balanced
  <1>2. ASSUME Balanced(token') PROVE SupplyInv'
    BY <1>2 DEF Balanced, SupplyInv
  <1>3. CASE MintTokens
    BY <1>1, <1>2, <1>3, MovesBalance DEF MintTokens
  <1>4. ASSUME NEW c \in Callers, SendTokens(c) \/ PullTokens(c) \/ ApproveTokens(c)
        PROVE  SupplyInv'
    <2>1. /\ c \in Accounts
          /\ Sends(token, c, token') \/ Pulls(token, c, token')
             \/ Approves(token, c, token')
      BY <1>4, Roles DEF SendTokens, PullTokens, ApproveTokens
    <2> QED BY <1>1, <1>2, <2>1, MovesBalance
  <1>5. ASSUME NEW c \in Callers, ClosePosition(c) PROVE SupplyInv'
    <2>1. c \in Accounts /\ Closes(token, c)
      BY <1>5, Roles DEF ClosePosition
    <2> QED BY <1>1, <1>2, <2>1, ClosesBalance
  <1>6. CASE PluginOpens
    <2> DEFINE C(size) == (size * ProviderUnit) \div Leverage
    <2>1. PICK size \in Sizes : Opens(token, Plugin, C(size))
      BY <1>6 DEF PluginOpens
    <2>2. C(size) \in Nat
      <3>1. size \in Nat /\ size * ProviderUnit \in Nat /\ Leverage \in Nat \ {0}
        BY ContractsAssumption
      <3> QED BY <3>1, DivFloor
    <2> HIDE DEF C
    <2> QED BY <1>1, <1>2, <2>1, <2>2, OpensBalance
  <1>7. ASSUME NEW h \in Humans, AuthorizeTrade(h) PROVE SupplyInv'
    BY <1>7, TradeBalance
  <1>8. ASSUME NEW h \in Humans,
               \/ SettleTrade(h) \/ RecordBuyback(h) \/ SetAgent(h)
               \/ SetMaxTradeBps(h) \/ SetTimelockSeconds(h)
               \/ Pause(h) \/ Unpause(h)
        PROVE  SupplyInv'
    <2>1. UNCHANGED onlyWallet
      BY <1>8, StorageSteps
    <2> QED BY <2>1 DEF onlyWallet, SupplyInv
  <1>9. ASSUME NEW h \in Humans, EmergencyWithdraw(h) PROVE SupplyInv'
    <2>1. Sends(token, Wallet, token') /\ Wallet \in Accounts
      BY <1>9, Roles DEF EmergencyWithdraw, Sends
    <2> QED BY <1>1, <1>2, <2>1, MovesBalance
  <1>10. CASE NextBlock \/ UNCHANGED vars
    BY <1>10 DEF NextBlock, vars, SupplyInv
  <1> QED BY <1>3, <1>4, <1>5, <1>6, <1>7, <1>8, <1>9, <1>10 DEF Next

(* Whatever is minted, sent, pulled, paid out and authorized, the balances *)
(* add up to the supply, so no credit ever overflows a uint256: the only   *)
(* check that MockERC20.sol needs of its additions is the one of mint.     *)
THEOREM SupplyTheorem == Spec => []BalancesFit
  <1>1. Init => SupplyInv
    <2> SUFFICES ASSUME Init PROVE SupplyInv
      OBVIOUS
    <2> DEFINE b == [a \in Accounts |-> 0]
    <2>1. token.balanceOf = b /\ token.totalSupply = 0 /\ b \in [Accounts -> Nat]
      BY DEF Init, EmptyToken
    <2>2. /\ Ledger(b) \in Seq(Position) /\ Len(Ledger(b)) = Holders
          /\ \A k \in 1 .. Holders : Locked(Ledger(b)[k]) = 0
      <3>1. \A k \in 1 .. Holders : b[Order[k]] = 0
        BY OrderExists DEF InOrder
      <3> HIDE DEF b
      <3> QED BY <2>1, <3>1, LedgerFacts
    <2> HIDE DEF b
    <2>3. PICK f : SumsUp(f, Ledger(b)) /\ Total(b) = f[Holders]
      BY <2>2, LockedInSums DEF Total
    <2> DEFINE Bad == {n \in 0 .. Holders : f[n] # 0}
    <2>4. Holders \in Nat
      BY OrderExists
    <2>5. Bad = {}
      <3>1. SUFFICES ASSUME Bad # {} PROVE FALSE
        OBVIOUS
      <3>2. PICK n \in Bad : \A m \in Bad : ~(m < n)
        <4>1. Bad \subseteq Nat
          BY <2>4
        <4> HIDE DEF Bad
        <4> QED BY <3>1, <4>1, Least
      <3>3. f[0] = 0
        BY <2>2, <2>3, <2>4 DEF SumsUp
      <3>4. n \in 1 .. Holders /\ n - 1 \in 0 .. Holders /\ n - 1 < n
        BY <2>4, <3>2, <3>3
      <3>5. f[n - 1] = 0
        BY <3>2, <3>4
      <3>6. f[n] = f[n - 1] + Locked(Ledger(b)[n])
        BY <2>2, <2>3, <3>4 DEF SumsUp
      <3>7. f[n] = 0
        BY <2>2, <3>4, <3>5, <3>6
      <3> QED BY <3>2, <3>7
    <2>6. Total(b) = 0
      BY <2>3, <2>4, <2>5
    <2> QED BY <2>1, <2>6, TokenAssumption DEF SupplyInv
  <1>2. WalletInv /\ SupplyInv => BalancesFit
    <2> SUFFICES ASSUME WalletInv, SupplyInv PROVE BalancesFit
      OBVIOUS
    <2>1. token.balanceOf \in [Accounts -> Nat]
      BY DEF WalletInv, TypeOK, Token
    <2> QED BY <2>1, TotalCovers DEF SupplyInv, BalancesFit
  <1>3. WalletInv /\ [Next]_vars => WalletInv'
    BY WalletStep
  <1> QED BY <1>1, <1>2, <1>3, InitWalletInv, SupplyStep, PTL DEF Spec

=============================================================================
