------------------------------ MODULE MockERC20 ------------------------------
(***************************************************************************)
(* The token of the test network                                           *)
(* (packages/plugin-bnb-auralens/contracts/MockERC20.sol), used as USDT.   *)
(*                                                                         *)
(* A contract's storage is a record, and a function of the contract is an  *)
(* operator on it.  A call that fails a require, or whose arithmetic       *)
(* overflows, reverts the transaction: Can... says when it does not.       *)
(***************************************************************************)
EXTENDS Integers, FiniteSets

CONSTANTS
    Accounts, \* the addresses that hold tokens or spend them
    Word      \* 2^256: what a uint256 stays below

ASSUME TokenAssumption == IsFiniteSet(Accounts) /\ Word \in Nat \ {0}

Token == [balanceOf   : [Accounts -> Nat],
          allowance   : [Accounts -> [Accounts -> Nat]],
          totalSupply : Nat]

EmptyToken == [balanceOf   |-> [a \in Accounts |-> 0],
               allowance   |-> [a \in Accounts |-> [s \in Accounts |-> 0]],
               totalSupply |-> 0]

(* The event a movement of tokens leaves in the receipt: `topic1' is its   *)
(* first indexed argument, `data' the word after the topics.               *)
TransferEvent(from, amount) == [topic1 |-> from, data |-> amount]

CanMint(t, amount) == t.totalSupply + amount < Word

Mint(t, to, amount) ==
    LET credited == [t EXCEPT !.balanceOf[to] = @ + amount]
    IN  [credited EXCEPT !.totalSupply = @ + amount]

CanTransfer(t, from, amount) == t.balanceOf[from] >= amount

Transfer(t, from, to, amount) ==
    LET debited == [t EXCEPT !.balanceOf[from] = @ - amount]
    IN  [debited EXCEPT !.balanceOf[to] = @ + amount]

Approve(t, owner, spender, amount) ==
    [t EXCEPT !.allowance[owner][spender] = amount]

(* Wrong form: the allowance is not looked at.                             *)
CanTransferFromUnasked(t, spender, from, amount) == t.balanceOf[from] >= amount

CanTransferFrom(t, spender, from, amount) ==
    t.balanceOf[from] >= amount /\ t.allowance[from][spender] >= amount

TransferFrom(t, spender, from, to, amount) ==
    LET spent == [t EXCEPT !.allowance[from][spender] = @ - amount]
    IN  Transfer(spent, from, to, amount)

=============================================================================
