--------------------------- MODULE WrappedBitcoin ---------------------------
(***************************************************************************)
(* The bridge token (contracts/WrappedBitcoin.sol).  A transaction either  *)
(* takes effect whole or reverts and changes nothing: each operation is    *)
(* one action whose guard is the conjunction of the checks it passes.      *)
(***************************************************************************)
EXTENDS Integers, Ownable

CONSTANTS MaxUint,         \* type(uint256).max, also the unlimited allowance
          Spenders         \* the addresses that are ever approved

ASSUME TokenAssumption == MaxUint \in Nat /\ Spenders \subseteq Addresses

VARIABLES totalSupply, balanceOf, allowance, isMinter,
          lockedMinter     \* NoOne until minterLocked

tokenVars == <<totalSupply, balanceOf, allowance, isMinter, lockedMinter>>

\* That no balance exceeds the supply, and so that the unchecked subtractions of
\* _burn do not wrap, is no matter of types: it is EvmProperties!SupplyIsBalances.
TokenTypeOK ==
  /\ totalSupply \in Int /\ totalSupply <= MaxUint
  /\ balanceOf \in [Users -> Nat]
  /\ allowance \in [Users -> [Spenders -> 0 .. MaxUint]]
  /\ isMinter \subseteq Addresses
  /\ lockedMinter \in Addresses \cup {NoOne}

SetMinter(caller, minter, allowed) ==
  /\ OnlyOwner("WrappedBitcoin", caller)
  /\ lockedMinter = NoOne
  /\ minter # NoOne
  /\ isMinter' = IF allowed THEN isMinter \cup {minter} ELSE isMinter \ {minter}
  /\ UNCHANGED <<totalSupply, balanceOf, allowance, lockedMinter>>

\* Mutant of LockMinter: a second call moves the lock to another minter.
RelockMinter(caller, minter) ==
  /\ OnlyOwner("WrappedBitcoin", caller)
  /\ minter # NoOne
  /\ lockedMinter' = minter
  /\ isMinter' = isMinter \cup {minter}
  /\ UNCHANGED <<totalSupply, balanceOf, allowance>>

LockMinter(caller, minter) ==
  /\ OnlyOwner("WrappedBitcoin", caller)
  /\ lockedMinter = NoOne
  /\ minter # NoOne
  /\ lockedMinter' = minter
  /\ isMinter' = isMinter \cup {minter}
  /\ UNCHANGED <<totalSupply, balanceOf, allowance>>

\* Once locked, only the locked minter; isMinter is then without effect.
MayMint(caller) ==
  IF lockedMinter # NoOne THEN caller = lockedMinter ELSE caller \in isMinter

Mint(caller, to, amount) ==
  /\ MayMint(caller)
  /\ to # NoOne
  /\ totalSupply + amount <= MaxUint
  /\ totalSupply' = totalSupply + amount
  /\ balanceOf' = [balanceOf EXCEPT ![to] = @ + amount]
  /\ UNCHANGED <<allowance, isMinter, lockedMinter>>

\* Mutant of Moved: the recipient is credited from its balance before the debit.
MovedFromStale(from, to, amount) ==
  [balanceOf EXCEPT ![from] = @ - amount, ![to] = balanceOf[to] + amount]

\* The balances after _transfer, which debits before it reads the recipient's.
Moved(from, to, amount) ==
  [[balanceOf EXCEPT ![from] = @ - amount] EXCEPT ![to] = @ + amount]

Transfer(caller, to, amount) ==
  /\ to # NoOne
  /\ balanceOf[caller] >= amount
  /\ balanceOf' = Moved(caller, to, amount)
  /\ UNCHANGED <<totalSupply, allowance, isMinter, lockedMinter>>

Approve(caller, spender, amount) ==
  /\ allowance' = [allowance EXCEPT ![caller][spender] = amount]
  /\ UNCHANGED <<totalSupply, balanceOf, isMinter, lockedMinter>>

\* Mutant of SpendAllowance: the allowance is reduced without being compared.
SpendAllowanceUnchecked(from, spender, amount) ==
  allowance' = IF allowance[from][spender] = MaxUint
               THEN allowance
               ELSE [allowance EXCEPT ![from][spender] = @ - amount]

\* The shared head of transferFrom and burnFrom: an unlimited allowance stays.
SpendAllowance(from, spender, amount) ==
  /\ allowance[from][spender] >= amount
  /\ allowance' =
       IF allowance[from][spender] = MaxUint
       THEN allowance
       ELSE [allowance EXCEPT ![from][spender] = @ - amount]

TransferFrom(caller, from, to, amount) ==
  /\ SpendAllowance(from, caller, amount)
  /\ to # NoOne
  /\ balanceOf[from] >= amount
  /\ balanceOf' = Moved(from, to, amount)
  /\ UNCHANGED <<totalSupply, isMinter, lockedMinter>>

\* Mutant of BurnFrom: _burn forgets the supply.
BurnFromKeepsSupply(caller, from, amount) ==
  /\ SpendAllowance(from, caller, amount)
  /\ balanceOf[from] >= amount
  /\ balanceOf' = [balanceOf EXCEPT ![from] = @ - amount]
  /\ UNCHANGED <<totalSupply, isMinter, lockedMinter>>

BurnFrom(caller, from, amount) ==
  /\ SpendAllowance(from, caller, amount)
  /\ balanceOf[from] >= amount
  /\ balanceOf' = [balanceOf EXCEPT ![from] = @ - amount]
  /\ totalSupply' = totalSupply - amount
  /\ UNCHANGED <<isMinter, lockedMinter>>

=============================================================================
