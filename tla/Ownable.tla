------------------------------ MODULE Ownable ------------------------------
(***************************************************************************)
(* Two-step ownership (contracts/utils/Ownable.sol), inherited by each of  *)
(* the five deployed contracts.  An address is a user's or a contract's;   *)
(* NoOne is address(0), which is nobody's and can call nothing.            *)
(***************************************************************************)
EXTENDS FiniteSets

CONSTANTS Users,           \* externally owned accounts
          NoOne            \* address(0)

Contracts == {"WrappedBitcoin", "DepositRegistry", "Verifier",
              "MintGateway", "BurnGateway"}
Addresses == Users \cup Contracts

\* Addresses have 20 bytes: there are finitely many.
ASSUME AddressAssumption ==
  NoOne \notin Addresses /\ Users \cap Contracts = {} /\ IsFiniteSet(Users)

VARIABLES owner,           \* [Contracts -> address], NoOne once renounced
          pendingOwner     \* [Contracts -> address], NoOne when none

ownableVars == <<owner, pendingOwner>>

OwnableTypeOK ==
  /\ owner \in [Contracts -> Users \cup {NoOne}]
  /\ pendingOwner \in [Contracts -> Users \cup {NoOne}]

\* The onlyOwner modifier.
OnlyOwner(c, caller) == caller = owner[c]

TransferOwnership(c, caller, newOwner) ==
  /\ OnlyOwner(c, caller)
  /\ newOwner # NoOne
  /\ pendingOwner' = [pendingOwner EXCEPT ![c] = newOwner]
  /\ UNCHANGED owner

CancelOwnershipTransfer(c, caller) ==
  /\ OnlyOwner(c, caller)
  /\ pendingOwner' = [pendingOwner EXCEPT ![c] = NoOne]
  /\ UNCHANGED owner

\* Mutant of RenounceOwnership: a pending transfer survives the renouncement.
RenounceKeepsPending(c, caller) ==
  /\ OnlyOwner(c, caller)
  /\ owner' = [owner EXCEPT ![c] = NoOne]
  /\ UNCHANGED pendingOwner

RenounceOwnership(c, caller) ==
  /\ OnlyOwner(c, caller)
  /\ owner' = [owner EXCEPT ![c] = NoOne]
  /\ pendingOwner' = [pendingOwner EXCEPT ![c] = NoOne]

AcceptOwnership(c, caller) ==
  /\ caller = pendingOwner[c]
  /\ owner' = [owner EXCEPT ![c] = caller]
  /\ pendingOwner' = [pendingOwner EXCEPT ![c] = NoOne]

=============================================================================
