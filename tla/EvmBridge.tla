----------------------------- MODULE EvmBridge -----------------------------
(***************************************************************************)
(* The five contracts on one chain, from the state deploy.js --configure   *)
(* leaves: anyone calls what is open to anyone, the oracle calls back in   *)
(* any order, and each contract's owner does whatever its role allows.     *)
(* Every action is one transaction of one sender.                          *)
(***************************************************************************)
EXTENDS MintGateway, BurnGateway

CONSTANTS Deployer,          \* the owner the constructors are given
          InitialMintLimit,  \* <<limit, window>> at deployment
          InitialRedeemLimit,
          TransferAmounts,   \* what holders move or foreign minters issue
          Allowances,        \* what holders approve
          Candidates,        \* addresses the owners give roles to or lock
          Requesters,        \* users the verifier's owner authorizes or drops
          Confirmations,     \* values for setMinimumConfirmations
          PauseValues,       \* values for the pause switches
          Resolutions,       \* values for setRedeemState
          Governed,          \* contracts whose ownership is moved
          MaxIssued          \* bound: what is ever minted outside the gateway

ASSUME BridgeAssumption ==
  /\ Deployer \in Users
  /\ InitialMintLimit \in Nat \X Nat
  /\ InitialRedeemLimit \in Nat \X Nat
  /\ ValidLimit(InitialMintLimit[1], InitialMintLimit[2])
  /\ ValidLimit(InitialRedeemLimit[1], InitialRedeemLimit[2])
  /\ FunctionsConfigs # {}
  /\ TransferAmounts \subseteq Nat
  /\ Allowances \subseteq 0 .. MaxUint
  /\ Candidates \subseteq Addresses
  /\ Requesters \subseteq Users
  /\ Confirmations \subseteq Nat
  /\ PauseValues \subseteq BOOLEAN
  /\ Resolutions \subseteq RedeemStates
  /\ Governed \subseteq Contracts
  /\ MaxIssued \in Nat

VARIABLES issuedElsewhere,   \* history: minted by minters other than the gateway
          destroyedElsewhere \* history: burned by spenders other than the gateway

historyVars == <<issuedElsewhere, destroyedElsewhere>>
vars == <<now, owner, pendingOwner, tokenVars, registryVars, verifierVars,
          mintVars, burnVars, historyVars>>

EvmTypeOK ==
  /\ now \in 0 .. MaxTime
  /\ OwnableTypeOK /\ TokenTypeOK /\ RegistryTypeOK
  /\ VerifierTypeOK /\ MintTypeOK /\ BurnTypeOK
  /\ issuedElsewhere \in Nat /\ destroyedElsewhere \in Nat

Init ==
  /\ now = 0
  /\ owner = [c \in Contracts |-> Deployer]
  /\ pendingOwner = [c \in Contracts |-> NoOne]
  /\ totalSupply = 0
  /\ balanceOf = [u \in Users |-> 0]
  /\ allowance = [u \in Users |-> [s \in Spenders |-> 0]]
  /\ isMinter = {"MintGateway"} /\ lockedMinter = NoOne
  /\ depositExists = {} /\ depositConsumed = {} /\ utxoConsumed = {}
  /\ authorizedConsumers = {"MintGateway"} /\ lockedConsumer = NoOne
  /\ pendingRequests = << >> /\ approvedAuthorization = {}
  /\ authorizedRequester = {}
  /\ functionsConfig \in FunctionsConfigs
  /\ mintPaused = FALSE /\ minimumConfirmations = 1
  /\ mintLimit = NewLimit(InitialMintLimit[1], InitialMintLimit[2], 0)
  /\ minted = {}
  /\ burnPaused = FALSE
  /\ redeemLimit = NewLimit(InitialRedeemLimit[1], InitialRedeemLimit[2], 0)
  /\ nextRedeemNonce = [u \in Users |-> 0]
  /\ redeemState = [r \in {} |-> "BURNED"]
  /\ burnedAt = [r \in {} |-> 0]
  /\ redeemIdConsumed = {}
  /\ issuedElsewhere = 0 /\ destroyedElsewhere = 0

-----------------------------------------------------------------------------
(* The steps that touch the token alone.                                    *)

OnlyToken == UNCHANGED <<now, owner, pendingOwner, registryVars, verifierVars,
                         mintVars, burnVars>>

Hold ==
  /\ \E caller, other \in Users, amount \in TransferAmounts :
       \/ Transfer(caller, other, amount)
       \/ \E from \in Users : /\ caller \in Spenders
                              /\ TransferFrom(caller, from, other, amount)
  /\ OnlyToken /\ UNCHANGED historyVars

Allow ==
  /\ \E caller \in Users, spender \in Spenders, amount \in Allowances :
       Approve(caller, spender, amount)
  /\ OnlyToken /\ UNCHANGED historyVars

\* A user the owner made a minter mints outside the gateway.
IssueElsewhere ==
  \E caller \in Users \cap Candidates, to \in Users, amount \in TransferAmounts :
    /\ issuedElsewhere + amount <= MaxIssued
    /\ Mint(caller, to, amount)
    /\ issuedElsewhere' = issuedElsewhere + amount
    /\ OnlyToken /\ UNCHANGED destroyedElsewhere

\* An approved user burns outside the gateway.
DestroyElsewhere ==
  \E caller \in Users \cap Spenders, from \in Users, amount \in TransferAmounts :
    /\ BurnFrom(caller, from, amount)
    /\ destroyedElsewhere' = destroyedElsewhere + amount
    /\ OnlyToken /\ UNCHANGED issuedElsewhere

-----------------------------------------------------------------------------
(* The deposit registry and the verifier, called directly.                  *)

OnlyRegistry == UNCHANGED <<now, owner, pendingOwner, tokenVars, verifierVars,
                            mintVars, burnVars, historyVars>>

Deposit ==
  /\ \E intent \in Intents : CreateDepositIntent(intent)
  /\ OnlyRegistry

\* A user the owner made a consumer uses up a deposit without minting.
ConsumeElsewhere ==
  /\ \E caller \in Users \cap Candidates, intent \in Intents, utxo \in Utxos :
       ConsumeDeposit(caller, intent, utxo)
  /\ OnlyRegistry

OnlyVerifier == UNCHANGED <<now, owner, pendingOwner, tokenVars, registryVars,
                            mintVars, burnVars, historyVars>>

Ask ==
  /\ \E caller \in Users :
       \/ \E auth \in MintAuths : RequestAuthorization(caller, "MINT", auth)
       \/ \E auth \in ReleaseAuths : RequestAuthorization(caller, "RELEASE", auth)
  /\ OnlyVerifier

Fulfil ==
  /\ \E id \in 1 .. MaxRequests, response \in DonApproves \cup {NoAnswer} :
       HandleOracleFulfillment(id, response)
  /\ OnlyVerifier

-----------------------------------------------------------------------------
(* The gateways.                                                            *)

MintFlow ==
  /\ \E intent \in Intents, auth \in MintAuths, id \in 1 .. MaxRequests :
       MintWithAuthorization(intent, auth, id)
  /\ UNCHANGED <<now, owner, pendingOwner, verifierVars, burnVars, historyVars>>

BurnFlow ==
  /\ \E caller \in Users, in \in BurnInputs : Burn(caller, in)
  /\ UNCHANGED <<now, owner, pendingOwner, registryVars, verifierVars, mintVars,
                 historyVars>>

OnlyBurnGateway == UNCHANGED <<now, owner, pendingOwner, tokenVars, registryVars,
                               verifierVars, mintVars, historyVars>>

Complete ==
  /\ \E auth \in ReleaseAuths, id \in 1 .. MaxRequests :
       CompleteRedeemWithAuthorization(auth, id)
  /\ OnlyBurnGateway

Resolve ==
  /\ \E caller \in Users, request \in DOMAIN redeemState, state \in Resolutions :
       SetRedeemState(caller, request, state)
  /\ OnlyBurnGateway

-----------------------------------------------------------------------------
(* The owners' configuration.                                               *)

ConfigureToken ==
  /\ \E caller \in Users, minter \in Candidates :
       \/ \E allowed \in BOOLEAN : SetMinter(caller, minter, allowed)
       \/ LockMinter(caller, minter)
  /\ OnlyToken /\ UNCHANGED historyVars

ConfigureRegistry ==
  /\ \E caller \in Users, consumer \in Candidates :
       \/ \E allowed \in BOOLEAN : SetAuthorizedConsumer(caller, consumer, allowed)
       \/ LockAuthorizedConsumer(caller, consumer)
  /\ OnlyRegistry

ConfigureVerifier ==
  /\ \E caller \in Users :
       \/ \E config \in FunctionsConfigs : SetFunctionsConfig(caller, config)
       \/ \E requester \in Requesters, allowed \in BOOLEAN :
            SetAuthorizedRequester(caller, requester, allowed)
  /\ OnlyVerifier

ConfigureMintGateway ==
  /\ \E caller \in Users :
       \/ \E paused \in PauseValues : SetMintPaused(caller, paused)
       \/ \E n \in Confirmations : SetMinimumConfirmations(caller, n)
       \/ \E l \in MintLimits : SetMintLimit(caller, l[1], l[2])
  /\ UNCHANGED <<now, owner, pendingOwner, tokenVars, registryVars, verifierVars,
                 burnVars, historyVars>>

ConfigureBurnGateway ==
  /\ \E caller \in Users :
       \/ \E paused \in PauseValues : SetBurnPaused(caller, paused)
       \/ \E l \in RedeemLimits : SetRedeemLimit(caller, l[1], l[2])
  /\ OnlyBurnGateway

Govern ==
  /\ \E c \in Governed, caller \in Users :
       \/ \E newOwner \in Users : TransferOwnership(c, caller, newOwner)
       \/ CancelOwnershipTransfer(c, caller)
       \/ RenounceOwnership(c, caller)
       \/ AcceptOwnership(c, caller)
  /\ UNCHANGED <<now, tokenVars, registryVars, verifierVars, mintVars, burnVars,
                 historyVars>>

NextBlock ==
  /\ Tick
  /\ UNCHANGED <<owner, pendingOwner, tokenVars, registryVars, verifierVars,
                 mintVars, burnVars, historyVars>>

Next ==
  \/ Hold \/ Allow \/ IssueElsewhere \/ DestroyElsewhere
  \/ Deposit \/ ConsumeElsewhere \/ Ask \/ Fulfil
  \/ MintFlow \/ BurnFlow \/ Complete \/ Resolve
  \/ ConfigureToken \/ ConfigureRegistry \/ ConfigureVerifier
  \/ ConfigureMintGateway \/ ConfigureBurnGateway \/ Govern
  \/ NextBlock

Spec == Init /\ [][Next]_vars
=============================================================================
