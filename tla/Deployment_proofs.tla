-------------------------- MODULE Deployment_proofs --------------------------
(***************************************************************************)
(* Proofs about the deployment, for every set of users, options, plans and *)
(* bounds: a report of the lockdown is true and stays true.  What one step *)
(* may not take back is proved once (GivenAwayStays), for the contracts'   *)
(* steps and the scripts' alike.                                           *)
(***************************************************************************)
EXTENDS Deployment, EvmBridge_proofs

\* What a call of the lockdown leaves behind.
Left(call) ==
  CASE call = "lockMinter" -> lockedMinter = "MintGateway" /\ "MintGateway" \in isMinter
    [] call = "lockAuthorizedConsumer" ->
         lockedConsumer = "MintGateway" /\ "MintGateway" \in authorizedConsumers
    [] OTHER -> owner[call] = NoOne

LockdownCalls == {"lockMinter", "lockAuthorizedConsumer"} \cup Contracts

\* Each call of the lockdown is still to be sent, or has left its mark.
ScriptInv ==
  options.risk /\ deployed \in {"running", "done"} =>
    \A call \in LockdownCalls :
      (\E i \in DOMAIN deploying : deploying[i] = call) \/ Left(call)

\* The same for the guard's questions; minters and consumers no longer change
\* once the lock was seen, requesters once the verifier was seen without owner.
GuardInv ==
  /\ guard \in 0 .. 10
  /\ guard >= 1 => lockedMinter = "MintGateway"
  /\ guard >= 2 => "MintGateway" \in isMinter
  /\ guard >= 3 => lockedConsumer = "MintGateway"
  /\ guard >= 4 => "MintGateway" \in authorizedConsumers
  /\ guard >= 5 => owner["WrappedBitcoin"] = NoOne
  /\ guard >= 6 => owner["DepositRegistry"] = NoOne
  /\ guard >= 7 => owner["MintGateway"] = NoOne
  /\ guard >= 8 => owner["BurnGateway"] = NoOne
  /\ guard >= 9 => owner["Verifier"] = NoOne
  /\ guard >= 10 => /\ options.mode = "chainlink-functions"
                    /\ Relayer \in authorizedRequester

DeploymentInv ==
  /\ OwnerInv
  /\ options \in DeployOptions
  /\ deploying \in Seq(Calls)
  /\ deployed \in {"running", "done", "failed", "byHand"}
  /\ deployed = "done" => deploying = << >>
  /\ ScriptInv
  /\ GuardInv

-----------------------------------------------------------------------------
(* What no step takes back.                                                 *)

\* The signer of the scripts is a user, and so not nobody.
LEMMA SignerIsUser ==
  ASSUME options \in DeployOptions
  PROVE  Signer(options) \in Users /\ Signer(options) # NoOne
  BY DeploymentAssumption, AddressAssumption DEF Signer, Addresses

GivenAway ==
  /\ lockedMinter # NoOne => lockedMinter' = lockedMinter /\ isMinter' = isMinter
  /\ lockedConsumer # NoOne => /\ lockedConsumer' = lockedConsumer
                               /\ authorizedConsumers' = authorizedConsumers
  /\ owner["Verifier"] = NoOne => authorizedRequester' = authorizedRequester
  /\ \A c \in Contracts : owner[c] = NoOne => owner'[c] = NoOne

\* A step of the contracts.
LEMMA ContractsKeep == OwnerInv /\ [Next]_vars => OwnerInv' /\ GivenAway
<1> SUFFICES ASSUME OwnerInv, [Next]_vars PROVE OwnerInv' /\ GivenAway
  OBVIOUS
<1>1. lockedMinter # NoOne => isMinter' = isMinter
  BY TokenFrame DEF Hold, Transfer, TransferFrom, Allow, Approve, IssueElsewhere,
     Mint, DestroyElsewhere, BurnFrom, MintFlow, MintWithAuthorization, BurnFlow,
     Burn, ConfigureToken, SetMinter, LockMinter, tokenVars
<1>2. lockedConsumer # NoOne => authorizedConsumers' = authorizedConsumers
  BY RegistryFrame DEF Deposit, CreateDepositIntent, ConsumeElsewhere,
     ConsumeDeposit, MintFlow, MintWithAuthorization, ConfigureRegistry,
     SetAuthorizedConsumer, LockAuthorizedConsumer, registryVars
<1>3. owner["Verifier"] = NoOne => authorizedRequester' = authorizedRequester
  <2>1. NoOne \notin Users
    BY AddressAssumption DEF Addresses
  <2> QED BY <2>1, VerifierFrame DEF Ask, RequestAuthorization, Fulfil,
       HandleOracleFulfillment, ConfigureVerifier, SetFunctionsConfig,
       SetAuthorizedRequester, OnlyOwner, verifierVars
<1> QED BY <1>1, <1>2, <1>3, LocksStay, OwnerStep DEF GivenAway

\* A transaction of deploy.js or of the owner who does the same by hand.
LEMMA CallKeeps ==
  ASSUME OwnerInv, NEW call \in Calls, NEW caller \in Users, DeployCall(call, caller)
  PROVE  /\ OwnerInv' /\ GivenAway
         /\ call \in LockdownCalls => Left(call)'
<1>1. NoOne \notin Users /\ "MintGateway" # NoOne
  BY AddressAssumption DEF Addresses, Contracts
<1>2. CASE /\ \/ call = "setMinter" /\ SetMinter(caller, "MintGateway", TRUE)
              \/ call = "lockMinter" /\ LockMinter(caller, "MintGateway")
           /\ OnlyToken
  BY <1>1, <1>2 DEF SetMinter, LockMinter, OnlyToken, registryVars, verifierVars,
     GivenAway, OwnerInv, OwnableTypeOK, LockdownCalls, Left, Contracts
<1>3. CASE /\ \/ /\ call = "setAuthorizedConsumer"
                 /\ SetAuthorizedConsumer(caller, "MintGateway", TRUE)
              \/ /\ call = "lockAuthorizedConsumer"
                 /\ LockAuthorizedConsumer(caller, "MintGateway")
           /\ OnlyRegistry
  BY <1>1, <1>3 DEF SetAuthorizedConsumer, LockAuthorizedConsumer, OnlyRegistry,
     tokenVars, verifierVars, GivenAway, OwnerInv, OwnableTypeOK, LockdownCalls,
     Left, Contracts
<1>4. CASE call \in Contracts /\ RenounceOwnership(call, caller) /\ OnlyOwnership
  <2>1. OwnerInv' /\ \A c \in Contracts : owner[c] = NoOne => owner'[c] = NoOne
    BY <1>1, <1>4 DEF RenounceOwnership, OnlyOwner, OwnerInv, OwnableTypeOK
  <2>2. GivenAway
    BY <2>1, <1>4 DEF OnlyOwnership, tokenVars, registryVars, verifierVars, GivenAway
  <2>3. owner'[call] = NoOne
    BY <1>4 DEF RenounceOwnership, OwnerInv, OwnableTypeOK
  <2>4. Left(call)'
    BY <2>3, <1>4 DEF Left, Contracts
  <2> QED BY <2>1, <2>2, <2>4
<1> QED BY <1>2, <1>3, <1>4 DEF DeployCall

\* A transaction of configure-chainlink-functions.js.
LEMMA ConfigureKeeps ==
  ASSUME OwnerInv, options \in DeployOptions, ConfigureSends
  PROVE  OwnerInv' /\ GivenAway
<1>1. Signer(options) # NoOne
  BY SignerIsUser
<1>2. owner["Verifier"] = NoOne => FALSE
  BY <1>1 DEF ConfigureSends, SetFunctionsConfig, SetAuthorizedRequester, OnlyOwner
<1>3. UNCHANGED <<owner, pendingOwner, tokenVars, registryVars>>
  BY DEF ConfigureSends, OnlyVerifier
<1> QED BY <1>2, <1>3 DEF GivenAway, OwnerInv, OwnableTypeOK, tokenVars, registryVars

\* Whoever steps.
LEMMA GivenAwayStays ==
  DeploymentInv /\ [DeploymentNext]_deploymentVars => OwnerInv' /\ GivenAway
<1> SUFFICES ASSUME DeploymentInv, [DeploymentNext]_deploymentVars
             PROVE  OwnerInv' /\ GivenAway
  OBVIOUS
<1>1. OwnerInv /\ options \in DeployOptions /\ deploying \in Seq(Calls)
  BY DEF DeploymentInv
<1>2. CASE Chain \/ UNCHANGED vars
  BY <1>1, <1>2, ContractsKeep DEF Chain
<1>3. CASE DeploySends
  <2>1. Head(deploying) \in Calls /\ DeployCall(Head(deploying), Signer(options))
    BY <1>1, <1>3 DEF DeploySends
  <2> QED BY <1>1, <2>1, CallKeeps, SignerIsUser
<1>4. CASE ConfigureSends
  BY <1>1, <1>4, ConfigureKeeps
<1>5. CASE \/ DeployEnds \/ DeployFails \/ OwnerBegins \/ ConfigureBegins
           \/ ConfigureFails \/ GuardAsks
  <2>1. UNCHANGED vars
    BY <1>5 DEF DeployEnds, DeployFails, OwnerBegins, ConfigureBegins,
       ConfigureFails, GuardAsks
  <2> QED BY <2>1, <1>1, ContractsKeep
<1> QED BY <1>2, <1>3, <1>4, <1>5 DEF DeploymentNext, deploymentVars

-----------------------------------------------------------------------------
(* The scripts' progress and the guard's.                                   *)

\* deploy.js starts with every call of the lockdown before it.
LEMMA CallsOfOptions ==
  ASSUME NEW o \in DeployOptions, ValidOptions(o)
  PROVE  /\ DeployCalls(o) \in Seq(Calls)
         /\ o.risk => \A call \in LockdownCalls :
                        \E i \in DOMAIN DeployCalls(o) : DeployCalls(o)[i] = call
<1> DEFINE wired == <<"setMinter", "setAuthorizedConsumer">>
           locked == <<"lockMinter", "lockAuthorizedConsumer", "WrappedBitcoin",
                       "Verifier", "DepositRegistry", "MintGateway", "BurnGateway">>
<1>1. wired \in Seq(Calls) /\ locked \in Seq(Calls) /\ << >> \in Seq(Calls)
  BY DEF Calls, Contracts
<1>2. DeployCalls(o) \in Seq(Calls)
  BY <1>1 DEF DeployCalls
<1>3. CASE o.risk
  <2>1. DeployCalls(o) = wired \o locked
    BY <1>3 DEF DeployCalls, ValidOptions
  <2>2. /\ Len(wired) = 2 /\ Len(locked) = 7
        /\ \A i \in 1 .. 7 : i + 2 \in DOMAIN (wired \o locked)
                             /\ (wired \o locked)[i + 2] = locked[i]
    BY <1>1
  <2>3. \A call \in LockdownCalls : \E i \in 1 .. 7 : locked[i] = call
    <3>1. /\ locked[1] = "lockMinter" /\ locked[2] = "lockAuthorizedConsumer"
          /\ locked[3] = "WrappedBitcoin" /\ locked[4] = "Verifier"
          /\ locked[5] = "DepositRegistry" /\ locked[6] = "MintGateway"
          /\ locked[7] = "BurnGateway"
      OBVIOUS
    <3> HIDE DEF locked
    <3> QED BY <3>1 DEF LockdownCalls, Contracts
  <2>4. ASSUME NEW call \in LockdownCalls
        PROVE  \E i \in DOMAIN DeployCalls(o) : DeployCalls(o)[i] = call
    <3>1. PICK i \in 1 .. 7 : locked[i] = call
      BY <2>3
    <3>2. i + 2 \in DOMAIN DeployCalls(o) /\ DeployCalls(o)[i + 2] = call
      BY <2>1, <2>2, <3>1
    <3> HIDE DEF locked, wired
    <3> QED BY <3>2
  <2> QED BY <1>2, <2>4
<1> QED BY <1>2, <1>3

\* A mark that was left stays.
LEMMA LeftStays ==
  ASSUME GivenAway, NEW call \in LockdownCalls, Left(call)
  PROVE  Left(call)'
<1>1. "MintGateway" # NoOne
  BY AddressAssumption DEF Addresses, Contracts
<1> QED BY <1>1 DEF GivenAway, Left, LockdownCalls, Contracts

\* The scripts' variables keep their types, and the marks their calls.
LEMMA ScriptStep ==
  DeploymentInv /\ [DeploymentNext]_deploymentVars =>
    /\ options' = options /\ deploying' \in Seq(Calls)
    /\ deployed' \in {"running", "done", "failed", "byHand"}
    /\ deployed' = "done" => deploying' = << >>
    /\ ScriptInv'
<1> SUFFICES ASSUME DeploymentInv, [DeploymentNext]_deploymentVars
             PROVE  /\ options' = options /\ deploying' \in Seq(Calls)
                    /\ deployed' \in {"running", "done", "failed", "byHand"}
                    /\ deployed' = "done" => deploying' = << >>
                    /\ ScriptInv'
  OBVIOUS
<1>1. /\ options \in DeployOptions /\ deploying \in Seq(Calls) /\ ScriptInv
      /\ deployed \in {"running", "done", "failed", "byHand"}
      /\ deployed = "done" => deploying = << >>
      /\ OwnerInv
  BY DEF DeploymentInv
<1>2. \A call \in LockdownCalls : Left(call) => Left(call)'
  BY GivenAwayStays, LeftStays
<1>3. CASE DeploySends
  <2>1. /\ options' = options /\ deployed' = deployed
        /\ deploying # << >> /\ deploying' = Tail(deploying)
        /\ deployed # "done"
    BY <1>1, <1>3 DEF DeploySends
  <2>2. deploying' \in Seq(Calls)
    BY <1>1, <2>1
  <2>3. ASSUME NEW call \in LockdownCalls, Head(deploying) = call
        PROVE  Left(call)'
    <3>1. call \in Calls /\ DeployCall(call, Signer(options))
      BY <1>1, <1>3, <2>3 DEF DeploySends
    <3> QED BY <1>1, <3>1, CallKeeps, SignerIsUser
  <2>4. ScriptInv'
    <3> SUFFICES ASSUME (options.risk /\ deployed \in {"running", "done"})',
                        NEW call \in LockdownCalls
                 PROVE  (\E i \in DOMAIN deploying' : deploying'[i] = call) \/ Left(call)'
      BY DEF ScriptInv
    <3>1. CASE Left(call)
      BY <1>2, <3>1
    <3>2. CASE ~ Left(call)
      <4>1. PICK i \in DOMAIN deploying : deploying[i] = call
        BY <1>1, <2>1, <3>2 DEF ScriptInv
      <4>2. CASE i = 1
        <5>1. Head(deploying) = call
          BY <1>1, <2>1, <4>1, <4>2
        <5> QED BY <5>1, <2>3
      <4>3. CASE i # 1
        <5>1. i - 1 \in DOMAIN Tail(deploying) /\ Tail(deploying)[i - 1] = call
          BY <1>1, <2>1, <4>1, <4>3
        <5> QED BY <5>1, <2>1
      <4> QED BY <4>2, <4>3
    <3> QED BY <3>1, <3>2
  <2> QED BY <1>1, <2>1, <2>2, <2>4
<1>4. CASE DeployEnds
  BY <1>1, <1>2, <1>4 DEF DeployEnds, ScriptInv
<1>5. CASE DeployFails
  BY <1>1, <1>5 DEF DeployFails, ScriptInv
<1>6. CASE OwnerBegins
  <2>1. /\ ~ options.risk /\ options' = options /\ deployed' = "byHand"
        /\ deploying' \in HandPlans
    BY <1>6 DEF OwnerBegins
  <2>2. deploying' \in Seq(Calls)
    BY <2>1, DeploymentAssumption
  <2> QED BY <2>1, <2>2 DEF ScriptInv
<1>7. CASE UNCHANGED <<options, deploying, deployed>>
  BY <1>1, <1>2, <1>7 DEF ScriptInv
<1> QED BY <1>3, <1>4, <1>5, <1>6, <1>7 DEF DeploymentNext, deploymentVars, scriptVars, Chain,
     ConfigureBegins, ConfigureSends, ConfigureFails, GuardAsks

\* What the guard has seen stays as it saw it.
LEMMA GuardStep ==
  DeploymentInv /\ [DeploymentNext]_deploymentVars => GuardInv'
<1> SUFFICES ASSUME DeploymentInv, [DeploymentNext]_deploymentVars PROVE GuardInv'
  OBVIOUS
<1>1. GuardInv /\ GivenAway /\ options' = options /\ "MintGateway" # NoOne
  BY GivenAwayStays, ScriptStep, AddressAssumption DEF DeploymentInv, Addresses, Contracts
<1>2. CASE guard' = guard \/ guard' = 0
  BY <1>1, <1>2 DEF GuardInv, GivenAway, Contracts
<1>3. CASE GuardAsks /\ guard' # 0
  <2>1. /\ guard < Len(GuardReads) /\ Shows(GuardReads[guard + 1])
        /\ guard' = guard + 1 /\ UNCHANGED <<vars, options>>
    BY <1>3 DEF GuardAsks
  <2>2. UNCHANGED <<lockedMinter, isMinter, lockedConsumer, authorizedConsumers,
                    owner, authorizedRequester>>
    BY <2>1 DEF vars, tokenVars, registryVars, verifierVars
  <2>3. guard \in 0 .. 9
    BY <1>1, <2>1 DEF GuardInv, GuardReads
  <2> QED BY <1>1, <2>1, <2>2, <2>3 DEF GuardInv, GuardReads, Shows
<1> QED BY <1>2, <1>3 DEF DeploymentNext, deploymentVars, scriptVars, Chain,
     DeploySends, DeployEnds, DeployFails, OwnerBegins,
     ConfigureBegins, ConfigureSends, ConfigureFails, GuardAsks

\* The scripts start with new contracts.
LEMMA DeploymentStarts == DeploymentInit => DeploymentInv
<1> SUFFICES ASSUME DeploymentInit PROVE DeploymentInv
  OBVIOUS
<1>1. /\ options \in DeployOptions /\ ValidOptions(options)
      /\ deploying = DeployCalls(options) /\ deployed = "running" /\ guard = 0
      /\ OwnerInv
  BY BridgeAssumption DEF DeploymentInit, OwnerInv, OwnableTypeOK
<1>2. deploying \in Seq(Calls) /\ ScriptInv
  BY <1>1, CallsOfOptions DEF ScriptInv
<1>3. GuardInv
  BY <1>1 DEF GuardInv
<1> QED BY <1>1, <1>2, <1>3 DEF DeploymentInv

\* The invariant holds throughout.
LEMMA DeploymentInvariant == DeploymentSpec => []DeploymentInv
<1>1. DeploymentInv /\ [DeploymentNext]_deploymentVars => DeploymentInv'
  BY GivenAwayStays, ScriptStep, GuardStep DEF DeploymentInv
<1> QED BY <1>1, DeploymentStarts, PTL DEF DeploymentSpec

\* A lockdown that deploy.js reports at its end, or that the guard has read so
\* far, one answer at a time, is in force and stays so.
THEOREM LockdownIsReported == DeploymentSpec => []LockdownReported
<1>1. DeploymentInv => LockdownReported
  <2> SUFFICES ASSUME DeploymentInv PROVE LockdownReported
    OBVIOUS
  <2>1. GuardInv /\ ScriptInv /\ (deployed = "done" => deploying = << >>)
    BY DEF DeploymentInv
  <2>2. ASSUME NEW i \in 1 .. guard PROVE Shows(GuardReads[i])
    BY <2>1, <2>2 DEF GuardInv, GuardReads, Shows
  <2>3. ASSUME deployed = "done", options.risk, NEW i \in 1 .. 9
        PROVE  Shows(GuardReads[i])
    <3>1. \A call \in LockdownCalls : Left(call)
      BY <2>1, <2>3 DEF ScriptInv
    <3>2. /\ Left("lockMinter") /\ Left("lockAuthorizedConsumer")
          /\ \A c \in Contracts : Left(c)
      BY <3>1 DEF LockdownCalls
    <3>3. /\ lockedMinter = "MintGateway" /\ "MintGateway" \in isMinter
          /\ lockedConsumer = "MintGateway" /\ "MintGateway" \in authorizedConsumers
          /\ \A c \in Contracts : owner[c] = NoOne
      BY <3>2 DEF Left, Contracts
    <3> QED BY <3>3, <2>3 DEF GuardReads, Shows, Contracts
  <2>4. Len(GuardReads) - 1 = 9
    BY DEF GuardReads
  <2> QED BY <2>2, <2>3, <2>4 DEF LockdownReported
<1> QED BY <1>1, DeploymentInvariant, PTL

\* In a deployment, too, nothing that was given away comes back.
THEOREM DeployedRolesAreFinal == DeploymentSpec => RolesFinal
<1> DEFINE Step ==
      /\ lockedMinter # NoOne => lockedMinter' = lockedMinter
      /\ lockedConsumer # NoOne => lockedConsumer' = lockedConsumer
      /\ \A c \in Contracts : owner[c] = NoOne => owner'[c] = NoOne
<1>1. DeploymentInv /\ [DeploymentNext]_deploymentVars => [Step]_vars
  BY GivenAwayStays DEF GivenAway
<1> QED BY <1>1, DeploymentInvariant, PTL DEF DeploymentSpec, RolesFinal
=============================================================================
