----------------------------- MODULE Deployment -----------------------------
(***************************************************************************)
(* How the contracts are put into service: deploy.js from its options to   *)
(* the last renouncement, configure-chainlink-functions.js, the owner who  *)
(* does the same by hand, and the guard with which the API and the worker  *)
(* start in chainlink-don custody (public-testnet-runtime-guard.js).  The  *)
(* scripts wait for each transaction before they send the next, the guard  *)
(* for each answer before it asks again; anyone acts in between, and a     *)
(* script ends wherever a transaction reverts, the node is lost or the     *)
(* process dies.  It never resumes: run again, it deploys new contracts.   *)
(* With the ECDSA verifier nothing is minted here: see ReleaseSigning.     *)
(***************************************************************************)
EXTENDS EvmProperties

CONSTANTS DeployOptions,   \* what deploy.js may be started with
          FunctionsPlans,  \* what configure-chainlink-functions.js may be
          HandPlans,       \* the calls an owner may set out to make by hand
          Relayer          \* the account of the API and the worker

\* What deploy.js sends once the contracts are there: a renouncement is named by
\* its contract.
Calls == {"setMinter", "setAuthorizedConsumer", "lockMinter",
          "lockAuthorizedConsumer"} \cup Contracts

ASSUME DeploymentAssumption ==
  /\ Relayer \in Users
  /\ \A o \in DeployOptions : /\ o.deployer \in Users
                              /\ o.ownerKey \in Users \cup {NoOne}
                              /\ o.requesters \subseteq Users
  /\ \A plan \in FunctionsPlans :
       /\ plan.config \in FunctionsConfigs
       /\ plan.authorize \in Seq(Users) /\ plan.revoke \in Seq(Users)
  /\ HandPlans \subseteq Seq(Calls)

VARIABLES options,         \* what deploy.js was started with
          deploying,       \* the transactions it, or the owner, has still to send
          deployed,        \* "running", "done", "failed" or "byHand"
          configuring,     \* the transactions of the other script
          guard            \* how many of GuardReads the guard has made

scriptVars == <<options, deploying, deployed, configuring, guard>>
deploymentVars == <<vars, scriptVars>>

-----------------------------------------------------------------------------
(* deploy.js.                                                               *)

StrictMajority(o) == o.threshold * 2 > o.signers

\* A limit and its window are both zero or both not.
ValidLimitOption(l) == l[1] = 0 <=> l[2] = 0

\* The account --configure signs with: --owner-private-key's, or the deployer's.
Signer(o) == IF o.ownerKey = NoOne THEN o.deployer ELSE o.ownerKey

\* What main checks before it deploys anything.  On mainnet the owner is a
\* contract, whose address no key signs for.
ValidOptions(o) ==
  /\ ValidLimitOption(o.mintLimit) /\ ValidLimitOption(o.redeemLimit)
  /\ o.mode = "ecdsa" => o.threshold \in 1 .. o.signers
  /\ o.mainnet => /\ o.mode = "ecdsa" => StrictMajority(o)
                  /\ o.mintLimit[1] # 0 /\ o.redeemLimit[1] # 0
                  /\ Deployer \notin {o.deployer, o.ownerKey}
  /\ o.risk => /\ o.mode = "ecdsa" /\ o.configure
               /\ o.signers >= 3 /\ StrictMajority(o)
               /\ o.controller = "chainlink-don"

DeployCalls(o) ==
  (IF o.configure THEN <<"setMinter", "setAuthorizedConsumer">> ELSE << >>)
  \o
  (IF o.risk THEN <<"lockMinter", "lockAuthorizedConsumer", "WrappedBitcoin",
                    "Verifier", "DepositRegistry", "MintGateway", "BurnGateway">>
             ELSE << >>)

\* The state of new contracts: nobody mints, nobody consumes.
DeploymentInit ==
  /\ options \in {o \in DeployOptions : ValidOptions(o)}
  /\ now = 0
  /\ owner = [c \in Contracts |-> Deployer]
  /\ pendingOwner = [c \in Contracts |-> NoOne]
  /\ totalSupply = 0
  /\ balanceOf = [u \in Users |-> 0]
  /\ allowance = [u \in Users |-> [s \in Spenders |-> 0]]
  /\ isMinter = {} /\ lockedMinter = NoOne
  /\ depositExists = {} /\ depositConsumed = {} /\ utxoConsumed = {}
  /\ authorizedConsumers = {} /\ lockedConsumer = NoOne
  /\ pendingRequests = << >> /\ approvedAuthorization = {}
  /\ authorizedRequester = options.requesters
  /\ functionsConfig \in FunctionsConfigs
  /\ mintPaused = FALSE /\ minimumConfirmations = 1
  /\ mintLimit = NewLimit(options.mintLimit[1], options.mintLimit[2], 0)
  /\ minted = {}
  /\ burnPaused = FALSE
  /\ redeemLimit = NewLimit(options.redeemLimit[1], options.redeemLimit[2], 0)
  /\ nextRedeemNonce = [u \in Users |-> 0]
  /\ redeemState = [r \in {} |-> "BURNED"]
  /\ burnedAt = [r \in {} |-> 0]
  /\ redeemIdConsumed = {}
  /\ issuedElsewhere = 0 /\ destroyedElsewhere = 0
  /\ deploying = DeployCalls(options) /\ deployed = "running"
  /\ configuring = << >>
  /\ guard = 0

OnlyOwnership == UNCHANGED <<now, tokenVars, registryVars, verifierVars, mintVars,
                             burnVars, historyVars>>

\* One transaction of deploy.js.
DeployCall(call, caller) ==
  \/ /\ \/ call = "setMinter" /\ SetMinter(caller, "MintGateway", TRUE)
        \/ call = "lockMinter" /\ LockMinter(caller, "MintGateway")
     /\ OnlyToken /\ UNCHANGED historyVars
  \/ /\ \/ /\ call = "setAuthorizedConsumer"
           /\ SetAuthorizedConsumer(caller, "MintGateway", TRUE)
        \/ /\ call = "lockAuthorizedConsumer"
           /\ LockAuthorizedConsumer(caller, "MintGateway")
     /\ OnlyRegistry
  \/ /\ call \in Contracts
     /\ RenounceOwnership(call, caller)
     /\ OnlyOwnership

DeploySends ==
  /\ deployed \in {"running", "byHand"} /\ deploying # << >>
  /\ deployed = "running" => Signer(options) = Deployer
  /\ DeployCall(Head(deploying), Signer(options))
  /\ deploying' = Tail(deploying)
  /\ UNCHANGED <<options, deployed, configuring, guard>>

\* The summary is printed: configured, lockedDown, ownershipRenounced.
DeployEnds ==
  /\ deployed = "running" /\ deploying = << >>
  /\ deployed' = "done"
  /\ UNCHANGED <<vars, options, deploying, configuring, guard>>

\* The signer is not the owner, a transaction reverts, or the process dies.
DeployFails ==
  /\ deployed = "running"
  /\ deployed' = "failed" /\ deploying' = << >>
  /\ UNCHANGED <<vars, options, configuring, guard>>

\* What no script does for a Functions deployment, its lockdown, or what one left
\* undone: the owner sends the calls himself, in the order he thinks of.
OwnerBegins ==
  /\ deployed \in {"done", "failed"} /\ ~options.risk
  /\ deploying' \in HandPlans
  /\ deployed' = "byHand"
  /\ UNCHANGED <<vars, options, configuring, guard>>

-----------------------------------------------------------------------------
(* configure-chainlink-functions.js.                                        *)

\* The lists of a plan are disjoint, or the script refuses it.
ConfigureCalls(plan) ==
  <<<<"setFunctionsConfig", plan.config>>>>
  \o [i \in DOMAIN plan.authorize |-> <<"authorize", plan.authorize[i]>>]
  \o [i \in DOMAIN plan.revoke |-> <<"revoke", plan.revoke[i]>>]

ConfigureBegins ==
  /\ options.mode = "chainlink-functions"
  /\ configuring = << >>
  /\ \E plan \in FunctionsPlans :
       /\ \A i \in DOMAIN plan.authorize, j \in DOMAIN plan.revoke :
            plan.authorize[i] # plan.revoke[j]
       /\ configuring' = ConfigureCalls(plan)
  /\ UNCHANGED <<vars, options, deploying, deployed, guard>>

ConfigureSends ==
  /\ configuring # << >>
  /\ LET call == Head(configuring) IN
       \/ /\ call[1] = "setFunctionsConfig"
          /\ SetFunctionsConfig(Signer(options), call[2])
       \/ /\ call[1] # "setFunctionsConfig"
          /\ SetAuthorizedRequester(Signer(options), call[2], call[1] = "authorize")
  /\ OnlyVerifier
  /\ configuring' = Tail(configuring)
  /\ UNCHANGED <<options, deploying, deployed, guard>>

ConfigureFails ==
  /\ configuring # << >>
  /\ configuring' = << >>
  /\ UNCHANGED <<vars, options, deploying, deployed, guard>>

-----------------------------------------------------------------------------
(* The guard of the API and the worker.                                     *)

\* What assertChainlinkOnlyRiskRuntime asks, in this order.  minterLocked and
\* lockedMinter are one variable here and so one question, as for the consumer.
GuardReads ==
  <<"lockedMinter", "isMinter", "lockedConsumer", "authorizedConsumers",
    "WrappedBitcoin", "DepositRegistry", "MintGateway", "BurnGateway", "Verifier",
    "authorizedRequester">>

\* The answer is the one the guard insists on.  The ECDSA verifier knows no
\* requesters: there the call reverts.
Shows(read) ==
  CASE read = "lockedMinter" -> lockedMinter = "MintGateway"
    [] read = "isMinter" -> "MintGateway" \in isMinter
    [] read = "lockedConsumer" -> lockedConsumer = "MintGateway"
    [] read = "authorizedConsumers" -> "MintGateway" \in authorizedConsumers
    [] read = "authorizedRequester" -> /\ options.mode = "chainlink-functions"
                                       /\ Relayer \in authorizedRequester
    [] OTHER -> owner[read] = NoOne

\* An answer that differs ends the process, which may be started again.
GuardAsks ==
  /\ guard < Len(GuardReads)
  /\ guard' = IF Shows(GuardReads[guard + 1]) THEN guard + 1 ELSE 0
  /\ UNCHANGED <<vars, options, deploying, deployed, configuring>>

-----------------------------------------------------------------------------

\* The ECDSA verifier takes no requests and has no Functions configuration.
Chain ==
  /\ options.mode = "ecdsa" => UNCHANGED verifierVars
  /\ Next
  /\ UNCHANGED scriptVars

DeploymentNext ==
  \/ Chain
  \/ DeploySends \/ DeployEnds \/ DeployFails
  \/ ConfigureBegins \/ ConfigureSends \/ ConfigureFails
  \/ OwnerBegins
  \/ GuardAsks

DeploymentSpec == DeploymentInit /\ [][DeploymentNext]_deploymentVars

DeploymentTypeOK ==
  /\ options \in DeployOptions
  /\ deployed \in {"running", "done", "failed", "byHand"}
  /\ \E plan \in HandPlans \cup {DeployCalls(options)} : \E n \in 0 .. Len(plan) :
       deploying = SubSeq(plan, n + 1, Len(plan))
  /\ guard \in 0 .. Len(GuardReads)

-----------------------------------------------------------------------------

\* A lockdown that was reported is in force and stays so: what deploy.js prints
\* at its end, after transactions with anything in between, and what the guard
\* has read so far, one answer at a time, hold together ever after.
LockdownReported ==
  /\ \A i \in 1 .. guard : Shows(GuardReads[i])
  /\ deployed = "done" /\ options.risk =>
       \A i \in 1 .. Len(GuardReads) - 1 : Shows(GuardReads[i])
=============================================================================
