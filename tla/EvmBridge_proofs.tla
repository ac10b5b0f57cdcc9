-------------------------- MODULE EvmBridge_proofs --------------------------
(***************************************************************************)
(* Proofs that the five contracts keep their invariants, balances, supply  *)
(* and limits included, for every set of users, intents, authorizations    *)
(* and bounds.                                                             *)
(***************************************************************************)
EXTENDS EvmProperties, Sums, TLAPS

-----------------------------------------------------------------------------
(* Frames: which actions touch which contract's variables.                  *)

\* Only Govern moves ownership.
LEMMA OwnableFrame == [Next]_vars => Govern \/ UNCHANGED ownableVars
  BY DEF Next, vars, ownableVars, Hold, Allow, IssueElsewhere, DestroyElsewhere,
     OnlyToken, Deposit, ConsumeElsewhere, OnlyRegistry, Ask, Fulfil,
     OnlyVerifier, MintFlow, BurnFlow, Complete, Resolve, OnlyBurnGateway,
     ConfigureToken, ConfigureRegistry, ConfigureVerifier, ConfigureMintGateway,
     ConfigureBurnGateway, NextBlock

\* Only the clock moves time.
LEMMA TimeFrame == [Next]_vars => NextBlock \/ UNCHANGED now
  BY DEF Next, vars, Hold, Allow, IssueElsewhere, DestroyElsewhere,
     OnlyToken, Deposit, ConsumeElsewhere, OnlyRegistry, Ask, Fulfil,
     OnlyVerifier, MintFlow, BurnFlow, Complete, Resolve, OnlyBurnGateway,
     ConfigureToken, ConfigureRegistry, ConfigureVerifier, ConfigureMintGateway,
     ConfigureBurnGateway, Govern

\* Who touches the token.
LEMMA TokenFrame ==
  [Next]_vars => \/ Hold \/ Allow \/ IssueElsewhere \/ DestroyElsewhere
                 \/ MintFlow \/ BurnFlow \/ ConfigureToken
                 \/ UNCHANGED tokenVars
  BY DEF Next, vars, Deposit, ConsumeElsewhere, OnlyRegistry, Ask, Fulfil,
     OnlyVerifier, Complete, Resolve, OnlyBurnGateway, ConfigureRegistry,
     ConfigureVerifier, ConfigureMintGateway, ConfigureBurnGateway, Govern,
     NextBlock

\* Who touches the registry.
LEMMA RegistryFrame ==
  [Next]_vars => \/ Deposit \/ ConsumeElsewhere \/ MintFlow \/ ConfigureRegistry
                 \/ UNCHANGED registryVars
  BY DEF Next, vars, Hold, Allow, IssueElsewhere, DestroyElsewhere, OnlyToken,
     Ask, Fulfil, OnlyVerifier, BurnFlow, Complete, Resolve, OnlyBurnGateway,
     ConfigureToken, ConfigureVerifier, ConfigureMintGateway,
     ConfigureBurnGateway, Govern, NextBlock

\* Who touches the verifier.
LEMMA VerifierFrame ==
  [Next]_vars => Ask \/ Fulfil \/ ConfigureVerifier \/ UNCHANGED verifierVars
  BY DEF Next, vars, Hold, Allow, IssueElsewhere, DestroyElsewhere, OnlyToken,
     Deposit, ConsumeElsewhere, OnlyRegistry, MintFlow, BurnFlow, Complete,
     Resolve, OnlyBurnGateway, ConfigureToken, ConfigureRegistry,
     ConfigureMintGateway, ConfigureBurnGateway, Govern, NextBlock

\* Who touches the mint gateway.
LEMMA MintFrame ==
  [Next]_vars => MintFlow \/ ConfigureMintGateway \/ UNCHANGED mintVars
  BY DEF Next, vars, Hold, Allow, IssueElsewhere, DestroyElsewhere, OnlyToken,
     Deposit, ConsumeElsewhere, OnlyRegistry, Ask, Fulfil, OnlyVerifier,
     BurnFlow, Complete, Resolve, OnlyBurnGateway, ConfigureToken,
     ConfigureRegistry, ConfigureVerifier, ConfigureBurnGateway, Govern,
     NextBlock

\* Who touches the burn gateway.
LEMMA BurnFrame ==
  [Next]_vars => \/ BurnFlow \/ Complete \/ Resolve \/ ConfigureBurnGateway
                 \/ UNCHANGED burnVars
  BY DEF Next, vars, Hold, Allow, IssueElsewhere, DestroyElsewhere, OnlyToken,
     Deposit, ConsumeElsewhere, OnlyRegistry, Ask, Fulfil, OnlyVerifier,
     MintFlow, ConfigureToken, ConfigureRegistry, ConfigureVerifier,
     ConfigureMintGateway, Govern, NextBlock

-----------------------------------------------------------------------------
(* Types.                                                                   *)

\* Ownership stays with users or nobody.
LEMMA OwnableType == OwnableTypeOK /\ [Next]_vars => OwnableTypeOK'
<1> SUFFICES ASSUME OwnableTypeOK, [Next]_vars PROVE OwnableTypeOK'
  OBVIOUS
<1>1. CASE Govern
  BY <1>1 DEF Govern, OwnableTypeOK, TransferOwnership, CancelOwnershipTransfer,
     RenounceOwnership, AcceptOwnership, Addresses
<1>2. CASE UNCHANGED ownableVars
  BY <1>2 DEF ownableVars, OwnableTypeOK
<1> QED BY <1>1, <1>2, OwnableFrame

\* Time stays within its bound.
LEMMA TimeType == now \in 0 .. MaxTime /\ [Next]_vars => now' \in 0 .. MaxTime
<1> SUFFICES ASSUME now \in 0 .. MaxTime, [Next]_vars PROVE now' \in 0 .. MaxTime
  OBVIOUS
<1>1. CASE NextBlock
  BY <1>1, MaxTimeAssumption DEF NextBlock, Tick
<1> QED BY <1>1, TimeFrame

\* What the gateways' inputs are made of.
LEMMA MintAuthFields ==
  ASSUME NEW auth \in MintAuths
  PROVE  /\ auth.deposit \in Intents /\ auth.utxo \in Utxos
         /\ auth.sats \in 0 .. MaxUint /\ auth.sats \in Nat
         /\ auth.deadline \in Nat /\ auth.confirmations \in Nat
  BY MintAuthsAssumption, TokenAssumption DEF MintAuthorization

\* The numbers of a burn are naturals.
LEMMA BurnInputFields ==
  ASSUME NEW in \in BurnInputs
  PROVE  in.amount \in Nat /\ in.maxMinerFee \in Nat /\ in.deadline \in Nat
  BY BurnAssumption DEF BurnInput

\* The token's operations keep its type.
LEMMA TransferType ==
  ASSUME TokenTypeOK, NEW from \in Users, NEW to \in Users, NEW amount \in Nat,
         balanceOf[from] >= amount
  PROVE  Moved(from, to, amount) \in [Users -> Nat]
<1> DEFINE debited == [balanceOf EXCEPT ![from] = @ - amount]
<1>1. debited \in [Users -> Nat]
  BY DEF TokenTypeOK
<1>2. [debited EXCEPT ![to] = @ + amount] \in [Users -> Nat]
  BY <1>1
<1> QED BY <1>2 DEF Moved

\* What transferFrom and burnFrom spend leaves an allowance an allowance.
LEMMA SpendType ==
  ASSUME TokenTypeOK, NEW from \in Users, NEW spender \in Spenders,
         NEW amount \in Nat, SpendAllowance(from, spender, amount)
  PROVE  allowance' \in [Users -> [Spenders -> 0 .. MaxUint]]
<1>1. allowance[from][spender] \in 0 .. MaxUint
  BY DEF TokenTypeOK
<1>2. allowance[from][spender] - amount \in 0 .. MaxUint
  BY <1>1, TokenAssumption DEF SpendAllowance
<1> QED BY <1>1, <1>2 DEF SpendAllowance, TokenTypeOK

\* Minting keeps the token well typed: the supply stays below MaxUint.
LEMMA MintType ==
  ASSUME TokenTypeOK, NEW caller, NEW to \in Users, NEW amount \in Nat,
         Mint(caller, to, amount)
  PROVE  TokenTypeOK'
<1>1. totalSupply' \in Int /\ totalSupply' <= MaxUint
  BY TokenAssumption DEF Mint, TokenTypeOK
<1>2. balanceOf' \in [Users -> Nat]
  BY DEF Mint, TokenTypeOK
<1> QED BY <1>1, <1>2 DEF Mint, TokenTypeOK

\* Burning keeps the token well typed: no balance is overdrawn.
LEMMA BurnFromType ==
  ASSUME TokenTypeOK, NEW caller \in Spenders, NEW from \in Users,
         NEW amount \in Nat, BurnFrom(caller, from, amount)
  PROVE  TokenTypeOK'
<1>1. totalSupply' \in Int /\ totalSupply' <= MaxUint
  BY TokenAssumption DEF BurnFrom, TokenTypeOK
<1>2. balanceOf' \in [Users -> Nat]
  BY DEF BurnFrom, TokenTypeOK
<1>3. allowance' \in [Users -> [Spenders -> 0 .. MaxUint]]
  BY SpendType DEF BurnFrom
<1> QED BY <1>1, <1>2, <1>3 DEF BurnFrom, TokenTypeOK

\* So every step does.
LEMMA TokenType == TokenTypeOK /\ [Next]_vars => TokenTypeOK'
<1> SUFFICES ASSUME TokenTypeOK, [Next]_vars PROVE TokenTypeOK'
  OBVIOUS
<1>1. CASE Hold
  <2>1. ASSUME NEW caller \in Users, NEW to \in Users, NEW amount \in TransferAmounts,
               Transfer(caller, to, amount)
        PROVE  TokenTypeOK'
    <3>1. balanceOf' \in [Users -> Nat]
      BY <2>1, TransferType, BridgeAssumption DEF Transfer
    <3> QED BY <2>1, <3>1 DEF Transfer, TokenTypeOK
  <2>2. ASSUME NEW caller \in Spenders, NEW from \in Users, NEW to \in Users,
               NEW amount \in TransferAmounts, TransferFrom(caller, from, to, amount)
        PROVE  TokenTypeOK'
    <3>1. balanceOf' \in [Users -> Nat]
      BY <2>2, TransferType, BridgeAssumption DEF TransferFrom
    <3>2. allowance' \in [Users -> [Spenders -> 0 .. MaxUint]]
      BY <2>2, SpendType, BridgeAssumption DEF TransferFrom
    <3> QED BY <2>2, <3>1, <3>2 DEF TransferFrom, TokenTypeOK
  <2> QED BY <1>1, <2>1, <2>2 DEF Hold
<1>2. CASE Allow
  BY <1>2, BridgeAssumption DEF Allow, Approve, TokenTypeOK
<1>3. CASE IssueElsewhere
  BY <1>3, MintType, BridgeAssumption DEF IssueElsewhere
<1>4. CASE DestroyElsewhere
  BY <1>4, BurnFromType, BridgeAssumption DEF DestroyElsewhere
<1>5. CASE MintFlow
  <2>1. PICK auth \in MintAuths : /\ Mint("MintGateway", auth.recipient, auth.sats)
    BY <1>5 DEF MintFlow, MintWithAuthorization
  <2>2. auth.recipient \in Users
    BY <2>1, MintAuthsAssumption DEF Mint, MintAuthorization
  <2> QED BY <2>1, <2>2, MintType, MintAuthFields
<1>6. CASE BurnFlow
  <2>1. PICK caller \in Users, in \in BurnInputs :
          BurnFrom("BurnGateway", caller, in.amount)
    BY <1>6 DEF BurnFlow, Burn
  <2> QED BY <2>1, BurnFromType, BurnInputFields, BurnAssumption
<1>7. CASE ConfigureToken
  BY <1>7, BridgeAssumption
     DEF ConfigureToken, SetMinter, LockMinter, TokenTypeOK
<1>8. CASE UNCHANGED tokenVars
  BY <1>8 DEF tokenVars, TokenTypeOK
<1> QED BY <1>1, <1>2, <1>3, <1>4, <1>5, <1>6, <1>7, <1>8, TokenFrame

\* Consuming a deposit keeps the registry well typed.
LEMMA ConsumeType ==
  ASSUME RegistryTypeOK, NEW caller, NEW intent \in Intents, NEW utxo \in Utxos,
         ConsumeDeposit(caller, intent, utxo)
  PROVE  RegistryTypeOK'
  BY DEF ConsumeDeposit, RegistryTypeOK

\* So does every step.
LEMMA RegistryType == RegistryTypeOK /\ [Next]_vars => RegistryTypeOK'
<1> SUFFICES ASSUME RegistryTypeOK, [Next]_vars PROVE RegistryTypeOK'
  OBVIOUS
<1>1. CASE Deposit
  BY <1>1 DEF Deposit, CreateDepositIntent, RegistryTypeOK
<1>2. CASE ConsumeElsewhere
  BY <1>2, ConsumeType DEF ConsumeElsewhere
<1>3. CASE MintFlow
  <2>1. PICK auth \in MintAuths :
          ConsumeDeposit("MintGateway", auth.deposit, auth.utxo)
    BY <1>3 DEF MintFlow, MintWithAuthorization
  <2> QED BY <2>1, ConsumeType, MintAuthFields
<1>4. CASE ConfigureRegistry
  BY <1>4, BridgeAssumption DEF ConfigureRegistry, SetAuthorizedConsumer,
     LockAuthorizedConsumer, RegistryTypeOK
<1>5. CASE UNCHANGED registryVars
  BY <1>5 DEF registryVars, RegistryTypeOK
<1> QED BY <1>1, <1>2, <1>3, <1>4, <1>5, RegistryFrame

\* A request for an authorization is a well-formed pending request.
LEMMA RequestType ==
  ASSUME VerifierTypeOK, NEW caller \in Users, NEW kind, NEW auth,
         <<kind, auth>> \in Answers, auth.deadline \in Nat,
         RequestAuthorization(caller, kind, auth)
  PROVE  VerifierTypeOK'
<1> DEFINE request == [answer |-> <<kind, auth>>, requester |-> caller,
                       deadline |-> auth.deadline,
                       fulfilled |-> FALSE, approved |-> FALSE]
<1>1. request \in PendingRequest
  BY DEF PendingRequest
<1>2. pendingRequests' = Append(pendingRequests, request)
  BY DEF RequestAuthorization
<1>3. pendingRequests' \in Seq(PendingRequest) /\ Len(pendingRequests') <= MaxRequests
  <2> HIDE DEF request
  <2>1. pendingRequests \in Seq(PendingRequest) /\ Len(pendingRequests) \in Nat
    BY DEF VerifierTypeOK
  <2>2. Len(pendingRequests') = Len(pendingRequests) + 1
    BY <1>2, <2>1
  <2> QED BY <1>1, <1>2, <2>1, <2>2, VerifierAssumption DEF RequestAuthorization
<1> QED BY <1>3 DEF RequestAuthorization, VerifierTypeOK

\* The release authorizations' deadlines are times.
LEMMA ReleaseAuthFields ==
  ASSUME NEW auth \in ReleaseAuths
  PROVE  /\ auth.deadline \in Nat /\ auth.request \in RedeemRequest
         /\ auth.redeemId \in BurnLogs \X RedeemRequest
  BY BurnAssumption DEF ReleaseAuthorization

\* A callback leaves every request well formed.
LEMMA FulfilType ==
  ASSUME VerifierTypeOK, NEW id, NEW response,
         HandleOracleFulfillment(id, response)
  PROVE  VerifierTypeOK'
<1> DEFINE approves == Approves(pendingRequests[id], response)
           old == pendingRequests[id]
           new == [old EXCEPT !.fulfilled = TRUE, !.approved = old.approved \/ approves]
<1>1. /\ id \in 1 .. Len(pendingRequests) /\ id \in 1 .. MaxRequests
      /\ old \in PendingRequest
  BY VerifierAssumption DEF HandleOracleFulfillment, VerifierTypeOK
<1>2. approves \in BOOLEAN
  BY DEF Approves
<1>3. new \in PendingRequest
  <2> HIDE DEF approves, old
  <2> QED BY <1>1, <1>2 DEF PendingRequest
<1>4. pendingRequests' = [pendingRequests EXCEPT ![id] = new]
  BY <1>1 DEF HandleOracleFulfillment, VerifierTypeOK, PendingRequest
<1>5. pendingRequests' \in Seq(PendingRequest) /\ Len(pendingRequests') = Len(pendingRequests)
  <2> HIDE DEF new
  <2> QED BY <1>1, <1>3, <1>4 DEF VerifierTypeOK
<1>6. <<id, old.answer>> \in (1 .. MaxRequests) \X Answers
  <2> HIDE DEF old
  <2> QED BY <1>1 DEF PendingRequest
<1>7. approvedAuthorization' \subseteq (1 .. MaxRequests) \X Answers
  BY <1>6 DEF HandleOracleFulfillment, VerifierTypeOK
<1> QED BY <1>5, <1>7 DEF HandleOracleFulfillment, VerifierTypeOK

\* Every step keeps the verifier's requests and approvals well formed.
LEMMA VerifierType == VerifierTypeOK /\ [Next]_vars => VerifierTypeOK'
<1> SUFFICES ASSUME VerifierTypeOK, [Next]_vars PROVE VerifierTypeOK'
  OBVIOUS
<1>1. CASE Ask
  <2>1. ASSUME NEW caller \in Users, NEW auth \in MintAuths,
               RequestAuthorization(caller, "MINT", auth)
        PROVE  VerifierTypeOK'
    BY <2>1, RequestType, MintAuthFields DEF Answers
  <2>2. ASSUME NEW caller \in Users, NEW auth \in ReleaseAuths,
               RequestAuthorization(caller, "RELEASE", auth)
        PROVE  VerifierTypeOK'
    BY <2>2, RequestType, ReleaseAuthFields DEF Answers
  <2> QED BY <1>1, <2>1, <2>2 DEF Ask
<1>2. CASE Fulfil
  BY <1>2, FulfilType DEF Fulfil
<1>3. CASE ConfigureVerifier
  <2>1. ASSUME NEW caller \in Users, NEW config \in FunctionsConfigs,
               SetFunctionsConfig(caller, config)
        PROVE  VerifierTypeOK'
    BY <2>1 DEF SetFunctionsConfig, VerifierTypeOK
  <2>2. ASSUME NEW caller \in Users, NEW requester \in Requesters,
               NEW allowed \in BOOLEAN,
               SetAuthorizedRequester(caller, requester, allowed)
        PROVE  VerifierTypeOK'
    BY <2>2, BridgeAssumption DEF SetAuthorizedRequester, VerifierTypeOK, Addresses
  <2> QED BY <1>3, <2>1, <2>2 DEF ConfigureVerifier
<1>4. CASE UNCHANGED verifierVars
  BY <1>4 DEF verifierVars, VerifierTypeOK
<1> QED BY <1>1, <1>2, <1>3, <1>4, VerifierFrame

\* A limit stays a limit: when it is set and when it is used.
LEMMA LimitType ==
  /\ \A limit, window, time \in Nat : NewLimit(limit, window, time) \in WindowLimit
  /\ \A l \in WindowLimit, time, sats \in Nat : AfterUse(l, time, sats) \in WindowLimit
<1>1. ASSUME NEW l \in WindowLimit, NEW time \in Nat
      PROVE  Rolled(l, time) \in WindowLimit
  BY DEF Rolled, WindowLimit
<1>2. ASSUME NEW l \in WindowLimit, NEW time \in Nat, NEW sats \in Nat
      PROVE  AfterUse(l, time, sats) \in WindowLimit
  BY <1>1 DEF AfterUse, WindowLimit
<1> QED BY <1>2 DEF NewLimit, WindowLimit

\* Every step keeps the mint gateway well typed.
LEMMA MintGatewayType ==
  MintTypeOK /\ now \in Nat /\ [Next]_vars => MintTypeOK'
<1> SUFFICES ASSUME MintTypeOK, now \in Nat, [Next]_vars PROVE MintTypeOK'
  OBVIOUS
<1>1. CASE MintFlow
  <2>1. PICK intent \in Intents, auth \in MintAuths, id \in 1 .. MaxRequests :
          MintWithAuthorization(intent, auth, id)
    BY <1>1 DEF MintFlow
  <2>2. mintLimit' \in WindowLimit
    BY <2>1, LimitType, MintAuthFields DEF MintWithAuthorization, MintTypeOK
  <2> QED BY <2>1, <2>2 DEF MintWithAuthorization, MintTypeOK
<1>2. CASE ConfigureMintGateway
  <2>1. ASSUME NEW caller \in Users, NEW l \in MintLimits,
               SetMintLimit(caller, l[1], l[2])
        PROVE  MintTypeOK'
    BY <2>1, LimitType, MintLimitsAssumption DEF SetMintLimit, MintTypeOK
  <2>2. ASSUME NEW caller \in Users, NEW n \in Confirmations,
               SetMinimumConfirmations(caller, n)
        PROVE  MintTypeOK'
    BY <2>2, BridgeAssumption DEF SetMinimumConfirmations, MintTypeOK
  <2>3. ASSUME NEW caller \in Users, NEW paused \in PauseValues,
               SetMintPaused(caller, paused)
        PROVE  MintTypeOK'
    BY <2>3, BridgeAssumption DEF SetMintPaused, MintTypeOK
  <2> QED BY <1>2, <2>1, <2>2, <2>3 DEF ConfigureMintGateway
<1>3. CASE UNCHANGED mintVars
  BY <1>3 DEF mintVars, MintTypeOK
<1> QED BY <1>1, <1>2, <1>3, MintFrame

\* A burn stores a request that was not there, of a script the gateway accepts.
LEMMA NewRequest ==
  ASSUME BurnTypeOK, NEW caller \in Users, NEW in \in BurnInputs, Burn(caller, in)
  PROVE  /\ RequestOf(caller, in) \in RedeemRequest
         /\ RequestOf(caller, in) \notin DOMAIN redeemState
         /\ RequestOf(caller, in).amount = in.amount
         /\ redeemState' = Extended(redeemState, RequestOf(caller, in), "BURNED")
<1>1. in.script \in {"p2wpkh", "p2wsh", "p2tr"}
  BY DEF Burn, AllowedDestinationScript
<1>2. nextRedeemNonce[caller] \in Nat
  BY DEF BurnTypeOK
<1> QED BY <1>1, <1>2, BurnInputFields DEF RequestOf, RedeemRequest, Burn

\* A burn keeps the burn gateway well typed.
LEMMA BurnFlowType ==
  ASSUME BurnTypeOK, now \in Nat, NEW caller \in Users, NEW in \in BurnInputs,
         Burn(caller, in)
  PROVE  BurnTypeOK'
<1> DEFINE r == RequestOf(caller, in)
<1>1. /\ r \in RedeemRequest
      /\ redeemState' = Extended(redeemState, r, "BURNED")
      /\ burnedAt' = Extended(burnedAt, r, now)
      /\ nextRedeemNonce' = [nextRedeemNonce EXCEPT ![caller] = @ + 1]
      /\ redeemLimit' = AfterUse(redeemLimit, now, in.amount)
      /\ UNCHANGED <<burnPaused, redeemIdConsumed>>
  BY NewRequest DEF Burn
<1> HIDE DEF r
<1>2. redeemLimit' \in WindowLimit
  BY <1>1, LimitType, BurnInputFields DEF BurnTypeOK
<1>3. /\ DOMAIN redeemState' \subseteq RedeemRequest
      /\ redeemState' \in [DOMAIN redeemState' -> RedeemStates]
      /\ burnedAt' \in [DOMAIN redeemState' -> Nat]
  BY <1>1 DEF Extended, BurnTypeOK, RedeemStates
<1>4. nextRedeemNonce' \in [Users -> Nat]
  BY <1>1 DEF BurnTypeOK
<1> QED BY <1>1, <1>2, <1>3, <1>4 DEF BurnTypeOK

\* So does every step.
LEMMA BurnGatewayType ==
  BurnTypeOK /\ now \in Nat /\ [Next]_vars => BurnTypeOK'
<1> SUFFICES ASSUME BurnTypeOK, now \in Nat, [Next]_vars PROVE BurnTypeOK'
  OBVIOUS
<1>1. CASE BurnFlow
  BY <1>1, BurnFlowType DEF BurnFlow
<1>2. CASE Complete
  <2>1. PICK auth \in ReleaseAuths, id \in 1 .. MaxRequests :
          CompleteRedeemWithAuthorization(auth, id)
    BY <1>2 DEF Complete
  <2> QED BY <2>1, ReleaseAuthFields
          DEF CompleteRedeemWithAuthorization, BurnTypeOK, RedeemStates
<1>3. CASE Resolve
  BY <1>3, BridgeAssumption DEF Resolve, SetRedeemState, BurnTypeOK
<1>4. CASE ConfigureBurnGateway
  <2>1. ASSUME NEW caller \in Users, NEW l \in RedeemLimits,
               SetRedeemLimit(caller, l[1], l[2])
        PROVE  BurnTypeOK'
    BY <2>1, LimitType, BurnAssumption DEF SetRedeemLimit, BurnTypeOK
  <2>2. ASSUME NEW caller \in Users, NEW paused \in PauseValues,
               SetBurnPaused(caller, paused)
        PROVE  BurnTypeOK'
    BY <2>2, BridgeAssumption DEF SetBurnPaused, BurnTypeOK
  <2> QED BY <1>4, <2>1, <2>2 DEF ConfigureBurnGateway
<1>5. CASE UNCHANGED burnVars
  BY <1>5 DEF burnVars, BurnTypeOK
<1> QED BY <1>1, <1>2, <1>3, <1>4, <1>5, BurnFrame

\* The history sums are numbers.
LEMMA HistoryType ==
  issuedElsewhere \in Nat /\ destroyedElsewhere \in Nat /\ [Next]_vars
    => issuedElsewhere' \in Nat /\ destroyedElsewhere' \in Nat
  BY BridgeAssumption DEF Next, vars, historyVars, Hold, Allow, IssueElsewhere,
     DestroyElsewhere, OnlyToken, Deposit, ConsumeElsewhere, OnlyRegistry, Ask,
     Fulfil, OnlyVerifier, MintFlow, BurnFlow, Complete, Resolve,
     OnlyBurnGateway, ConfigureToken, ConfigureRegistry, ConfigureVerifier,
     ConfigureMintGateway, ConfigureBurnGateway, Govern, NextBlock

\* The state deploy.js leaves is well typed.
LEMMA InitType == Init => EvmTypeOK
<1> SUFFICES ASSUME Init PROVE EvmTypeOK
  OBVIOUS
<1>1. now \in 0 .. MaxTime /\ issuedElsewhere \in Nat /\ destroyedElsewhere \in Nat
  BY MaxTimeAssumption DEF Init
<1>2. OwnableTypeOK /\ TokenTypeOK /\ RegistryTypeOK
  BY BridgeAssumption, TokenAssumption
     DEF Init, OwnableTypeOK, TokenTypeOK, RegistryTypeOK, Addresses, Contracts
<1>3. VerifierTypeOK
  BY VerifierAssumption DEF Init, VerifierTypeOK
<1>4. mintLimit \in WindowLimit /\ redeemLimit \in WindowLimit
  BY LimitType, BridgeAssumption DEF Init
<1>5. MintTypeOK
  <2>1. mintPaused \in BOOLEAN /\ minted \subseteq [auth : MintAuths, at : Nat]
    BY DEF Init
  <2>2. minimumConfirmations \in Nat \ {0}
    BY DEF Init
  <2> QED BY <1>4, <2>1, <2>2 DEF MintTypeOK
<1>6. DOMAIN redeemState = {} /\ DOMAIN burnedAt = {}
  BY DEF Init
<1>7. BurnTypeOK
  BY <1>4, <1>6 DEF Init, BurnTypeOK
<1> QED BY <1>1, <1>2, <1>3, <1>5, <1>7 DEF EvmTypeOK

\* The type invariant is inductive.
LEMMA NextType == EvmTypeOK /\ [Next]_vars => EvmTypeOK'
<1> SUFFICES ASSUME EvmTypeOK, [Next]_vars PROVE EvmTypeOK'
  OBVIOUS
<1>1. now \in Nat
  BY DEF EvmTypeOK
<1> QED BY <1>1, OwnableType, TimeType, TokenType, RegistryType, VerifierType,
        MintGatewayType, BurnGatewayType, HistoryType DEF EvmTypeOK

\* Every reachable state of the contracts is well typed, whatever the owners do.
THEOREM EvmTypeCorrect == Spec => []EvmTypeOK
  BY InitType, NextType, PTL DEF Spec

-----------------------------------------------------------------------------
(* Approvals, deposits and mints.                                           *)

\* A new request has no approval and takes none from the others.
LEMMA RequestKeepsApprovals ==
  ASSUME VerifierTypeOK, ApprovalsAgree, NEW caller, NEW kind, NEW auth,
         RequestAuthorization(caller, kind, auth)
  PROVE  ApprovalsAgree'
<1> DEFINE n == Len(pendingRequests)
           request == [answer |-> <<kind, auth>>, requester |-> caller,
                       deadline |-> auth.deadline,
                       fulfilled |-> FALSE, approved |-> FALSE]
<1>1. /\ n \in Nat /\ DOMAIN pendingRequests = 1 .. n
      /\ pendingRequests' = Append(pendingRequests, request)
      /\ approvedAuthorization' = approvedAuthorization
  BY DEF RequestAuthorization, VerifierTypeOK
<1>2. ~request.approved
  OBVIOUS
<1>3. /\ DOMAIN pendingRequests' = 1 .. n + 1
      /\ \A id \in 1 .. n : pendingRequests'[id] = pendingRequests[id]
      /\ pendingRequests'[n + 1] = request
  <2> HIDE DEF request
  <2> QED BY <1>1 DEF VerifierTypeOK
<1> HIDE DEF request, n
<1>4. \A id \in 1 .. n + 1 : id \in 1 .. n \/ id = n + 1
  BY <1>1
<1>5. ASSUME NEW id \in 1 .. MaxRequests, NEW answer \in Answers
      PROVE  <<id, answer>> \in approvedAuthorization'
               <=> /\ id \in DOMAIN pendingRequests'
                   /\ pendingRequests'[id].answer = answer
                   /\ pendingRequests'[id].approved
  <2>1. CASE id \in 1 .. n
    BY <2>1, <1>1, <1>3 DEF ApprovalsAgree
  <2>2. CASE id = n + 1
    BY <2>2, <1>1, <1>2, <1>3 DEF ApprovalsAgree
  <2>3. CASE id \notin 1 .. n + 1
    BY <2>3, <1>1, <1>3 DEF ApprovalsAgree
  <2> QED BY <2>1, <2>2, <2>3, <1>4
<1>6. ASSUME NEW id \in DOMAIN pendingRequests', pendingRequests'[id].approved
      PROVE  /\ pendingRequests'[id].fulfilled
             /\ pendingRequests'[id].answer \in DonApproves
  <2>1. id \in 1 .. n
    BY <1>2, <1>3, <1>4, <1>6
  <2> QED BY <2>1, <1>1, <1>3, <1>6 DEF ApprovalsAgree
<1> QED BY <1>5, <1>6 DEF ApprovalsAgree

\* A callback records an approval in both places or in neither.
LEMMA FulfilKeepsApprovals ==
  ASSUME VerifierTypeOK, ApprovalsAgree, NEW id,
         NEW response \in DonApproves \cup {NoAnswer},
         HandleOracleFulfillment(id, response)
  PROVE  ApprovalsAgree'
<1> DEFINE old == pendingRequests[id]
           approves == Approves(old, response)
           new == [old EXCEPT !.fulfilled = TRUE, !.approved = old.approved \/ approves]
<1>1. /\ id \in DOMAIN pendingRequests
      /\ old \in PendingRequest
      /\ pendingRequests' = [pendingRequests EXCEPT ![id] = new]
      /\ approvedAuthorization' =
           IF approves THEN approvedAuthorization \cup {<<id, old.answer>>}
                       ELSE approvedAuthorization
  <2>1. id \in DOMAIN pendingRequests /\ old \in PendingRequest
    BY DEF HandleOracleFulfillment, VerifierTypeOK
  <2>2. pendingRequests' = [pendingRequests EXCEPT ![id] = new]
    BY <2>1 DEF HandleOracleFulfillment, VerifierTypeOK, PendingRequest
  <2>3. approvedAuthorization' =
           IF approves THEN approvedAuthorization \cup {<<id, old.answer>>}
                       ELSE approvedAuthorization
    BY DEF HandleOracleFulfillment
  <2> QED BY <2>1, <2>2, <2>3
<1>2. approves => old.answer \in DonApproves
  BY DEF Approves
<1>3. /\ new.answer = old.answer /\ new.fulfilled
      /\ new.approved <=> old.approved \/ approves
  <2> HIDE DEF old, approves
  <2> QED BY <1>1 DEF PendingRequest
<1>4. /\ DOMAIN pendingRequests' = DOMAIN pendingRequests
      /\ pendingRequests'[id] = new
      /\ \A other \in DOMAIN pendingRequests :
           other # id => pendingRequests'[other] = pendingRequests[other]
  <2> HIDE DEF new
  <2> QED BY <1>1
<1> HIDE DEF new, approves
<1>5. ASSUME NEW other \in 1 .. MaxRequests, NEW answer \in Answers
      PROVE  <<other, answer>> \in approvedAuthorization'
               <=> /\ other \in DOMAIN pendingRequests'
                   /\ pendingRequests'[other].answer = answer
                   /\ pendingRequests'[other].approved
  <2>1. <<other, answer>> \in approvedAuthorization
          <=> /\ other \in DOMAIN pendingRequests
              /\ pendingRequests[other].answer = answer
              /\ pendingRequests[other].approved
    BY DEF ApprovalsAgree
  <2>2. CASE other = id
    BY <2>1, <2>2, <1>1, <1>3, <1>4
  <2>3. CASE other # id
    BY <2>1, <2>3, <1>1, <1>4
  <2> QED BY <2>2, <2>3
<1>6. ASSUME NEW other \in DOMAIN pendingRequests', pendingRequests'[other].approved
      PROVE  /\ pendingRequests'[other].fulfilled
             /\ pendingRequests'[other].answer \in DonApproves
  <2>1. pendingRequests[other].approved =>
          pendingRequests[other].fulfilled /\ pendingRequests[other].answer \in DonApproves
    BY <1>4 DEF ApprovalsAgree
  <2>2. CASE other = id
    BY <2>1, <2>2, <1>2, <1>3, <1>4, <1>6
  <2>3. CASE other # id
    BY <2>1, <2>3, <1>4, <1>6
  <2> QED BY <2>2, <2>3
<1> QED BY <1>5, <1>6 DEF ApprovalsAgree

\* So the two records of an approval agree after every step.
LEMMA ApprovalsStep ==
  EvmTypeOK /\ ApprovalsAgree /\ [Next]_vars => ApprovalsAgree'
<1> SUFFICES ASSUME VerifierTypeOK, ApprovalsAgree, [Next]_vars
             PROVE  ApprovalsAgree'
  BY DEF EvmTypeOK
<1>1. CASE Ask
  BY <1>1, RequestKeepsApprovals DEF Ask
<1>2. CASE Fulfil
  BY <1>2, FulfilKeepsApprovals DEF Fulfil
<1>3. CASE ConfigureVerifier
  BY <1>3 DEF ConfigureVerifier, SetFunctionsConfig, SetAuthorizedRequester,
     ApprovalsAgree
<1>4. CASE UNCHANGED verifierVars
  BY <1>4 DEF verifierVars, ApprovalsAgree
<1> QED BY <1>1, <1>2, <1>3, <1>4, VerifierFrame

\* The verifier's two records of an approval always agree and rest on an answer
\* of the DON, however late, often or wrongly the router calls back.
THEOREM ApprovalsAlwaysAgree == Spec => []ApprovalsAgree
<1>1. Init => EvmTypeOK /\ ApprovalsAgree
  BY InitType DEF Init, ApprovalsAgree
<1>2. EvmTypeOK /\ ApprovalsAgree /\ [Next]_vars => (EvmTypeOK /\ ApprovalsAgree)'
  BY NextType, ApprovalsStep
<1> QED BY <1>1, <1>2, PTL DEF Spec

\* What verify*Authorization lets through was approved by the DON, in time.
LEMMA VerifiedIsApproved ==
  ASSUME VerifierTypeOK, ApprovalsAgree, NEW kind, NEW auth, NEW id,
         Verifies(kind, auth, id)
  PROVE  <<kind, auth>> \in DonApproves /\ now <= auth.deadline
  BY DEF Verifies, ApprovalsAgree

\* The replay flags are never cleared.
LEMMA FlagsOnlyGrow ==
  [Next]_vars => /\ depositConsumed \subseteq depositConsumed'
                 /\ utxoConsumed \subseteq utxoConsumed'
<1> SUFFICES ASSUME [Next]_vars
             PROVE  /\ depositConsumed \subseteq depositConsumed'
                    /\ utxoConsumed \subseteq utxoConsumed'
  OBVIOUS
<1>1. CASE Deposit
  BY <1>1 DEF Deposit, CreateDepositIntent
<1>2. CASE ConsumeElsewhere
  BY <1>2 DEF ConsumeElsewhere, ConsumeDeposit
<1>3. CASE MintFlow
  BY <1>3 DEF MintFlow, MintWithAuthorization, ConsumeDeposit
<1>4. CASE ConfigureRegistry
  BY <1>4 DEF ConfigureRegistry, SetAuthorizedConsumer, LockAuthorizedConsumer
<1>5. CASE UNCHANGED registryVars
  BY <1>5 DEF registryVars
<1> QED BY <1>1, <1>2, <1>3, <1>4, <1>5, RegistryFrame

\* What one mint does to the events and to the replay flags.
LEMMA MintFlowEffect ==
  ASSUME MintFlow
  PROVE  \E auth \in MintAuths, id \in 1 .. MaxRequests :
           /\ Verifies("MINT", auth, id)
           /\ auth.recipient = auth.deposit.recipient
           /\ AmountAllowed(auth.deposit, auth.sats)
           /\ now <= auth.deposit.expiry
           /\ minted' = minted \cup {[auth |-> auth, at |-> now]}
           /\ auth.deposit \notin depositConsumed /\ auth.utxo \notin utxoConsumed
           /\ auth.deposit \in depositConsumed' /\ auth.utxo \in utxoConsumed'
           /\ Mint("MintGateway", auth.recipient, auth.sats)
  BY DEF MintFlow, MintWithAuthorization, AuthorizationFits, ConsumeDeposit

\* Only MintFlow adds a MintExecuted event.
LEMMA MintedFrame == [Next]_vars => MintFlow \/ UNCHANGED minted
  BY MintFrame DEF ConfigureMintGateway, SetMintPaused, SetMinimumConfirmations,
     SetMintLimit, mintVars

DepositInv == MintsAreConsumed /\ OneMintPerDeposit

\* That mints are flagged and that they are unique is inductive together.
LEMMA DepositStep == DepositInv /\ [Next]_vars => DepositInv'
<1> SUFFICES ASSUME DepositInv, [Next]_vars PROVE DepositInv'
  OBVIOUS
<1>1. CASE MintFlow
  <2>1. PICK auth \in MintAuths :
          /\ minted' = minted \cup {[auth |-> auth, at |-> now]}
          /\ auth.deposit \notin depositConsumed /\ auth.utxo \notin utxoConsumed
          /\ auth.deposit \in depositConsumed' /\ auth.utxo \in utxoConsumed'
    BY <1>1, MintFlowEffect
  <2> DEFINE new == [auth |-> auth, at |-> now]
  <2>2. new.auth = auth
    OBVIOUS
  <2> HIDE DEF new
  <2>3. minted' = minted \cup {new}
    BY <2>1 DEF new
  <2>4. MintsAreConsumed'
    BY <2>1, <2>2, <2>3, FlagsOnlyGrow DEF DepositInv, MintsAreConsumed
  <2>5. \A m \in minted : m.auth.deposit # auth.deposit /\ m.auth.utxo # auth.utxo
    BY <2>1 DEF DepositInv, MintsAreConsumed
  <2>6. OneMintPerDeposit'
    BY <2>2, <2>3, <2>5 DEF DepositInv, OneMintPerDeposit
  <2> QED BY <2>4, <2>6 DEF DepositInv
<1>2. CASE UNCHANGED minted
  BY <1>2, FlagsOnlyGrow DEF DepositInv, MintsAreConsumed, OneMintPerDeposit
<1> QED BY <1>1, <1>2, MintedFrame

\* No deposit and no Bitcoin output is minted twice: the replay flags of the
\* registry cover every mint there was, so a second one for the same deposit or
\* output reverts, whatever authorizations and approvals there are.
THEOREM DepositsMintOnce == Spec => []OneMintPerDeposit
<1>1. Init => DepositInv
  BY DEF Init, DepositInv, MintsAreConsumed, OneMintPerDeposit
<1>2. DepositInv => OneMintPerDeposit
  BY DEF DepositInv
<1> QED BY <1>1, <1>2, DepositStep, PTL DEF Spec

\* Every mint there was has its replay flags set.
THEOREM MintsConsume == Spec => []MintsAreConsumed
<1>1. Init => DepositInv
  BY DEF Init, DepositInv, MintsAreConsumed, OneMintPerDeposit
<1>2. DepositInv => MintsAreConsumed
  BY DEF DepositInv
<1> QED BY <1>1, <1>2, DepositStep, PTL DEF Spec

AuthorizedInv == EvmTypeOK /\ ApprovalsAgree /\ MintAuthorized

\* A new mint is authorized as MintAuthorized says; old ones stay so.
LEMMA MintAuthorizedStep == AuthorizedInv /\ [Next]_vars => MintAuthorized'
<1> SUFFICES ASSUME AuthorizedInv, [Next]_vars PROVE MintAuthorized'
  OBVIOUS
<1>1. CASE MintFlow
  <2>1. PICK auth \in MintAuths, id \in 1 .. MaxRequests :
          /\ Verifies("MINT", auth, id)
          /\ auth.recipient = auth.deposit.recipient
          /\ AmountAllowed(auth.deposit, auth.sats)
          /\ now <= auth.deposit.expiry
          /\ minted' = minted \cup {[auth |-> auth, at |-> now]}
    BY <1>1, MintFlowEffect
  <2>2. <<"MINT", auth>> \in DonApproves /\ now <= auth.deadline
    BY <2>1, VerifiedIsApproved DEF AuthorizedInv, EvmTypeOK
  <2> DEFINE new == [auth |-> auth, at |-> now]
  <2>3. new.auth = auth /\ new.at = now
    OBVIOUS
  <2> HIDE DEF new
  <2>4. minted' = minted \cup {new}
    BY <2>1 DEF new
  <2> QED BY <2>1, <2>2, <2>3, <2>4 DEF AuthorizedInv, MintAuthorized, AmountAllowed
<1>2. CASE UNCHANGED minted
  BY <1>2 DEF AuthorizedInv, MintAuthorized, AmountAllowed
<1> QED BY <1>1, <1>2, MintedFrame

\* Every mint is of a struct the DON approved, before its deadlines, to the
\* recipient and within the amounts of its deposit intent.
THEOREM MintsAreAuthorized == Spec => []MintAuthorized
<1>1. Init => AuthorizedInv
  BY InitType DEF Init, AuthorizedInv, ApprovalsAgree, MintAuthorized
<1>2. AuthorizedInv /\ [Next]_vars => AuthorizedInv'
  BY NextType, ApprovalsStep, MintAuthorizedStep DEF AuthorizedInv
<1>3. AuthorizedInv => MintAuthorized
  BY DEF AuthorizedInv
<1> QED BY <1>1, <1>2, <1>3, PTL DEF Spec

-----------------------------------------------------------------------------
(* Redeems.                                                                 *)

\* What each action does to the redeem records.
LEMMA RedeemEffects ==
  ASSUME BurnTypeOK, [Next]_vars
  PROVE  \/ \E r \in RedeemRequest :
              /\ r \notin DOMAIN redeemState
              /\ redeemState' = Extended(redeemState, r, "BURNED")
              /\ UNCHANGED redeemIdConsumed
         \/ \E auth \in ReleaseAuths, id \in 1 .. MaxRequests :
              /\ MayConsume(auth) /\ MatchesRequest(auth)
              /\ Verifies("RELEASE", auth, id)
              /\ redeemState' = [redeemState EXCEPT ![auth.request] = "CONSUMED"]
              /\ redeemIdConsumed' = redeemIdConsumed \cup {auth.redeemId}
         \/ \E r \in DOMAIN redeemState, state \in Resolutions :
              /\ AllowedTransition(redeemState[r], state)
              /\ redeemState' = [redeemState EXCEPT ![r] = state]
              /\ UNCHANGED redeemIdConsumed
         \/ UNCHANGED <<redeemState, redeemIdConsumed>>
<1>1. CASE BurnFlow
  <2>1. PICK caller \in Users, in \in BurnInputs : Burn(caller, in)
    BY <1>1 DEF BurnFlow
  <2>2. UNCHANGED redeemIdConsumed
    BY <2>1 DEF Burn
  <2> QED BY <2>1, <2>2, NewRequest
<1>2. CASE Complete
  BY <1>2 DEF Complete, CompleteRedeemWithAuthorization
<1>3. CASE Resolve
  BY <1>3 DEF Resolve, SetRedeemState
<1>4. CASE ConfigureBurnGateway
  BY <1>4 DEF ConfigureBurnGateway, SetBurnPaused, SetRedeemLimit
<1>5. CASE UNCHANGED burnVars
  BY <1>5 DEF burnVars
<1> QED BY <1>1, <1>2, <1>3, <1>4, <1>5, BurnFrame

ReleaseInv == EvmTypeOK /\ ApprovalsAgree /\ ReleaseAuthorized

\* A new request is not consumed: no redeemId of it can have been.
LEMMA BurnKeepsRelease ==
  ASSUME ReleaseAuthorized, NEW r, r \notin DOMAIN redeemState,
         redeemState' = Extended(redeemState, r, "BURNED"),
         UNCHANGED redeemIdConsumed
  PROVE  ReleaseAuthorized'
<1>1. /\ Requests' = Requests \cup {r} /\ redeemState'[r] = "BURNED"
      /\ \A q \in Requests : redeemState'[q] = redeemState[q]
  BY DEF Extended, Requests
<1>2. \A id \in redeemIdConsumed' :
        id[2] \in Requests' /\ redeemState'[id[2]] = "CONSUMED"
  BY <1>1 DEF ReleaseAuthorized
<1>3. \A id, other \in redeemIdConsumed' : id[2] = other[2] => id = other
  BY DEF ReleaseAuthorized
<1>4. ASSUME NEW q \in Requests', redeemState'[q] = "CONSUMED"
      PROVE  \E auth \in ReleaseAuths :
               /\ <<"RELEASE", auth>> \in DonApproves
               /\ auth.redeemId \in redeemIdConsumed'
               /\ auth.request = q /\ MatchesRequest(auth)
  <2>1. q \in Requests /\ redeemState[q] = "CONSUMED"
    BY <1>1, <1>4
  <2> QED BY <2>1 DEF ReleaseAuthorized
<1> QED BY <1>2, <1>3, <1>4 DEF ReleaseAuthorized, MatchesRequest

\* A completion consumes the one redeemId of a request that had none.
LEMMA CompleteKeepsRelease ==
  ASSUME ReleaseAuthorized, BurnTypeOK, NEW auth \in ReleaseAuths,
         <<"RELEASE", auth>> \in DonApproves,
         MayConsume(auth), MatchesRequest(auth),
         redeemState' = [redeemState EXCEPT ![auth.request] = "CONSUMED"],
         redeemIdConsumed' = redeemIdConsumed \cup {auth.redeemId}
  PROVE  ReleaseAuthorized'
<1>1. /\ auth.request \in Requests /\ redeemState[auth.request] = "BURNED"
      /\ auth.redeemId[2] = auth.request
  BY DEF MayConsume, MatchesRequest, Requests
<1>2. /\ Requests' = Requests
      /\ redeemState'[auth.request] = "CONSUMED"
      /\ \A q \in Requests : q # auth.request => redeemState'[q] = redeemState[q]
  BY <1>1 DEF Requests, BurnTypeOK
<1>3. \A id \in redeemIdConsumed : id[2] # auth.request
  BY <1>1 DEF ReleaseAuthorized
<1>4. \A id \in redeemIdConsumed' :
        id[2] \in Requests' /\ redeemState'[id[2]] = "CONSUMED"
  BY <1>1, <1>2, <1>3 DEF ReleaseAuthorized
<1>5. \A id, other \in redeemIdConsumed' : id[2] = other[2] => id = other
  BY <1>1, <1>3 DEF ReleaseAuthorized
<1>6. ASSUME NEW q \in Requests', redeemState'[q] = "CONSUMED"
      PROVE  \E a \in ReleaseAuths :
               /\ <<"RELEASE", a>> \in DonApproves
               /\ a.redeemId \in redeemIdConsumed'
               /\ a.request = q /\ MatchesRequest(a)
  <2>1. CASE q = auth.request
    BY <2>1
  <2>2. CASE q # auth.request
    <3>1. q \in Requests /\ redeemState[q] = "CONSUMED"
      BY <2>2, <1>2, <1>6
    <3> QED BY <3>1 DEF ReleaseAuthorized
  <2> QED BY <2>1, <2>2
<1> QED BY <1>4, <1>5, <1>6 DEF ReleaseAuthorized, MatchesRequest

\* The owner neither makes a redeem CONSUMED nor takes it out of CONSUMED.
LEMMA ResolveKeepsRelease ==
  ASSUME ReleaseAuthorized, BurnTypeOK, NEW r \in DOMAIN redeemState, NEW state,
         AllowedTransition(redeemState[r], state),
         redeemState' = [redeemState EXCEPT ![r] = state],
         UNCHANGED redeemIdConsumed
  PROVE  ReleaseAuthorized'
<1>1. redeemState[r] # "CONSUMED" /\ state # "CONSUMED"
  BY DEF AllowedTransition
<1>2. /\ Requests' = Requests /\ redeemState'[r] = state
      /\ \A q \in Requests : q # r => redeemState'[q] = redeemState[q]
  BY DEF Requests, BurnTypeOK
<1>3. \A q \in Requests : redeemState'[q] = "CONSUMED" <=> redeemState[q] = "CONSUMED"
  BY <1>1, <1>2
<1> QED BY <1>2, <1>3 DEF ReleaseAuthorized, MatchesRequest

\* ReleaseAuthorized, with what it needs, is inductive.
LEMMA ReleaseStep == ReleaseInv /\ [Next]_vars => ReleaseAuthorized'
<1> SUFFICES ASSUME ReleaseInv, [Next]_vars PROVE ReleaseAuthorized'
  OBVIOUS
<1>1. ReleaseAuthorized /\ BurnTypeOK /\ VerifierTypeOK /\ ApprovalsAgree
  BY DEF ReleaseInv, EvmTypeOK
<1>2. ASSUME NEW auth \in ReleaseAuths, NEW id, MayConsume(auth),
             MatchesRequest(auth), Verifies("RELEASE", auth, id),
             redeemState' = [redeemState EXCEPT ![auth.request] = "CONSUMED"],
             redeemIdConsumed' = redeemIdConsumed \cup {auth.redeemId}
      PROVE  ReleaseAuthorized'
  BY <1>1, <1>2, VerifiedIsApproved, CompleteKeepsRelease
<1>3. CASE UNCHANGED <<redeemState, redeemIdConsumed>>
  BY <1>1, <1>3 DEF ReleaseAuthorized, Requests, MatchesRequest
<1> QED BY <1>1, <1>2, <1>3, RedeemEffects, BurnKeepsRelease, ResolveKeepsRelease

\* A redeem is CONSUMED exactly by one redeemId, under a release authorization of
\* its own terms the DON approved, whoever submits it and whatever the owner does.
THEOREM ReleasesAreAuthorized == Spec => []ReleaseAuthorized
<1>1. Init => ReleaseInv
  BY InitType DEF Init, ReleaseInv, ApprovalsAgree, ReleaseAuthorized, Requests
<1>2. ReleaseInv /\ [Next]_vars => ReleaseInv'
  BY NextType, ApprovalsStep, ReleaseStep DEF ReleaseInv
<1>3. ReleaseInv => ReleaseAuthorized
  BY DEF ReleaseInv
<1> QED BY <1>1, <1>2, <1>3, PTL DEF Spec

-----------------------------------------------------------------------------
(* What a step may never do.                                                *)

\* A redeem that was paid, cancelled or resolved by hand is never open again.
THEOREM RedeemsAreFinal == Spec => RedeemFinality
<1> DEFINE Step ==
      \A r \in Requests :
        /\ r \in DOMAIN redeemState'
        /\ redeemState[r] \in {"CONSUMED", "MANUALLY_RESOLVED"} =>
             redeemState'[r] = redeemState[r]
        /\ redeemState[r] = "CANCELLED" =>
             redeemState'[r] \in {"CANCELLED", "MANUALLY_RESOLVED"}
<1>1. ASSUME EvmTypeOK, [Next]_vars PROVE Step
  <2>1. BurnTypeOK
    BY <1>1 DEF EvmTypeOK
  <2>2. ASSUME NEW r, r \notin DOMAIN redeemState,
               redeemState' = Extended(redeemState, r, "BURNED")
        PROVE  Step
    BY <2>2 DEF Extended, Requests
  <2>3. ASSUME NEW auth \in ReleaseAuths, MayConsume(auth),
               redeemState' = [redeemState EXCEPT ![auth.request] = "CONSUMED"]
        PROVE  Step
    BY <2>1, <2>3 DEF MayConsume, Requests, BurnTypeOK
  <2>4. ASSUME NEW r \in DOMAIN redeemState, NEW state,
               AllowedTransition(redeemState[r], state),
               redeemState' = [redeemState EXCEPT ![r] = state]
        PROVE  Step
    BY <2>1, <2>4 DEF AllowedTransition, Requests, BurnTypeOK
  <2>5. CASE UNCHANGED <<redeemState, redeemIdConsumed>>
    BY <2>5 DEF Requests
  <2> QED BY <1>1, <2>1, <2>2, <2>3, <2>4, <2>5, RedeemEffects
<1>2. EvmTypeOK /\ [Next]_vars => [Step]_vars
  BY <1>1
<1> QED BY <1>2, EvmTypeCorrect, PTL DEF Spec, RedeemFinality

\* A locked minter or consumer stays the one that was locked.
LEMMA LocksStay ==
  [Next]_vars => /\ lockedMinter # NoOne => lockedMinter' = lockedMinter
                 /\ lockedConsumer # NoOne => lockedConsumer' = lockedConsumer
<1>1. [Next]_vars => (lockedMinter # NoOne => lockedMinter' = lockedMinter)
  BY TokenFrame DEF Hold, Transfer, TransferFrom, Allow, Approve, IssueElsewhere,
     Mint, DestroyElsewhere, BurnFrom, MintFlow, MintWithAuthorization, BurnFlow,
     Burn, ConfigureToken, SetMinter, LockMinter, tokenVars
<1>2. [Next]_vars => (lockedConsumer # NoOne => lockedConsumer' = lockedConsumer)
  BY RegistryFrame DEF Deposit, CreateDepositIntent, ConsumeElsewhere,
     ConsumeDeposit, MintFlow, MintWithAuthorization, ConfigureRegistry,
     SetAuthorizedConsumer, LockAuthorizedConsumer, registryVars
<1> QED BY <1>1, <1>2

OwnerInv == /\ OwnableTypeOK
            /\ \A c \in Contracts : owner[c] = NoOne => pendingOwner[c] = NoOne

\* Nobody waits to take over a contract that was renounced.
LEMMA OwnerStep ==
  OwnerInv /\ [Next]_vars =>
    /\ OwnerInv'
    /\ \A c \in Contracts : owner[c] = NoOne => owner'[c] = NoOne
<1> SUFFICES ASSUME OwnerInv, [Next]_vars
             PROVE  /\ OwnerInv'
                    /\ \A c \in Contracts : owner[c] = NoOne => owner'[c] = NoOne
  OBVIOUS
<1>1. NoOne \notin Users /\ OwnableTypeOK'
  BY AddressAssumption, OwnableType DEF OwnerInv, Addresses
<1>2. CASE Govern
  <2>1. PICK c \in Governed, caller \in Users :
          \/ \E newOwner \in Users : TransferOwnership(c, caller, newOwner)
          \/ CancelOwnershipTransfer(c, caller)
          \/ RenounceOwnership(c, caller)
          \/ AcceptOwnership(c, caller)
    BY <1>2 DEF Govern
  <2>2. c \in Contracts
    BY BridgeAssumption
  <2>3. CASE \E newOwner \in Users : TransferOwnership(c, caller, newOwner)
    BY <1>1, <2>2, <2>3 DEF TransferOwnership, OnlyOwner, OwnerInv, OwnableTypeOK
  <2>4. CASE CancelOwnershipTransfer(c, caller)
    BY <1>1, <2>2, <2>4 DEF CancelOwnershipTransfer, OnlyOwner, OwnerInv, OwnableTypeOK
  <2>5. CASE RenounceOwnership(c, caller)
    BY <1>1, <2>2, <2>5 DEF RenounceOwnership, OnlyOwner, OwnerInv, OwnableTypeOK
  <2>6. CASE AcceptOwnership(c, caller)
    BY <1>1, <2>2, <2>6 DEF AcceptOwnership, OwnerInv, OwnableTypeOK
  <2> QED BY <2>1, <2>3, <2>4, <2>5, <2>6
<1>3. CASE UNCHANGED ownableVars
  BY <1>1, <1>3 DEF ownableVars, OwnerInv
<1> QED BY <1>2, <1>3, OwnableFrame

\* Nothing that was given away comes back: only an owner locks or starts a
\* transfer, and renouncing drops a transfer that was pending.
THEOREM RolesAreFinal == Spec => RolesFinal
<1> DEFINE Step ==
      /\ lockedMinter # NoOne => lockedMinter' = lockedMinter
      /\ lockedConsumer # NoOne => lockedConsumer' = lockedConsumer
      /\ \A c \in Contracts : owner[c] = NoOne => owner'[c] = NoOne
<1>1. Init => OwnerInv
  BY BridgeAssumption DEF Init, OwnerInv, OwnableTypeOK
<1>2. OwnerInv /\ [Next]_vars => OwnerInv' /\ [Step]_vars
  BY OwnerStep, LocksStay
<1> QED BY <1>1, <1>2, PTL DEF Spec, RolesFinal

\* Locked to the gateway, nobody else mints and nobody else consumes a deposit.
LEMMA LockedDownStep ==
  ASSUME EvmTypeOK, MintsAreConsumed, [Next]_vars,
         lockedMinter = "MintGateway", lockedConsumer = "MintGateway"
  PROVE  /\ totalSupply' > totalSupply =>
              \E m \in minted' \ minted :
                /\ totalSupply' = totalSupply + m.auth.sats
                /\ m.auth.deposit \in depositConsumed' \ depositConsumed
         /\ depositConsumed' # depositConsumed => minted' # minted
<1>1. "MintGateway" \notin Users /\ NoOne # "MintGateway" /\ totalSupply \in Int
  BY AddressAssumption DEF Addresses, Contracts, EvmTypeOK, TokenTypeOK
<1>2. CASE MintFlow
  <2>1. PICK auth \in MintAuths :
          /\ minted' = minted \cup {[auth |-> auth, at |-> now]}
          /\ auth.deposit \notin depositConsumed
          /\ auth.deposit \in depositConsumed'
          /\ totalSupply' = totalSupply + auth.sats
    BY <1>2, MintFlowEffect DEF Mint
  <2> DEFINE new == [auth |-> auth, at |-> now]
  <2>2. new.auth = auth
    OBVIOUS
  <2>3. new \in minted' /\ new \notin minted
    BY <2>1, <2>2 DEF MintsAreConsumed
  <2> QED BY <2>1, <2>2, <2>3
<1>3. CASE ~MintFlow
  <2>1. ~(totalSupply' > totalSupply)
    <3>1. CASE Hold
      BY <3>1, <1>1 DEF Hold, Transfer, TransferFrom
    <3>2. CASE Allow
      BY <3>2, <1>1 DEF Allow, Approve
    <3>3. CASE IssueElsewhere
      BY <3>3, <1>1 DEF IssueElsewhere, Mint, MayMint
    <3>4. CASE DestroyElsewhere
      BY <3>4, <1>1, BridgeAssumption DEF DestroyElsewhere, BurnFrom
    <3>5. CASE BurnFlow
      BY <3>5, <1>1, BurnInputFields DEF BurnFlow, Burn, BurnFrom
    <3>6. CASE ConfigureToken
      BY <3>6, <1>1 DEF ConfigureToken, SetMinter, LockMinter
    <3>7. CASE UNCHANGED tokenVars
      BY <3>7, <1>1 DEF tokenVars
    <3> QED BY <1>3, <3>1, <3>2, <3>3, <3>4, <3>5, <3>6, <3>7, TokenFrame
  <2>2. depositConsumed' = depositConsumed
    BY <1>1, <1>3, RegistryFrame
       DEF Deposit, CreateDepositIntent, ConsumeElsewhere, ConsumeDeposit,
       OnlyAuthorizedConsumer, ConfigureRegistry, SetAuthorizedConsumer,
       LockAuthorizedConsumer, registryVars
  <2> QED BY <2>1, <2>2
<1> QED BY <1>2, <1>3

\* With the gateway locked in as minter and consumer, supply grows only with a
\* fresh deposit, and a deposit is used up only by minting it.
THEOREM LockedDownHolds == Spec => LockedDown
<1> DEFINE Step ==
      lockedMinter = "MintGateway" /\ lockedConsumer = "MintGateway" =>
        /\ totalSupply' > totalSupply =>
             \E m \in minted' \ minted :
               /\ totalSupply' = totalSupply + m.auth.sats
               /\ m.auth.deposit \in depositConsumed' \ depositConsumed
        /\ depositConsumed' # depositConsumed => minted' # minted
<1>1. EvmTypeOK /\ MintsAreConsumed /\ [Next]_vars => [Step]_vars
  BY LockedDownStep
<1> QED BY <1>1, EvmTypeCorrect, MintsConsume, PTL DEF Spec, LockedDown

-----------------------------------------------------------------------------
(* The contracts implement the abstract ledger.                             *)

\* Which abstract variables each action may change.
LEMMA SealStep ==
  [Next]_vars => \/ UNCHANGED lockedMinter
                 \/ /\ ConfigureToken /\ lockedMinter = NoOne
                    /\ UNCHANGED totalSupply
  BY TokenFrame DEF Hold, Transfer, TransferFrom, Allow, Approve, IssueElsewhere,
     Mint, DestroyElsewhere, BurnFrom, MintFlow, MintWithAuthorization, BurnFlow,
     Burn, ConfigureToken, SetMinter, LockMinter, tokenVars

\* A mint of the gateway is a mint of the ledger.
LEMMA MintRefines ==
  ASSUME MintsAreConsumed, MintFlow
  PROVE  Ledger!Next
<1>1. PICK auth \in MintAuths :
        /\ minted' = minted \cup {[auth |-> auth, at |-> now]}
        /\ auth.deposit \notin depositConsumed /\ auth.utxo \notin utxoConsumed
        /\ totalSupply' = totalSupply + auth.sats
        /\ UNCHANGED lockedMinter
  BY MintFlowEffect DEF Mint
<1>2. UNCHANGED redeemState
  BY DEF MintFlow, burnVars
<1>3. /\ auth.deposit \in Intents /\ auth.utxo \in Utxos /\ auth.sats \in 0 .. MaxUint
  BY MintAuthFields
<1> DEFINE Image(m) == [deposit |-> m.auth.deposit, utxo |-> m.auth.utxo,
                        sats |-> m.auth.sats]
           new == [auth |-> auth, at |-> now]
<1>4. {Image(m) : m \in minted'} = {Image(m) : m \in minted} \cup {Image(new)}
  <2> HIDE DEF new, Image
  <2>1. minted' = minted \cup {new}
    BY <1>1 DEF new
  <2> QED BY <2>1
<1>5. Image(new) = [deposit |-> auth.deposit, utxo |-> auth.utxo, sats |-> auth.sats]
  OBVIOUS
<1>6. \A i \in {Image(m) : m \in minted} :
        i.deposit # auth.deposit /\ i.utxo # auth.utxo
  BY <1>1 DEF MintsAreConsumed
<1>7. Ledger!Mint(auth.deposit, auth.utxo, auth.sats)
  BY <1>1, <1>2, <1>4, <1>5, <1>6 DEF Ledger!Mint
<1> QED BY <1>3, <1>7 DEF Ledger!Next

\* A burn is a burn of the ledger.
LEMMA BurnRefines ==
  ASSUME BurnTypeOK, BurnFlow
  PROVE  Ledger!Next
<1>1. PICK caller \in Users, in \in BurnInputs : Burn(caller, in)
  BY DEF BurnFlow
<1> DEFINE r == RequestOf(caller, in)
<1>2. /\ r \notin DOMAIN redeemState /\ r.amount = in.amount
      /\ redeemState' = Extended(redeemState, r, "BURNED")
  BY <1>1, NewRequest
<1>3. totalSupply' = totalSupply - r.amount /\ UNCHANGED lockedMinter
  BY <1>1, <1>2 DEF Burn, BurnFrom
<1>4. UNCHANGED minted
  BY DEF BurnFlow, mintVars
<1> HIDE DEF r
<1>5. r \in DOMAIN redeemState'
  BY <1>2 DEF Extended
<1>6. Ledger!Burn(r)
  BY <1>2, <1>3, <1>4 DEF Ledger!Burn, Extended
<1> QED BY <1>5, <1>6 DEF Ledger!Next

\* A completion and an owner's resolution settle a request of the ledger.
LEMMA SettleRefines ==
  ASSUME BurnTypeOK, Complete \/ Resolve
  PROVE  Ledger!Next
<1>1. UNCHANGED <<totalSupply, lockedMinter, minted>>
  BY DEF Complete, Resolve, OnlyBurnGateway, tokenVars, mintVars
<1>2. CASE Complete
  <2>1. PICK auth \in ReleaseAuths :
          /\ MayConsume(auth)
          /\ redeemState' = [redeemState EXCEPT ![auth.request] = "CONSUMED"]
    BY <1>2 DEF Complete, CompleteRedeemWithAuthorization
  <2>2. Ledger!Settle(auth.request, "CONSUMED") /\ auth.request \in DOMAIN redeemState
    BY <1>1, <2>1 DEF Ledger!Settle, MayConsume
  <2> QED BY <2>2 DEF Ledger!Next
<1>3. CASE Resolve
  <2>1. PICK r \in DOMAIN redeemState, state \in Resolutions :
          /\ AllowedTransition(redeemState[r], state)
          /\ redeemState' = [redeemState EXCEPT ![r] = state]
    BY <1>3 DEF Resolve, SetRedeemState
  <2>2. Ledger!Settle(r, state) /\ state \in {"CONSUMED", "CANCELLED", "MANUALLY_RESOLVED"}
    BY <1>1, <2>1 DEF Ledger!Settle, AllowedTransition
  <2> QED BY <2>2 DEF Ledger!Next
<1> QED BY <1>2, <1>3

\* What the holders, foreign minters and spenders do moves the supply or nothing.
LEMMA TokenRefines ==
  ASSUME TokenTypeOK,
         Hold \/ Allow \/ IssueElsewhere \/ DestroyElsewhere \/ ConfigureToken
  PROVE  Ledger!Next \/ UNCHANGED Ledger!ledgerVars
<1>1. UNCHANGED <<minted, redeemState>>
  BY DEF Hold, Allow, IssueElsewhere, DestroyElsewhere, ConfigureToken, OnlyToken,
     mintVars, burnVars
<1>2. CASE Hold \/ Allow
  BY <1>1, <1>2 DEF Hold, Transfer, TransferFrom, Allow, Approve, Ledger!ledgerVars
<1>3. CASE IssueElsewhere
  <2>1. PICK amount \in Nat : totalSupply' = totalSupply + amount
    BY <1>3, BridgeAssumption DEF IssueElsewhere, Mint
  <2>2. lockedMinter # "MintGateway" /\ UNCHANGED lockedMinter
    BY <1>3, AddressAssumption
       DEF IssueElsewhere, Mint, MayMint, Contracts, Addresses
  <2>3. CASE amount = 0
    BY <1>1, <2>1, <2>2, <2>3 DEF TokenTypeOK, Ledger!ledgerVars
  <2>4. CASE amount # 0
    <3>1. totalSupply' > totalSupply
      BY <2>1, <2>4 DEF TokenTypeOK
    <3>2. Ledger!Issue
      BY <1>1, <2>2, <3>1 DEF Ledger!Issue
    <3> QED BY <3>2 DEF Ledger!Next
  <2> QED BY <2>3, <2>4
<1>4. CASE DestroyElsewhere
  <2>1. PICK amount \in Nat : totalSupply' = totalSupply - amount
    BY <1>4, BridgeAssumption DEF DestroyElsewhere, BurnFrom
  <2>2. UNCHANGED lockedMinter
    BY <1>4 DEF DestroyElsewhere, BurnFrom
  <2>3. CASE amount = 0
    BY <1>1, <2>1, <2>2, <2>3 DEF TokenTypeOK, Ledger!ledgerVars
  <2>4. CASE amount # 0
    <3>1. totalSupply' < totalSupply
      BY <2>1, <2>4 DEF TokenTypeOK
    <3>2. Ledger!Destroy
      BY <1>1, <2>2, <3>1 DEF Ledger!Destroy
    <3> QED BY <3>2 DEF Ledger!Next
  <2> QED BY <2>3, <2>4
<1>5. CASE ConfigureToken
  <2>1. PICK minter \in Candidates :
          \/ UNCHANGED <<totalSupply, lockedMinter>>
          \/ lockedMinter = NoOne /\ lockedMinter' = minter /\ UNCHANGED totalSupply
    BY <1>5 DEF ConfigureToken, SetMinter, LockMinter
  <2>2. NoOne # "MintGateway"
    BY AddressAssumption DEF Addresses, Contracts
  <2>3. CASE UNCHANGED <<totalSupply, lockedMinter>>
    BY <1>1, <2>3 DEF Ledger!ledgerVars
  <2>4. CASE lockedMinter = NoOne /\ lockedMinter' = minter /\ UNCHANGED totalSupply
    <3>1. CASE minter = "MintGateway"
      <4>1. Ledger!Seal
        BY <1>1, <2>2, <2>4, <3>1 DEF Ledger!Seal
      <4> QED BY <4>1 DEF Ledger!Next
    <3>2. CASE minter # "MintGateway"
      BY <1>1, <2>2, <2>4, <3>2 DEF Ledger!ledgerVars
    <3> QED BY <3>1, <3>2
  <2> QED BY <2>1, <2>3, <2>4
<1> QED BY <1>2, <1>3, <1>4, <1>5

\* Every step of the contracts is a step of the ledger or none.
LEMMA StepRefines ==
  ASSUME EvmTypeOK, MintsAreConsumed, [Next]_vars
  PROVE  [Ledger!Next]_(Ledger!ledgerVars)
<1>1. TokenTypeOK /\ BurnTypeOK
  BY DEF EvmTypeOK
<1>2. CASE MintFlow
  BY <1>2, MintRefines
<1>3. CASE BurnFlow
  BY <1>1, <1>3, BurnRefines
<1>4. CASE Complete \/ Resolve
  BY <1>1, <1>4, SettleRefines
<1>5. CASE Hold \/ Allow \/ IssueElsewhere \/ DestroyElsewhere \/ ConfigureToken
  BY <1>1, <1>5, TokenRefines
<1>6. CASE \/ Deposit \/ ConsumeElsewhere \/ Ask \/ Fulfil \/ ConfigureRegistry
           \/ ConfigureVerifier \/ ConfigureMintGateway \/ ConfigureBurnGateway
           \/ Govern \/ NextBlock \/ UNCHANGED vars
  <2>1. UNCHANGED <<totalSupply, lockedMinter>>
    BY <1>6 DEF Deposit, ConsumeElsewhere, OnlyRegistry, Ask, Fulfil, OnlyVerifier,
       ConfigureRegistry, ConfigureVerifier, ConfigureMintGateway,
       ConfigureBurnGateway, OnlyBurnGateway, Govern, NextBlock, vars, tokenVars
  <2>2. UNCHANGED minted
    BY <1>6 DEF Deposit, ConsumeElsewhere, OnlyRegistry, Ask, Fulfil, OnlyVerifier,
       ConfigureRegistry, ConfigureVerifier, ConfigureMintGateway, SetMintPaused,
       SetMinimumConfirmations, SetMintLimit, ConfigureBurnGateway,
       OnlyBurnGateway, Govern, NextBlock, vars, mintVars
  <2>3. UNCHANGED redeemState
    BY <1>6 DEF Deposit, ConsumeElsewhere, OnlyRegistry, Ask, Fulfil, OnlyVerifier,
       ConfigureRegistry, ConfigureVerifier, ConfigureMintGateway,
       ConfigureBurnGateway, SetBurnPaused, SetRedeemLimit, Govern, NextBlock,
       vars, burnVars
  <2> QED BY <2>1, <2>2, <2>3 DEF Ledger!ledgerVars
<1> QED BY <1>2, <1>3, <1>4, <1>5, <1>6 DEF Next

\* The five contracts implement the ledger of BridgeLedger: supply made once per
\* deposit and once per output, requests settled once, and, from the moment the
\* gateway is locked in as minter, no supply by fiat.
THEOREM ContractsImplementLedger == Spec => ImplementsLedger
<1>1. Init => Ledger!Init
  <2> SUFFICES ASSUME Init PROVE Ledger!Init
    OBVIOUS
  <2>1. {[deposit |-> m.auth.deposit, utxo |-> m.auth.utxo, sats |-> m.auth.sats]
           : m \in minted} = {}
    BY DEF Init
  <2>2. lockedMinter # "MintGateway"
    BY AddressAssumption DEF Init, Addresses, Contracts
  <2> QED BY <2>1, <2>2 DEF Init, Ledger!Init
<1>2. EvmTypeOK /\ MintsAreConsumed /\ [Next]_vars => [Ledger!Next]_(Ledger!ledgerVars)
  BY StepRefines
<1> QED BY <1>1, <1>2, EvmTypeCorrect, MintsConsume, PTL
        DEF Spec, ImplementsLedger, Ledger!Spec

-----------------------------------------------------------------------------
(* The sums: supply, balances, and what the windows have used.              *)

\* What each mint and each request counts for.
MintEvent == [auth : MintAuths, at : Nat]
mintSats == [m \in MintEvent |-> m.auth.sats]
burnAmount == [r \in RedeemRequest |-> r.amount]

\* Summed over a finite set of mints.
LEMMA SatsSum ==
  ASSUME NEW S, IsFiniteSet(S), S \subseteq MintEvent
  PROVE  MapThenSumSet(LAMBDA m : m.auth.sats, S) = SumOf(mintSats, S)
<1> DEFINE Rec(h) ==
      h = [s \in SUBSET S |->
             IF s = {} THEN 0 ELSE First(s).auth.sats + h[s \ {First(s)}]]
<1>1. ASSUME NEW h PROVE Rec(h) <=> IsSum(h, mintSats, S)
  <2>1. ASSUME NEW s \in SUBSET S
        PROVE  (IF s = {} THEN 0 ELSE First(s).auth.sats + h[s \ {First(s)}])
                 = (IF s = {} THEN 0 ELSE mintSats[First(s)] + h[s \ {First(s)}])
    <3>1. s # {} => First(s) \in MintEvent
      BY FirstIn
    <3> QED BY <3>1 DEF mintSats
  <2> QED BY <2>1 DEF IsSum
<1>2. \E h : Rec(h)
  BY <1>1, SumExists
<1>3. \E h : Rec(h) /\ MapThenSumSet(LAMBDA m : m.auth.sats, S) = h[S]
  BY <1>2 DEF First, MapThenSumSet, MapThenFoldSet
<1>4. \E h : IsSum(h, mintSats, S) /\ SumOf(mintSats, S) = h[S]
  BY SumOfIsSum
<1> HIDE DEF Rec
<1>5. \E h : IsSum(h, mintSats, S) /\ MapThenSumSet(LAMBDA m : m.auth.sats, S) = h[S]
  BY <1>1, <1>3
<1> QED BY <1>4, <1>5, SumUnique

\* Summed over a finite set of requests.
LEMMA AmountSum ==
  ASSUME NEW S, IsFiniteSet(S), S \subseteq RedeemRequest
  PROVE  MapThenSumSet(LAMBDA r : r.amount, S) = SumOf(burnAmount, S)
<1> DEFINE Rec(h) ==
      h = [s \in SUBSET S |->
             IF s = {} THEN 0 ELSE First(s).amount + h[s \ {First(s)}]]
<1>1. ASSUME NEW h PROVE Rec(h) <=> IsSum(h, burnAmount, S)
  <2>1. ASSUME NEW s \in SUBSET S
        PROVE  (IF s = {} THEN 0 ELSE First(s).amount + h[s \ {First(s)}])
                 = (IF s = {} THEN 0 ELSE burnAmount[First(s)] + h[s \ {First(s)}])
    <3>1. s # {} => First(s) \in RedeemRequest
      BY FirstIn
    <3> QED BY <3>1 DEF burnAmount
  <2> QED BY <2>1 DEF IsSum
<1>2. \E h : Rec(h)
  BY <1>1, SumExists
<1>3. \E h : Rec(h) /\ MapThenSumSet(LAMBDA r : r.amount, S) = h[S]
  BY <1>2 DEF First, MapThenSumSet, MapThenFoldSet
<1>4. \E h : IsSum(h, burnAmount, S) /\ SumOf(burnAmount, S) = h[S]
  BY SumOfIsSum
<1> HIDE DEF Rec
<1>5. \E h : IsSum(h, burnAmount, S) /\ MapThenSumSet(LAMBDA r : r.amount, S) = h[S]
  BY <1>1, <1>3
<1> QED BY <1>4, <1>5, SumUnique

\* Every summand is a natural number.
LEMMA SummandTypes ==
  /\ \A m \in MintEvent : mintSats[m] \in Nat /\ mintSats[m] = m.auth.sats
  /\ \A r \in RedeemRequest : burnAmount[r] \in Nat /\ burnAmount[r] = r.amount
<1>1. ASSUME NEW m \in MintEvent PROVE m.auth.sats \in Nat
  <2>1. m.auth \in MintAuths
    BY DEF MintEvent
  <2> QED BY <2>1, MintAuthFields
<1> QED BY <1>1 DEF mintSats, burnAmount, RedeemRequest

\* There are finitely many events at any time.
FinitelyMany == IsFiniteSet(minted) /\ IsFiniteSet(Requests)

\* A step adds one mint, one request or none.
LEMMA EventsStep ==
  ASSUME BurnTypeOK, [Next]_vars
  PROVE  /\ minted' = minted \/ \E m : minted' = minted \cup {m}
         /\ Requests' = Requests \/ \E r : Requests' = Requests \cup {r}
<1>1. minted' = minted \/ \E m : minted' = minted \cup {m}
  BY MintedFrame, MintFlowEffect
<1>2. CASE BurnFlow
  <2>1. PICK r : redeemState' = Extended(redeemState, r, "BURNED")
    BY <1>2 DEF BurnFlow, Burn
  <2> QED BY <1>1, <2>1 DEF Requests, Extended
<1>3. CASE Complete \/ Resolve
  BY <1>1, <1>3 DEF Complete, CompleteRedeemWithAuthorization, Resolve,
     SetRedeemState, Requests
<1>4. CASE ConfigureBurnGateway
  BY <1>1, <1>4 DEF ConfigureBurnGateway, SetBurnPaused, SetRedeemLimit, Requests
<1>5. CASE UNCHANGED burnVars
  BY <1>1, <1>5 DEF burnVars, Requests
<1> QED BY <1>2, <1>3, <1>4, <1>5, BurnFrame

\* So there always are.
LEMMA FinitelyManyStep ==
  BurnTypeOK /\ FinitelyMany /\ [Next]_vars => FinitelyMany'
<1> SUFFICES ASSUME BurnTypeOK, FinitelyMany, [Next]_vars PROVE FinitelyMany'
  OBVIOUS
<1>1. IsFiniteSet(minted')
  BY EventsStep, FS_AddElement DEF FinitelyMany
<1>2. IsFiniteSet(Requests')
  BY EventsStep, FS_AddElement DEF FinitelyMany
<1> QED BY <1>1, <1>2 DEF FinitelyMany

\* The supply property in terms of the sum.
LEMMA BalancesAsSum ==
  /\ SupplyIsBalances <=> totalSupply = SumOf(balanceOf, Users)
  /\ SupplyIsBalances' <=> totalSupply' = SumOf(balanceOf', Users)
<1>1. IsFiniteSet(Users)
  BY AddressAssumption
<1>2. MapThenSumSet(LAMBDA u : balanceOf[u], Users) = SumOf(balanceOf, Users)
  BY <1>1, FunctionSum
<1>3. SupplyIsBalances <=> totalSupply = SumOf(balanceOf, Users)
  BY <1>2 DEF SupplyIsBalances
<1>4. (SupplyIsBalances <=> totalSupply = SumOf(balanceOf, Users))'
  BY <1>3, PTL
<1> QED BY <1>3, <1>4

\* One balance changed, the sum changes by as much.
LEMMA BalanceChanged ==
  ASSUME NEW old, NEW new, NEW u \in Users,
         \A x \in Users : old[x] \in Nat /\ new[x] \in Nat,
         \A x \in Users \ {u} : old[x] = new[x]
  PROVE  /\ SumOf(new, Users) = SumOf(old, Users) - old[u] + new[u]
         /\ SumOf(old, Users) \in Nat /\ SumOf(new, Users) \in Nat
<1>1. IsFiniteSet(Users)
  BY AddressAssumption
<1> QED BY <1>1, SumUpdate, SumType

\* What changing one balance does to the others: nothing.
LEMMA OneChanged ==
  ASSUME NEW old \in [Users -> Nat], NEW u \in Users, NEW v \in Nat,
         NEW new, new = [old EXCEPT ![u] = v]
  PROVE  /\ \A x \in Users : old[x] \in Nat /\ new[x] \in Nat
         /\ \A x \in Users \ {u} : old[x] = new[x]
         /\ new[u] = v /\ new \in [Users -> Nat]
  OBVIOUS

\* A transfer keeps the sum, one to oneself as well.
LEMMA MovedSum ==
  ASSUME TokenTypeOK, NEW from \in Users, NEW to \in Users, NEW amount \in Nat,
         balanceOf[from] >= amount
  PROVE  SumOf(Moved(from, to, amount), Users) = SumOf(balanceOf, Users)
<1> DEFINE less == balanceOf[from] - amount
           debited == [balanceOf EXCEPT ![from] = less]
           moved == Moved(from, to, amount)
           more == debited[to] + amount
<1>1. balanceOf \in [Users -> Nat] /\ balanceOf[from] \in Nat /\ less \in Nat
  BY DEF TokenTypeOK
<1>2. moved = [debited EXCEPT ![to] = more]
  BY <1>1 DEF Moved
<1>3. debited = [balanceOf EXCEPT ![from] = less]
  OBVIOUS
<1> HIDE DEF less, debited, moved
<1>4. /\ \A x \in Users : balanceOf[x] \in Nat /\ debited[x] \in Nat
      /\ \A x \in Users \ {from} : balanceOf[x] = debited[x]
      /\ debited[from] = less /\ debited \in [Users -> Nat]
  BY <1>1, <1>3, OneChanged
<1>5. debited[to] \in Nat /\ more \in Nat
  BY <1>4
<1> HIDE DEF more
<1>6. /\ \A x \in Users : debited[x] \in Nat /\ moved[x] \in Nat
      /\ \A x \in Users \ {to} : debited[x] = moved[x]
      /\ moved[to] = more
  BY <1>2, <1>4, <1>5, OneChanged
<1>7. /\ SumOf(debited, Users) = SumOf(balanceOf, Users) - balanceOf[from] + debited[from]
      /\ SumOf(balanceOf, Users) \in Nat /\ SumOf(debited, Users) \in Nat
  <2>1. \A x \in Users : balanceOf[x] \in Nat /\ debited[x] \in Nat
    BY <1>4
  <2>2. \A x \in Users \ {from} : balanceOf[x] = debited[x]
    BY <1>4
  <2> QED BY <2>1, <2>2, BalanceChanged
<1>8. /\ SumOf(moved, Users) = SumOf(debited, Users) - debited[to] + moved[to]
      /\ SumOf(moved, Users) \in Nat
  BY <1>6, BalanceChanged
<1>9. debited[from] = less /\ moved[to] = more
  BY <1>4, <1>6
<1> QED BY <1>1, <1>5, <1>7, <1>8, <1>9 DEF less, more, moved

\* Supply and sum grow alike.
LEMMA MintKeepsSum ==
  ASSUME TokenTypeOK, SupplyIsBalances, NEW caller, NEW to \in Users,
         NEW amount \in Nat, Mint(caller, to, amount)
  PROVE  SupplyIsBalances'
<1> DEFINE more == balanceOf[to] + amount
           new == balanceOf'
<1>1. balanceOf \in [Users -> Nat] /\ balanceOf[to] \in Nat /\ more \in Nat
  BY DEF TokenTypeOK
<1>2. new = [balanceOf EXCEPT ![to] = more] /\ totalSupply' = totalSupply + amount
  BY <1>1 DEF Mint
<1> HIDE DEF more, new
<1>3. /\ \A x \in Users : balanceOf[x] \in Nat /\ new[x] \in Nat
      /\ \A x \in Users \ {to} : balanceOf[x] = new[x]
      /\ new[to] = more
  BY <1>1, <1>2, OneChanged
<1>4. /\ SumOf(new, Users) = SumOf(balanceOf, Users) - balanceOf[to] + new[to]
      /\ SumOf(balanceOf, Users) \in Nat
  BY <1>3, BalanceChanged
<1>5. balanceOf[to] \in Nat
  BY <1>1
<1> QED BY <1>2, <1>3, <1>4, <1>5, BalancesAsSum DEF more, new

\* And shrink alike.
LEMMA BurnKeepsSum ==
  ASSUME TokenTypeOK, SupplyIsBalances, NEW caller, NEW from \in Users,
         NEW amount \in Nat, BurnFrom(caller, from, amount)
  PROVE  SupplyIsBalances'
<1> DEFINE less == balanceOf[from] - amount
           new == balanceOf'
<1>1. balanceOf \in [Users -> Nat] /\ balanceOf[from] \in Nat /\ less \in Nat
  BY DEF TokenTypeOK, BurnFrom
<1>2. new = [balanceOf EXCEPT ![from] = less] /\ totalSupply' = totalSupply - amount
  BY <1>1 DEF BurnFrom
<1> HIDE DEF less, new
<1>3. /\ \A x \in Users : balanceOf[x] \in Nat /\ new[x] \in Nat
      /\ \A x \in Users \ {from} : balanceOf[x] = new[x]
      /\ new[from] = less
  BY <1>1, <1>2, OneChanged
<1>4. /\ SumOf(new, Users) = SumOf(balanceOf, Users) - balanceOf[from] + new[from]
      /\ SumOf(balanceOf, Users) \in Nat
  BY <1>3, BalanceChanged
<1>5. balanceOf[from] \in Nat
  BY <1>1
<1> QED BY <1>2, <1>3, <1>4, <1>5, BalancesAsSum DEF less, new

\* Every step keeps supply and balances together.
LEMMA BalancesStep ==
  TokenTypeOK /\ SupplyIsBalances /\ [Next]_vars => SupplyIsBalances'
<1> SUFFICES ASSUME TokenTypeOK, SupplyIsBalances, [Next]_vars
             PROVE  SupplyIsBalances'
  OBVIOUS
<1>1. CASE Hold
  <2>1. PICK from \in Users, to \in Users, amount \in Nat :
          /\ balanceOf[from] >= amount /\ balanceOf' = Moved(from, to, amount)
          /\ totalSupply' = totalSupply
    BY <1>1, BridgeAssumption DEF Hold, Transfer, TransferFrom
  <2>2. SumOf(balanceOf', Users) = SumOf(balanceOf, Users)
    BY <2>1, MovedSum
  <2> QED BY <2>1, <2>2, BalancesAsSum
<1>2. CASE Allow
  BY <1>2, BalancesAsSum DEF Allow, Approve
<1>3. CASE IssueElsewhere
  BY <1>3, MintKeepsSum, BridgeAssumption DEF IssueElsewhere
<1>4. CASE DestroyElsewhere
  BY <1>4, BurnKeepsSum, BridgeAssumption DEF DestroyElsewhere
<1>5. CASE MintFlow
  <2>1. PICK auth \in MintAuths : Mint("MintGateway", auth.recipient, auth.sats)
    BY <1>5 DEF MintFlow, MintWithAuthorization
  <2>2. auth.recipient \in Users
    BY <2>1, MintAuthsAssumption DEF Mint, MintAuthorization
  <2> QED BY <2>1, <2>2, MintKeepsSum, MintAuthFields
<1>6. CASE BurnFlow
  <2>1. PICK caller \in Users, in \in BurnInputs :
          BurnFrom("BurnGateway", caller, in.amount)
    BY <1>6 DEF BurnFlow, Burn
  <2> QED BY <2>1, BurnKeepsSum, BurnInputFields
<1>7. CASE ConfigureToken
  BY <1>7, BalancesAsSum DEF ConfigureToken, SetMinter, LockMinter
<1>8. CASE UNCHANGED tokenVars
  BY <1>8, BalancesAsSum DEF tokenVars
<1> QED BY <1>1, <1>2, <1>3, <1>4, <1>5, <1>6, <1>7, <1>8, TokenFrame

\* The token's supply is what its holders hold, whoever transfers to whom, mints
\* or burns; so no balance ever exceeds the supply and _burn's unchecked
\* subtraction does not wrap.
THEOREM SupplyIsHeld == Spec => []SupplyIsBalances
<1>1. Init => SupplyIsBalances
  <2> SUFFICES ASSUME Init PROVE SupplyIsBalances
    OBVIOUS
  <2> DEFINE zero == [u \in Users |-> 0]
             F == {S \in SUBSET Users : SumOf(zero, S) = 0}
  <2>1. IsFiniteSet(Users)
    BY AddressAssumption
  <2>2. ASSUME NEW T \in SUBSET Users, \A x \in T : T \ {x} \in F
        PROVE  T \in F
    <3>1. IsFiniteSet(T)
      BY <2>1, FS_Subset
    <3>2. T # {} => /\ First(T) \in T
                    /\ SumOf(zero, T) = zero[First(T)] + SumOf(zero, T \ {First(T)})
      BY <3>1, SumOfRecursion
    <3> QED BY <2>2, <3>2, SumEmpty
  <2>3. Users \in F
    <3> HIDE DEF F
    <3> QED BY <2>1, <2>2, FiniteSetInduction
  <2> QED BY <2>3, BalancesAsSum DEF Init
<1>2. EvmTypeOK /\ SupplyIsBalances /\ [Next]_vars => SupplyIsBalances'
  BY BalancesStep DEF EvmTypeOK
<1> QED BY <1>1, <1>2, EvmTypeCorrect, PTL DEF Spec

\* What was minted by the gateway and what is in redeem requests.
Minted == SumOf(mintSats, minted)
Redeemed == SumOf(burnAmount, Requests)

\* Where the sums range.
EventsType == FinitelyMany /\ minted \subseteq MintEvent /\ Requests \subseteq RedeemRequest

\* The backing in terms of the two sums.
LEMMA BackedAsSums ==
  EventsType => (SupplyBacked <=> totalSupply + Redeemed + destroyedElsewhere
                                    = Minted + issuedElsewhere)
<1> SUFFICES ASSUME EventsType
             PROVE  SupplyBacked <=> totalSupply + Redeemed + destroyedElsewhere
                                       = Minted + issuedElsewhere
  OBVIOUS
<1>1. MapThenSumSet(LAMBDA r : r.amount, Requests) = Redeemed
  BY AmountSum DEF EventsType, FinitelyMany, Redeemed
<1>2. MapThenSumSet(LAMBDA m : m.auth.sats, minted) = Minted
  BY SatsSum DEF EventsType, FinitelyMany, Minted
<1> QED BY <1>1, <1>2 DEF SupplyBacked

\* The two sums are naturals.
LEMMA SumsTypes == EventsType => Minted \in Nat /\ Redeemed \in Nat
<1> SUFFICES ASSUME EventsType PROVE Minted \in Nat /\ Redeemed \in Nat
  OBVIOUS
<1>1. \A m \in minted : mintSats[m] \in Nat
  BY SummandTypes DEF EventsType
<1>2. \A r \in Requests : burnAmount[r] \in Nat
  BY SummandTypes DEF EventsType
<1> QED BY <1>1, <1>2, SumType DEF EventsType, FinitelyMany, Minted, Redeemed

\* A mint is new and adds its amount to the sum and to the supply.
LEMMA MintAdds ==
  ASSUME EvmTypeOK, EventsType, EventsType', MintsAreConsumed, MintFlow
  PROVE  \E sats \in Nat : /\ Minted' = Minted + sats
                           /\ totalSupply' = totalSupply + sats
<1>1. PICK auth \in MintAuths :
        /\ minted' = minted \cup {[auth |-> auth, at |-> now]}
        /\ auth.deposit \notin depositConsumed
        /\ totalSupply' = totalSupply + auth.sats
  BY MintFlowEffect DEF Mint
<1> DEFINE new == [auth |-> auth, at |-> now]
<1>2. new.auth = auth /\ minted' = minted \cup {new}
  BY <1>1
<1> HIDE DEF new
<1>3. new \notin minted /\ new \in MintEvent
  BY <1>1, <1>2 DEF MintsAreConsumed, EventsType
<1>4. \A m \in minted \cup {new} : mintSats[m] \in Nat
  BY <1>3, SummandTypes DEF EventsType
<1>5. SumOf(mintSats, minted \cup {new}) = Minted + mintSats[new]
  BY <1>3, <1>4, SumAdd DEF EventsType, FinitelyMany, Minted
<1>6. mintSats[new] = auth.sats /\ auth.sats \in Nat
  BY <1>2, <1>3, SummandTypes, MintAuthFields
<1> QED BY <1>1, <1>2, <1>5, <1>6 DEF Minted

\* A burn makes a new request and takes its amount from the supply.
LEMMA BurnAdds ==
  ASSUME EvmTypeOK, EventsType, EventsType', BurnFlow
  PROVE  \E sats \in Nat : /\ Redeemed' = Redeemed + sats
                           /\ totalSupply' = totalSupply - sats
<1>1. BurnTypeOK
  BY DEF EvmTypeOK
<1>2. PICK caller \in Users, in \in BurnInputs : Burn(caller, in)
  BY DEF BurnFlow
<1> DEFINE r == RequestOf(caller, in)
<1>3. /\ r \in RedeemRequest /\ r \notin DOMAIN redeemState /\ r.amount = in.amount
      /\ redeemState' = Extended(redeemState, r, "BURNED")
      /\ totalSupply' = totalSupply - in.amount
  BY <1>1, <1>2, NewRequest DEF Burn, BurnFrom
<1> HIDE DEF r
<1>4. Requests' = Requests \cup {r} /\ r \notin Requests
  BY <1>3 DEF Requests, Extended
<1>5. \A q \in Requests \cup {r} : burnAmount[q] \in Nat
  BY <1>3, SummandTypes DEF EventsType
<1>6. SumOf(burnAmount, Requests \cup {r}) = Redeemed + burnAmount[r]
  BY <1>4, <1>5, SumAdd DEF EventsType, FinitelyMany, Redeemed
<1>7. burnAmount[r] = in.amount /\ in.amount \in Nat
  BY <1>3, SummandTypes, BurnInputFields
<1> QED BY <1>3, <1>4, <1>6, <1>7 DEF Redeemed

\* Every step keeps the supply backed.
LEMMA BackedStep ==
  ASSUME EvmTypeOK, EventsType, EventsType', MintsAreConsumed, SupplyBacked, [Next]_vars
  PROVE  SupplyBacked'
<1>1. totalSupply + Redeemed + destroyedElsewhere = Minted + issuedElsewhere
  BY BackedAsSums
<1>2. /\ totalSupply \in Int /\ destroyedElsewhere \in Nat /\ issuedElsewhere \in Nat
      /\ Minted \in Nat /\ Redeemed \in Nat
  BY SumsTypes DEF EvmTypeOK, TokenTypeOK
<1>3. (EventsType => (SupplyBacked <=> totalSupply + Redeemed + destroyedElsewhere
                                         = Minted + issuedElsewhere))'
  BY BackedAsSums, PTL
<1> SUFFICES totalSupply' + Redeemed' + destroyedElsewhere' = Minted' + issuedElsewhere'
  BY <1>3
<1>4. CASE MintFlow
  <2>1. UNCHANGED <<Redeemed, destroyedElsewhere, issuedElsewhere>>
    BY <1>4 DEF MintFlow, burnVars, historyVars, Redeemed, Requests
  <2> QED BY <1>1, <1>2, <1>4, <2>1, MintAdds
<1>5. CASE BurnFlow
  <2>1. UNCHANGED <<Minted, destroyedElsewhere, issuedElsewhere>>
    BY <1>5 DEF BurnFlow, mintVars, historyVars, Minted
  <2> QED BY <1>1, <1>2, <1>5, <2>1, BurnAdds
<1>6. ASSUME ~MintFlow, ~BurnFlow
      PROVE  /\ UNCHANGED <<Minted, Redeemed>>
             /\ IssueElsewhere \/ DestroyElsewhere
                  \/ UNCHANGED <<totalSupply, issuedElsewhere, destroyedElsewhere>>
  <2>1. UNCHANGED Minted
    BY <1>6, MintedFrame DEF Minted
  <2>2. UNCHANGED Requests
    BY <1>6, BurnFrame DEF Complete, CompleteRedeemWithAuthorization, Resolve,
       SetRedeemState, ConfigureBurnGateway, SetBurnPaused, SetRedeemLimit,
       Requests, burnVars
  <2>3. CASE Hold \/ Allow \/ ConfigureToken
    BY <2>1, <2>2, <2>3 DEF Hold, Transfer, TransferFrom, Allow, Approve,
       ConfigureToken, SetMinter, LockMinter, historyVars, Redeemed
  <2>4. CASE IssueElsewhere \/ DestroyElsewhere
    BY <2>1, <2>2, <2>4 DEF Redeemed
  <2>5. CASE \/ Deposit \/ ConsumeElsewhere \/ Ask \/ Fulfil \/ Complete \/ Resolve
             \/ ConfigureRegistry \/ ConfigureVerifier \/ ConfigureMintGateway
             \/ ConfigureBurnGateway \/ Govern \/ NextBlock \/ UNCHANGED vars
    BY <2>1, <2>2, <2>5 DEF Deposit, ConsumeElsewhere, OnlyRegistry, Ask, Fulfil,
       OnlyVerifier, Complete, Resolve, OnlyBurnGateway, ConfigureRegistry,
       ConfigureVerifier, ConfigureMintGateway, ConfigureBurnGateway, Govern,
       NextBlock, vars, tokenVars, historyVars, Redeemed
  <2> QED BY <1>6, <2>3, <2>4, <2>5 DEF Next
<1>7. CASE IssueElsewhere /\ ~MintFlow /\ ~BurnFlow
  <2>1. PICK amount \in Nat : /\ totalSupply' = totalSupply + amount
                              /\ issuedElsewhere' = issuedElsewhere + amount
                              /\ UNCHANGED destroyedElsewhere
    BY <1>7, BridgeAssumption DEF IssueElsewhere, Mint
  <2> QED BY <1>1, <1>2, <1>6, <1>7, <2>1
<1>8. CASE DestroyElsewhere /\ ~MintFlow /\ ~BurnFlow
  <2>1. PICK amount \in Nat : /\ totalSupply' = totalSupply - amount
                              /\ destroyedElsewhere' = destroyedElsewhere + amount
                              /\ UNCHANGED issuedElsewhere
    BY <1>8, BridgeAssumption DEF DestroyElsewhere, BurnFrom
  <2> QED BY <1>1, <1>2, <1>6, <1>8, <2>1
<1> QED BY <1>1, <1>4, <1>5, <1>6, <1>7, <1>8

\* The events stay finitely many and well typed.
LEMMA EventsAlways == Spec => []EventsType
<1>1. Init => FinitelyMany
  BY FS_EmptySet DEF Init, FinitelyMany, Requests
<1>2. EvmTypeOK /\ FinitelyMany /\ [Next]_vars => FinitelyMany'
  BY FinitelyManyStep DEF EvmTypeOK
<1>3. EvmTypeOK /\ FinitelyMany => EventsType
  BY DEF EvmTypeOK, MintTypeOK, BurnTypeOK, EventsType, MintEvent, Requests
<1> QED BY <1>1, <1>2, <1>3, EvmTypeCorrect, PTL DEF Spec

\* Every satoshi the gateway minted circulates, is in a redeem request or was
\* destroyed, up to what other minters and spenders did: supply follows from the
\* two events.
THEOREM SupplyStaysBacked == Spec => []SupplyBacked
<1>1. Init => SupplyBacked
  <2> SUFFICES ASSUME Init PROVE SupplyBacked
    OBVIOUS
  <2>1. minted = {} /\ Requests = {} /\ totalSupply = 0 /\ issuedElsewhere = 0
        /\ destroyedElsewhere = 0
    BY DEF Init, Requests
  <2>2. EventsType
    BY <2>1, FS_EmptySet DEF EventsType, FinitelyMany
  <2>3. Minted = 0 /\ Redeemed = 0
    BY <2>1, SumEmpty DEF Minted, Redeemed
  <2> QED BY <2>1, <2>2, <2>3, BackedAsSums
<1>2. /\ EvmTypeOK /\ EventsType /\ EventsType' /\ MintsAreConsumed
      /\ SupplyBacked /\ [Next]_vars
      => SupplyBacked'
  BY BackedStep
<1> QED BY <1>1, <1>2, EvmTypeCorrect, EventsAlways, MintsConsume, PTL DEF Spec

-----------------------------------------------------------------------------
(* The window limits.                                                       *)

MintedSince(t) == {m \in minted : m.at >= t}
BurnedSince(t) == {r \in Requests : burnedAt[r] >= t}

\* WindowUsage for a limit whose window's events sum to total.
Within(l, total) ==
  /\ l.startedAt <= now
  /\ IF l.limit = 0 THEN l.used = 0 ELSE l.used <= l.limit /\ l.used <= total

MintUsed == Within(mintLimit, SumOf(mintSats, MintedSince(mintLimit.startedAt)))
RedeemUsed == Within(redeemLimit, SumOf(burnAmount, BurnedSince(redeemLimit.startedAt)))

\* Parts of the events are finite and of their types too.
LEMMA PartsTypes ==
  ASSUME EventsType
  PROVE  /\ \A S \in SUBSET minted : IsFiniteSet(S) /\ S \subseteq MintEvent
                                     /\ SumOf(mintSats, S) \in Nat
                                     /\ \A m \in S : mintSats[m] \in Nat
         /\ \A S \in SUBSET Requests : IsFiniteSet(S) /\ S \subseteq RedeemRequest
                                       /\ SumOf(burnAmount, S) \in Nat
                                       /\ \A r \in S : burnAmount[r] \in Nat
<1>1. ASSUME NEW S \in SUBSET minted
      PROVE  IsFiniteSet(S) /\ S \subseteq MintEvent /\ \A m \in S : mintSats[m] \in Nat
  BY FS_Subset, SummandTypes DEF EventsType, FinitelyMany
<1>2. ASSUME NEW S \in SUBSET Requests
      PROVE  IsFiniteSet(S) /\ S \subseteq RedeemRequest /\ \A r \in S : burnAmount[r] \in Nat
  BY FS_Subset, SummandTypes DEF EventsType, FinitelyMany
<1>3. \A S \in SUBSET minted : SumOf(mintSats, S) \in Nat
  BY <1>1, SumType
<1>4. \A S \in SUBSET Requests : SumOf(burnAmount, S) \in Nat
  BY <1>2, SumType
<1> QED BY <1>1, <1>2, <1>3, <1>4

\* The property in terms of the sums.
LEMMA UsageAsSums == EventsType => (UsageIsCurrent <=> MintUsed /\ RedeemUsed)
<1> SUFFICES ASSUME EventsType PROVE UsageIsCurrent <=> MintUsed /\ RedeemUsed
  OBVIOUS
<1> DEFINE M == {m \in minted : m.at >= mintLimit.startedAt}
           R == {r \in Requests : burnedAt[r] >= redeemLimit.startedAt}
<1>1. /\ IsFiniteSet(M) /\ M \subseteq MintEvent
      /\ IsFiniteSet(R) /\ R \subseteq RedeemRequest
  BY PartsTypes
<1>2. MapThenSumSet(LAMBDA m : m.auth.sats, M) = SumOf(mintSats, M)
  <2> HIDE DEF M
  <2> QED BY <1>1, SatsSum
<1>3. MapThenSumSet(LAMBDA r : r.amount, R) = SumOf(burnAmount, R)
  <2> HIDE DEF R
  <2> QED BY <1>1, AmountSum
<1>4. WindowUsage(mintLimit, minted, LAMBDA m : m.auth.sats, LAMBDA m : m.at) <=> MintUsed
  BY <1>2 DEF WindowUsage, MintUsed, Within, MintedSince
<1>5. WindowUsage(redeemLimit, Requests, LAMBDA r : r.amount, LAMBDA r : burnedAt[r])
        <=> RedeemUsed
  BY <1>3 DEF WindowUsage, RedeemUsed, Within, BurnedSince
<1> QED BY <1>4, <1>5 DEF UsageIsCurrent

\* What a use does to a limit in force: it goes on in the open window, or opens one.
LEMMA UseEffect ==
  ASSUME NEW l \in WindowLimit, NEW time \in Nat, NEW sats \in Nat,
         l.startedAt <= time, l.limit # 0, Admits(l, time, sats), NEW new,
         new = AfterUse(l, time, sats)
  PROVE  /\ new.limit = l.limit /\ new.window = l.window /\ new.used <= l.limit
         /\ \/ /\ time < l.startedAt + l.window
               /\ new.startedAt = l.startedAt /\ new.used = l.used + sats
            \/ /\ time >= l.startedAt + l.window
               /\ new.startedAt = time /\ new.used = sats
<1>1. /\ l.limit \in Nat /\ l.window \in Nat /\ l.startedAt \in Nat /\ l.used \in Nat
      /\ l = [limit |-> l.limit, window |-> l.window,
              startedAt |-> l.startedAt, used |-> l.used]
  BY DEF WindowLimit
<1> DEFINE rolled == Rolled(l, time)
<1>2. /\ rolled \in WindowLimit
      /\ rolled.limit = l.limit /\ rolled.window = l.window
      /\ \/ /\ time < l.startedAt + l.window
            /\ rolled.startedAt = l.startedAt /\ rolled.used = l.used
         \/ /\ time >= l.startedAt + l.window
            /\ rolled.startedAt = time /\ rolled.used = 0
  <2>1. CASE time < l.startedAt + l.window
    <3>1. rolled = l
      BY <1>1, <2>1 DEF Rolled
    <3> QED BY <1>1, <2>1, <3>1
  <2>2. CASE time >= l.startedAt + l.window
    <3>1. time >= l.startedAt /\ time - l.startedAt >= l.window
      BY <1>1, <2>2
    <3>2. rolled = [l EXCEPT !.startedAt = time, !.used = 0]
      BY <3>1 DEF Rolled
    <3>3. rolled = [limit |-> l.limit, window |-> l.window, startedAt |-> time, used |-> 0]
      BY <3>2 DEF WindowLimit
    <3> HIDE DEF rolled
    <3> QED BY <1>1, <2>2, <3>3 DEF WindowLimit
  <2> QED BY <1>1, <2>1, <2>2
<1>3. new = [rolled EXCEPT !.used = rolled.used + sats] /\ rolled.used + sats <= l.limit
  BY <1>1, <1>2 DEF AfterUse, Admits, WindowLimit
<1> HIDE DEF rolled
<1>4. /\ new.limit = rolled.limit /\ new.window = rolled.window
      /\ new.startedAt = rolled.startedAt /\ new.used = rolled.used + sats
  BY <1>2, <1>3 DEF WindowLimit
<1> QED BY <1>2, <1>3, <1>4

\* A mint counts in every window that is open when it happens.
LEMMA MintSinceGrows ==
  ASSUME EventsType, NEW new \in MintEvent, new \notin minted, NEW t, t <= new.at,
         minted' = minted \cup {new}
  PROVE  /\ SumOf(mintSats, MintedSince(t)') = SumOf(mintSats, MintedSince(t)) + new.auth.sats
         /\ SumOf(mintSats, MintedSince(t)) \in Nat
<1> DEFINE S == MintedSince(t)
<1>1. MintedSince(t)' = S \cup {new} /\ new \notin S
  BY DEF MintedSince, MintEvent
<1>2. IsFiniteSet(S) /\ SumOf(mintSats, S) \in Nat /\ \A m \in S : mintSats[m] \in Nat
  BY PartsTypes DEF MintedSince
<1>3. mintSats[new] \in Nat /\ mintSats[new] = new.auth.sats
  BY SummandTypes
<1> HIDE DEF S
<1>4. SumOf(mintSats, S \cup {new}) = SumOf(mintSats, S) + mintSats[new]
  BY <1>1, <1>2, <1>3, SumAdd
<1> QED BY <1>1, <1>2, <1>3, <1>4 DEF S

\* A redeem request too.
LEMMA BurnSinceGrows ==
  ASSUME EventsType, NEW r \in RedeemRequest, r \notin Requests, NEW at \in Nat,
         NEW t, t <= at, Requests' = Requests \cup {r}, burnedAt'[r] = at,
         \A q \in Requests : burnedAt'[q] = burnedAt[q]
  PROVE  /\ SumOf(burnAmount, BurnedSince(t)') = SumOf(burnAmount, BurnedSince(t)) + r.amount
         /\ SumOf(burnAmount, BurnedSince(t)) \in Nat
<1> DEFINE S == BurnedSince(t)
<1>1. BurnedSince(t)' = S \cup {r} /\ r \notin S
  BY DEF BurnedSince
<1>2. IsFiniteSet(S) /\ SumOf(burnAmount, S) \in Nat /\ \A q \in S : burnAmount[q] \in Nat
  BY PartsTypes DEF BurnedSince
<1>3. burnAmount[r] \in Nat /\ burnAmount[r] = r.amount
  BY SummandTypes
<1> HIDE DEF S
<1>4. SumOf(burnAmount, S \cup {r}) = SumOf(burnAmount, S) + burnAmount[r]
  BY <1>1, <1>2, <1>3, SumAdd
<1> QED BY <1>1, <1>2, <1>3, <1>4 DEF S

\* The numbers of a limit.
LEMMA LimitFields ==
  ASSUME NEW l \in WindowLimit
  PROVE  l.limit \in Nat /\ l.window \in Nat /\ l.startedAt \in Nat /\ l.used \in Nat
  BY DEF WindowLimit

\* A use keeps the usage within the limit and within what the window saw.
LEMMA UseWithin ==
  ASSUME NEW l \in WindowLimit, NEW time \in Nat, NEW sats \in Nat,
         l.startedAt <= time, l.limit = 0 => l.used = 0,
         Admits(l, time, sats), NEW new, new = AfterUse(l, time, sats),
         NEW total \in Nat, NEW later \in Nat,
         l.limit # 0 => l.used <= total,
         new.startedAt = l.startedAt => later = total + sats,
         later >= sats
  PROVE  /\ new.startedAt <= time
         /\ IF new.limit = 0 THEN new.used = 0
            ELSE new.used <= new.limit /\ new.used <= later
<1>1. CASE l.limit = 0
  BY <1>1 DEF AfterUse
<1>2. CASE l.limit # 0
  <2>1. /\ new.limit = l.limit /\ new.window = l.window /\ new.used <= l.limit
        /\ \/ /\ time < l.startedAt + l.window
              /\ new.startedAt = l.startedAt /\ new.used = l.used + sats
           \/ /\ time >= l.startedAt + l.window
              /\ new.startedAt = time /\ new.used = sats
    BY <1>2, UseEffect
  <2>2. l.used \in Nat /\ l.startedAt \in Nat
    BY LimitFields
  <2> QED BY <1>2, <2>1, <2>2
<1> QED BY <1>1, <1>2

\* Minting keeps its window's usage current.
LEMMA MintKeepsUsage ==
  ASSUME EvmTypeOK, EventsType, MintsAreConsumed, MintUsed, MintFlow
  PROVE  MintUsed'
<1>1. PICK auth \in MintAuths :
        /\ minted' = minted \cup {[auth |-> auth, at |-> now]}
        /\ auth.deposit \notin depositConsumed
        /\ Admits(mintLimit, now, auth.sats)
        /\ mintLimit' = AfterUse(mintLimit, now, auth.sats)
  BY DEF MintFlow, MintWithAuthorization, ConsumeDeposit
<1>2. now \in Nat /\ now' = now /\ mintLimit \in WindowLimit /\ auth.sats \in Nat
  BY MintAuthFields DEF EvmTypeOK, MintTypeOK, MintFlow
<1> DEFINE new == [auth |-> auth, at |-> now]
           s == mintLimit.startedAt
           t == mintLimit'.startedAt
<1>3. /\ new.auth = auth /\ new.at = now /\ minted' = minted \cup {new}
      /\ new \in MintEvent
  BY <1>1, <1>2 DEF MintEvent
<1> HIDE DEF new
<1>4. new \notin minted
  BY <1>1, <1>3 DEF MintsAreConsumed
<1>5. /\ mintLimit.startedAt <= now
      /\ IF mintLimit.limit = 0 THEN mintLimit.used = 0
         ELSE /\ mintLimit.used <= mintLimit.limit
              /\ mintLimit.used <= SumOf(mintSats, MintedSince(s))
  BY DEF MintUsed, Within
<1>6. t = s \/ t = now
  <2>1. CASE mintLimit.limit = 0
    BY <1>1, <2>1 DEF AfterUse
  <2>2. CASE mintLimit.limit # 0
    BY <1>1, <1>2, <1>5, <2>2, UseEffect
  <2> QED BY <2>1, <2>2
<1> HIDE DEF s, t
<1>7. t <= now /\ s <= now
  BY <1>2, <1>5, <1>6 DEF s
<1> DEFINE total == SumOf(mintSats, MintedSince(s))
           later == SumOf(mintSats, {m \in minted' : m.at >= t})
<1>8. total \in Nat /\ later \in Nat /\ later >= auth.sats /\ (t = s => later = total + auth.sats)
  <2>1. ASSUME NEW u, u <= now
        PROVE  /\ SumOf(mintSats, {m \in minted' : m.at >= u})
                    = SumOf(mintSats, MintedSince(u)) + auth.sats
               /\ SumOf(mintSats, MintedSince(u)) \in Nat
    BY <1>3, <1>4, <2>1, MintSinceGrows DEF MintedSince
  <2>2. total \in Nat
    BY <1>7, <2>1
  <2>3. later = SumOf(mintSats, MintedSince(t)) + auth.sats /\ SumOf(mintSats, MintedSince(t)) \in Nat
    BY <1>7, <2>1
  <2> HIDE DEF later
  <2> QED BY <1>2, <2>2, <2>3
<1> HIDE DEF total, later
<1>9. /\ mintLimit'.startedAt <= now
      /\ IF mintLimit'.limit = 0 THEN mintLimit'.used = 0
         ELSE mintLimit'.used <= mintLimit'.limit /\ mintLimit'.used <= later
  BY <1>1, <1>2, <1>5, <1>8, UseWithin DEF s, t, total
<1> QED BY <1>2, <1>9 DEF MintUsed, Within, MintedSince, later, t

\* Burning keeps its window's usage current.
LEMMA BurnKeepsUsage ==
  ASSUME EvmTypeOK, EventsType, RedeemUsed, BurnFlow
  PROVE  RedeemUsed'
<1>1. BurnTypeOK /\ now \in Nat /\ redeemLimit \in WindowLimit
  BY DEF EvmTypeOK, BurnTypeOK
<1>2. PICK caller \in Users, in \in BurnInputs : Burn(caller, in)
  BY DEF BurnFlow
<1> DEFINE r == RequestOf(caller, in)
           sats == in.amount
           s == redeemLimit.startedAt
           t == redeemLimit'.startedAt
<1>3. /\ r \in RedeemRequest /\ r \notin DOMAIN redeemState /\ r.amount = sats
      /\ redeemState' = Extended(redeemState, r, "BURNED")
      /\ burnedAt' = Extended(burnedAt, r, now)
      /\ Admits(redeemLimit, now, sats)
      /\ redeemLimit' = AfterUse(redeemLimit, now, sats)
      /\ now' = now /\ sats \in Nat
  BY <1>1, <1>2, NewRequest, BurnInputFields DEF Burn, BurnFlow
<1> HIDE DEF r, sats
<1>4. /\ Requests' = Requests \cup {r} /\ r \notin Requests
      /\ burnedAt'[r] = now /\ \A q \in Requests : burnedAt'[q] = burnedAt[q]
  <2>1. DOMAIN burnedAt = Requests
    BY <1>1 DEF BurnTypeOK, Requests
  <2> QED BY <1>3, <2>1 DEF Requests, Extended
<1>5. /\ redeemLimit.startedAt <= now
      /\ IF redeemLimit.limit = 0 THEN redeemLimit.used = 0
         ELSE /\ redeemLimit.used <= redeemLimit.limit
              /\ redeemLimit.used <= SumOf(burnAmount, BurnedSince(s))
  BY DEF RedeemUsed, Within
<1>6. t = s \/ t = now
  <2>1. CASE redeemLimit.limit = 0
    BY <1>3, <2>1 DEF AfterUse
  <2>2. CASE redeemLimit.limit # 0
    BY <1>1, <1>3, <1>5, <2>2, UseEffect
  <2> QED BY <2>1, <2>2
<1> HIDE DEF s, t
<1>7. t <= now /\ s <= now
  BY <1>1, <1>5, <1>6 DEF s
<1> DEFINE total == SumOf(burnAmount, BurnedSince(s))
           later == SumOf(burnAmount, {q \in Requests' : burnedAt'[q] >= t})
<1>8. total \in Nat /\ later \in Nat /\ later >= sats /\ (t = s => later = total + sats)
  <2>1. ASSUME NEW u, u <= now
        PROVE  /\ SumOf(burnAmount, {q \in Requests' : burnedAt'[q] >= u})
                    = SumOf(burnAmount, BurnedSince(u)) + sats
               /\ SumOf(burnAmount, BurnedSince(u)) \in Nat
    BY <1>1, <1>3, <1>4, <2>1, BurnSinceGrows DEF BurnedSince
  <2>2. total \in Nat
    BY <1>7, <2>1
  <2>3. later = SumOf(burnAmount, BurnedSince(t)) + sats /\ SumOf(burnAmount, BurnedSince(t)) \in Nat
    BY <1>7, <2>1
  <2> HIDE DEF later
  <2> QED BY <1>3, <2>2, <2>3
<1> HIDE DEF total, later
<1>9. /\ redeemLimit'.startedAt <= now
      /\ IF redeemLimit'.limit = 0 THEN redeemLimit'.used = 0
         ELSE redeemLimit'.used <= redeemLimit'.limit /\ redeemLimit'.used <= later
  BY <1>1, <1>3, <1>5, <1>8, UseWithin DEF s, t, total
<1> QED BY <1>3, <1>9 DEF RedeemUsed, Within, BurnedSince, later, t

\* A new limit opens an empty window.
LEMMA NewLimitWithin ==
  ASSUME now \in Nat, NEW limit \in Nat, NEW window \in Nat, NEW total \in Nat,
         NEW l, l = NewLimit(limit, window, now)
  PROVE  Within(l, total)
  BY DEF NewLimit, Within

\* Every step keeps the mints' usage current.
LEMMA MintUsedStep ==
  ASSUME EvmTypeOK, EventsType, EventsType', MintsAreConsumed, MintUsed, [Next]_vars
  PROVE  MintUsed'
<1>1. now \in Nat /\ now' \in Nat /\ now <= now'
  <2>1. now \in Nat
    BY DEF EvmTypeOK
  <2> QED BY <2>1, TimeFrame, MaxTimeAssumption DEF NextBlock, Tick
<1>2. CASE MintFlow
  BY <1>2, MintKeepsUsage
<1>3. CASE ConfigureMintGateway
  <2>1. UNCHANGED <<minted, now>>
    BY <1>3 DEF ConfigureMintGateway, SetMintPaused, SetMinimumConfirmations, SetMintLimit
  <2>2. CASE UNCHANGED mintLimit
    BY <2>1, <2>2 DEF MintUsed, Within, MintedSince
  <2>3. CASE ~UNCHANGED mintLimit
    <3>1. PICK l \in MintLimits : mintLimit' = NewLimit(l[1], l[2], now)
      BY <1>3, <2>3 DEF ConfigureMintGateway, SetMintPaused,
         SetMinimumConfirmations, SetMintLimit
    <3>2. l[1] \in Nat /\ l[2] \in Nat
      BY MintLimitsAssumption
    <3> DEFINE total == SumOf(mintSats, {m \in minted' : m.at >= mintLimit'.startedAt})
    <3>3. total \in Nat
      <4>1. {m \in minted : m.at >= mintLimit'.startedAt} \in SUBSET minted
        OBVIOUS
      <4> QED BY <2>1, <4>1, PartsTypes
    <3> HIDE DEF total
    <3>4. Within(mintLimit', total)
      BY <1>1, <3>1, <3>2, <3>3, NewLimitWithin
    <3> QED BY <2>1, <3>4 DEF MintUsed, Within, MintedSince, total
  <2> QED BY <2>2, <2>3
<1>4. CASE UNCHANGED mintVars
  <2>1. mintLimit \in WindowLimit
    BY DEF EvmTypeOK, MintTypeOK
  <2>2. mintLimit.startedAt \in Nat
    BY <2>1, LimitFields
  <2>3. mintLimit.startedAt <= now'
    BY <1>1, <2>2 DEF MintUsed, Within
  <2> QED BY <1>4, <2>3 DEF mintVars, MintUsed, Within, MintedSince
<1> QED BY <1>2, <1>3, <1>4, MintFrame

\* And the redeems'.
LEMMA RedeemUsedStep ==
  ASSUME EvmTypeOK, EventsType, EventsType', RedeemUsed, [Next]_vars
  PROVE  RedeemUsed'
<1>1. now \in Nat /\ now' \in Nat /\ now <= now'
  <2>1. now \in Nat
    BY DEF EvmTypeOK
  <2> QED BY <2>1, TimeFrame, MaxTimeAssumption DEF NextBlock, Tick
<1>2. CASE BurnFlow
  BY <1>2, BurnKeepsUsage
<1>3. CASE ConfigureBurnGateway
  <2>1. UNCHANGED <<redeemState, burnedAt, now>>
    BY <1>3 DEF ConfigureBurnGateway, SetBurnPaused, SetRedeemLimit, OnlyBurnGateway
  <2>2. CASE UNCHANGED redeemLimit
    BY <2>1, <2>2 DEF RedeemUsed, Within, BurnedSince, Requests
  <2>3. CASE ~UNCHANGED redeemLimit
    <3>1. PICK l \in RedeemLimits : redeemLimit' = NewLimit(l[1], l[2], now)
      BY <1>3, <2>3 DEF ConfigureBurnGateway, SetBurnPaused, SetRedeemLimit
    <3>2. l[1] \in Nat /\ l[2] \in Nat
      BY BurnAssumption
    <3> DEFINE total == SumOf(burnAmount, {r \in Requests' : burnedAt'[r] >= redeemLimit'.startedAt})
    <3>3. total \in Nat
      <4>1. {r \in Requests : burnedAt[r] >= redeemLimit'.startedAt} \in SUBSET Requests
        OBVIOUS
      <4> QED BY <2>1, <4>1, PartsTypes DEF Requests
    <3> HIDE DEF total
    <3>4. Within(redeemLimit', total)
      BY <1>1, <3>1, <3>2, <3>3, NewLimitWithin
    <3> QED BY <2>1, <3>4 DEF RedeemUsed, Within, BurnedSince, total
  <2> QED BY <2>2, <2>3
<1>4. CASE \/ Complete \/ Resolve \/ UNCHANGED burnVars
  <2>1. UNCHANGED <<Requests, burnedAt, redeemLimit>>
    BY <1>4 DEF Complete, CompleteRedeemWithAuthorization, Resolve, SetRedeemState,
       burnVars, Requests
  <2>2. redeemLimit \in WindowLimit
    BY DEF EvmTypeOK, BurnTypeOK
  <2>3. redeemLimit.startedAt \in Nat
    BY <2>2, LimitFields
  <2>4. redeemLimit.startedAt <= now'
    BY <1>1, <2>3 DEF RedeemUsed, Within
  <2> QED BY <2>1, <2>4 DEF RedeemUsed, Within, BurnedSince
<1> QED BY <1>2, <1>3, <1>4, BurnFrame

\* An empty sum to start with.
LEMMA UsageInit == Init => EventsType /\ MintUsed /\ RedeemUsed
<1> SUFFICES ASSUME Init PROVE EventsType /\ MintUsed /\ RedeemUsed
  OBVIOUS
<1>1. /\ minted = {} /\ Requests = {} /\ now = 0
      /\ mintLimit = NewLimit(InitialMintLimit[1], InitialMintLimit[2], now)
      /\ redeemLimit = NewLimit(InitialRedeemLimit[1], InitialRedeemLimit[2], now)
  BY DEF Init, Requests
<1>2. EventsType
  BY <1>1, FS_EmptySet DEF EventsType, FinitelyMany
<1>3. /\ InitialMintLimit[1] \in Nat /\ InitialMintLimit[2] \in Nat
      /\ InitialRedeemLimit[1] \in Nat /\ InitialRedeemLimit[2] \in Nat
  BY BridgeAssumption
<1>4. /\ SumOf(mintSats, MintedSince(mintLimit.startedAt)) \in Nat
      /\ SumOf(burnAmount, BurnedSince(redeemLimit.startedAt)) \in Nat
  BY <1>2, PartsTypes DEF MintedSince, BurnedSince
<1> QED BY <1>1, <1>2, <1>3, <1>4, NewLimitWithin DEF MintUsed, RedeemUsed

\* Both usages are current at any time.
LEMMA UsageAlways == Spec => [](MintUsed /\ RedeemUsed)
<1>1. /\ EvmTypeOK /\ EventsType /\ EventsType' /\ MintsAreConsumed
      /\ MintUsed /\ RedeemUsed /\ [Next]_vars
      => MintUsed' /\ RedeemUsed'
  BY MintUsedStep, RedeemUsedStep
<1> QED BY <1>1, UsageInit, EvmTypeCorrect, EventsAlways, MintsConsume, PTL DEF Spec

\* Whatever limits the owners set and when, the open window's usage is within the
\* limit in force and made of what this very window saw.
THEOREM UsageStaysCurrent == Spec => []UsageIsCurrent
<1>1. EventsType /\ MintUsed /\ RedeemUsed => UsageIsCurrent
  BY UsageAsSums
<1> QED BY <1>1, EventsAlways, UsageAlways, PTL

-----------------------------------------------------------------------------
(* How much a period sees, under a limit that is never reset.               *)

MintedIn(from, until) == {m \in minted : from <= m.at /\ m.at < until}

\* The owner sets the mint limit anew.
MintLimitReset ==
  \E caller \in Users, l \in MintLimits : SetMintLimit(caller, l[1], l[2])

\* A period that reaches into the open window began in the window before it or in
\* the time between, so what it saw before the open window is within one limit;
\* one that ended earlier met at most two windows.  Nothing was minted after the
\* open window's end, and its usage is exactly what it saw.
RateInv ==
  InitialMintLimit[1] # 0 =>
    LET limit == InitialMintLimit[1]
        window == InitialMintLimit[2]
        open == mintLimit.startedAt
    IN  /\ mintLimit.limit = limit /\ mintLimit.window = window
        /\ \A m \in minted : m.at < open + window
        /\ SumOf(mintSats, MintedSince(open)) <= mintLimit.used
        /\ \A start \in 0 .. MaxTime :
             /\ start + window > open =>
                  SumOf(mintSats, MintedIn(start, open)) <= limit
             /\ start + window <= open =>
                  SumOf(mintSats, MintedIn(start, start + window)) <= 2 * limit

\* The numbers that occur.
LEMMA RateTypes ==
  ASSUME EvmTypeOK, EventsType, MintUsed, RateInv, InitialMintLimit[1] # 0
  PROVE  /\ InitialMintLimit[1] \in Nat /\ InitialMintLimit[2] \in Nat
         /\ InitialMintLimit[2] > 0
         /\ mintLimit \in WindowLimit
         /\ mintLimit.startedAt \in Nat /\ mintLimit.used \in Nat
         /\ mintLimit.startedAt <= now /\ mintLimit.used <= InitialMintLimit[1]
         /\ now \in Nat /\ \A m \in minted : m.at \in Nat
         /\ MaxTime \in Nat
<1>1. /\ InitialMintLimit[1] \in Nat /\ InitialMintLimit[2] \in Nat
      /\ InitialMintLimit[2] > 0
  BY BridgeAssumption DEF ValidLimit
<1>2. mintLimit \in WindowLimit /\ now \in Nat
  BY DEF EvmTypeOK, MintTypeOK
<1>3. mintLimit.startedAt \in Nat /\ mintLimit.used \in Nat
  BY <1>2, LimitFields
<1>4. mintLimit.startedAt <= now /\ mintLimit.used <= InitialMintLimit[1]
  BY DEF MintUsed, Within, RateInv
<1>5. \A m \in minted : m.at \in Nat
  BY DEF EventsType, MintEvent
<1> QED BY <1>1, <1>2, <1>3, <1>4, <1>5, MaxTimeAssumption

\* So any period sees at most two limits.
LEMMA RateCovers ==
  ASSUME EvmTypeOK, EventsType, MintUsed, RateInv, InitialMintLimit[1] # 0,
         NEW start \in 0 .. MaxTime
  PROVE  SumOf(mintSats, MintedIn(start, start + InitialMintLimit[2]))
           <= 2 * InitialMintLimit[1]
<1> DEFINE limit == InitialMintLimit[1]
           window == InitialMintLimit[2]
           open == mintLimit.startedAt
           period == MintedIn(start, start + window)
           before == MintedIn(start, open)
           since == MintedSince(open)
<1>1. /\ limit \in Nat /\ window \in Nat /\ open \in Nat /\ mintLimit.used \in Nat
      /\ mintLimit.used <= limit /\ \A m \in minted : m.at \in Nat
      /\ MaxTime \in Nat
  BY RateTypes
<1>2. CASE start + window <= open
  BY <1>2 DEF RateInv
<1>3. CASE start + window > open
  <2>1. SumOf(mintSats, before) <= limit /\ SumOf(mintSats, since) <= mintLimit.used
    BY <1>3 DEF RateInv
  <2>2. period \subseteq before \cup since
    BY <1>1 DEF MintedIn, MintedSince
  <2>3. /\ period \in SUBSET minted /\ before \in SUBSET minted /\ since \in SUBSET minted
    BY DEF MintedIn, MintedSince
  <2> HIDE DEF period, before, since
  <2>4. /\ IsFiniteSet(before) /\ IsFiniteSet(since)
        /\ SumOf(mintSats, period) \in Nat /\ SumOf(mintSats, before) \in Nat
        /\ SumOf(mintSats, since) \in Nat
        /\ \A m \in before \cup since : mintSats[m] \in Nat
    BY <2>3, PartsTypes
  <2>5. SumOf(mintSats, period) <= SumOf(mintSats, before) + SumOf(mintSats, since)
    BY <2>2, <2>4, SumCover
  <2>6. SumOf(mintSats, period) <= 2 * limit
    <3> HIDE DEF limit
    <3> QED BY <1>1, <2>1, <2>4, <2>5
  <2> QED BY <2>6 DEF period
<1>4. (start + window <= open) \/ (start + window > open)
  BY <1>1
<1> QED BY <1>2, <1>3, <1>4

\* A mint keeps that.
LEMMA MintKeepsRate ==
  ASSUME EvmTypeOK, EventsType, MintsAreConsumed, MintUsed, RateInv, MintFlow
  PROVE  RateInv'
<1> SUFFICES ASSUME InitialMintLimit[1] # 0 PROVE RateInv'
  BY DEF RateInv
<1> DEFINE limit == InitialMintLimit[1]
           window == InitialMintLimit[2]
           open == mintLimit.startedAt
           new == mintLimit'
<1>1. PICK auth \in MintAuths :
        /\ minted' = minted \cup {[auth |-> auth, at |-> now]}
        /\ auth.deposit \notin depositConsumed
        /\ Admits(mintLimit, now, auth.sats)
        /\ new = AfterUse(mintLimit, now, auth.sats)
  BY DEF MintFlow, MintWithAuthorization, ConsumeDeposit
<1>2. auth.sats \in Nat
  BY MintAuthFields
<1>3. /\ limit \in Nat /\ window \in Nat /\ window > 0 /\ mintLimit \in WindowLimit
      /\ open \in Nat /\ mintLimit.used \in Nat /\ open <= now /\ now \in Nat
      /\ mintLimit.used <= limit /\ MaxTime \in Nat
      /\ \A m \in minted : m.at \in Nat
  BY RateTypes
<1>4. /\ mintLimit.limit = limit /\ mintLimit.window = window
      /\ \A m \in minted : m.at < open + window
      /\ SumOf(mintSats, MintedSince(open)) <= mintLimit.used
  BY DEF RateInv
<1>5. /\ new.limit = limit /\ new.window = window
      /\ \/ /\ now < open + window
            /\ new.startedAt = open /\ new.used = mintLimit.used + auth.sats
         \/ /\ now >= open + window
            /\ new.startedAt = now /\ new.used = auth.sats
  BY <1>1, <1>2, <1>3, <1>4, UseEffect
<1> DEFINE e == [auth |-> auth, at |-> now]
<1>6. e.auth = auth /\ e.at = now /\ minted' = minted \cup {e} /\ e \in MintEvent
  BY <1>1, <1>3 DEF MintEvent
<1> HIDE DEF e
<1>7. e \notin minted
  BY <1>1, <1>6 DEF MintsAreConsumed
<1>8. ASSUME NEW u, u <= now
      PROVE  /\ SumOf(mintSats, {m \in minted' : m.at >= u})
                  = SumOf(mintSats, MintedSince(u)) + auth.sats
             /\ SumOf(mintSats, MintedSince(u)) \in Nat
  BY <1>6, <1>7, <1>8, MintSinceGrows DEF MintedSince
<1>9. ASSUME NEW from, NEW until \in Nat, until <= now
      PROVE  MintedIn(from, until)' = MintedIn(from, until)
  BY <1>3, <1>6, <1>9 DEF MintedIn
<1>10. new.startedAt \in Nat /\ new.startedAt <= now
  BY <1>3, <1>5
<1>11. \A m \in minted' : m.at < new.startedAt + window
  BY <1>3, <1>4, <1>5, <1>6
<1>12. SumOf(mintSats, {m \in minted' : m.at >= new.startedAt}) <= new.used
  <2>1. CASE now < open + window /\ new.startedAt = open /\ new.used = mintLimit.used + auth.sats
    <3>1. SumOf(mintSats, {m \in minted' : m.at >= open})
            = SumOf(mintSats, MintedSince(open)) + auth.sats
          /\ SumOf(mintSats, MintedSince(open)) \in Nat
      BY <1>3, <1>8
    <3> QED BY <1>2, <1>3, <1>4, <2>1, <3>1
  <2>2. CASE now >= open + window /\ new.startedAt = now /\ new.used = auth.sats
    <3>1. MintedSince(now) = {}
      BY <1>3, <1>4, <2>2 DEF MintedSince
    <3>2. SumOf(mintSats, {m \in minted' : m.at >= now})
            = SumOf(mintSats, MintedSince(now)) + auth.sats
      BY <1>3, <1>8
    <3>3. SumOf(mintSats, MintedSince(now)) = 0
      BY <3>1, SumEmpty
    <3> QED BY <1>2, <2>2, <3>2, <3>3
  <2> QED BY <1>5, <2>1, <2>2
<1>13. ASSUME NEW start \in 0 .. MaxTime
       PROVE  /\ start + window > new.startedAt =>
                   SumOf(mintSats, MintedIn(start, new.startedAt)) <= limit
              /\ start + window <= new.startedAt =>
                   SumOf(mintSats, MintedIn(start, start + window)) <= 2 * limit
  <2>0. start \in Nat
    BY <1>3
  <2>1. SumOf(mintSats, MintedIn(start, start + window)) <= 2 * limit
    BY RateCovers
  <2>2. CASE new.startedAt = open
    BY <2>1, <2>2 DEF RateInv
  <2>3. CASE now >= open + window /\ new.startedAt = now
    <3>1. ASSUME start + window > now
          PROVE  SumOf(mintSats, MintedIn(start, now)) <= limit
      <4> DEFINE part == MintedIn(start, now)
                 since == MintedSince(open)
      <4>1. part \in SUBSET since /\ part \in SUBSET minted /\ since \in SUBSET minted
        BY <1>3, <2>0, <2>3, <3>1 DEF MintedIn, MintedSince
      <4> HIDE DEF part, since
      <4>2. /\ IsFiniteSet(since) /\ \A m \in since : mintSats[m] \in Nat
            /\ SumOf(mintSats, part) \in Nat /\ SumOf(mintSats, since) \in Nat
        BY <4>1, PartsTypes
      <4>3. SumOf(mintSats, part) <= SumOf(mintSats, since)
        BY <4>1, <4>2, SumSubset
      <4>4. SumOf(mintSats, since) <= mintLimit.used
        BY <1>4 DEF since
      <4> HIDE DEF limit
      <4>5. SumOf(mintSats, part) <= limit
        BY <1>3, <4>2, <4>3, <4>4
      <4> QED BY <4>5 DEF part
    <3> QED BY <2>1, <2>3, <3>1
  <2> QED BY <1>5, <2>2, <2>3
<1>14. ASSUME NEW start \in 0 .. MaxTime
       PROVE  /\ start + window > new.startedAt =>
                   SumOf(mintSats, {m \in minted' : start <= m.at /\ m.at < new.startedAt}) <= limit
              /\ start + window <= new.startedAt =>
                   SumOf(mintSats, {m \in minted' : start <= m.at /\ m.at < start + window}) <= 2 * limit
  <2>1. {m \in minted' : start <= m.at /\ m.at < new.startedAt} = MintedIn(start, new.startedAt)
    BY <1>3, <1>6, <1>10 DEF MintedIn
  <2>2. start + window <= new.startedAt =>
          {m \in minted' : start <= m.at /\ m.at < start + window} = MintedIn(start, start + window)
    BY <1>3, <1>6, <1>10 DEF MintedIn
  <2> QED BY <1>13, <2>1, <2>2
<1> QED BY <1>5, <1>11, <1>12, <1>14 DEF RateInv, MintedIn, MintedSince

\* So does every step that does not reset the limit.
LEMMA RateStep ==
  ASSUME EvmTypeOK, EventsType, MintsAreConsumed, MintUsed, RateInv,
         [Next]_vars, [~MintLimitReset]_vars
  PROVE  RateInv'
<1>1. CASE MintFlow
  BY <1>1, MintKeepsRate
<1>2. CASE ConfigureMintGateway
  <2>1. UNCHANGED <<mintLimit, minted>>
    BY <1>2 DEF ConfigureMintGateway, SetMintPaused, SetMinimumConfirmations,
       MintLimitReset, vars, mintVars
  <2> QED BY <2>1 DEF RateInv, MintedIn, MintedSince
<1>3. CASE UNCHANGED mintVars
  BY <1>3 DEF mintVars, RateInv, MintedIn, MintedSince
<1> QED BY <1>1, <1>2, <1>3, MintFrame

\* As long as the owner does not reset a limit set at deployment, no period of the
\* window's length, wherever it starts, sees more than twice the limit minted: a
\* fixed window admits one burst at its end and one at the next one's beginning.
THEOREM RateIsBounded == Spec /\ [][~MintLimitReset]_vars => []MintRate
<1>1. Init => RateInv
  <2> SUFFICES ASSUME Init PROVE RateInv
    OBVIOUS
  <2>1. minted = {}
    BY DEF Init
  <2>2. /\ InitialMintLimit[1] \in Nat /\ InitialMintLimit[2] \in Nat
    BY BridgeAssumption
  <2>3. /\ mintLimit.limit = InitialMintLimit[1] /\ mintLimit.window = InitialMintLimit[2]
        /\ mintLimit.used = 0
    BY DEF Init, NewLimit
  <2>4. \A a, b : MintedIn(a, b) = {} /\ MintedSince(a) = {}
    BY <2>1 DEF MintedIn, MintedSince
  <2>5. \A a, b : /\ SumOf(mintSats, MintedIn(a, b)) = 0
                  /\ SumOf(mintSats, MintedSince(a)) = 0
    BY <2>4, SumEmpty
  <2>6. 0 <= InitialMintLimit[1] /\ 0 <= 2 * InitialMintLimit[1]
    BY <2>2
  <2> QED BY <2>1, <2>3, <2>5, <2>6 DEF RateInv
<1>2. /\ EvmTypeOK /\ EventsType /\ MintsAreConsumed /\ MintUsed /\ RateInv
      /\ [Next]_vars /\ [~MintLimitReset]_vars
      => RateInv'
  BY RateStep
<1>3. EvmTypeOK /\ EventsType /\ MintUsed /\ RateInv => MintRate
  <2> SUFFICES ASSUME EvmTypeOK, EventsType, MintUsed, RateInv,
                      InitialMintLimit[1] # 0, NEW start \in 0 .. MaxTime
               PROVE  MapThenSumSet(LAMBDA m : m.auth.sats,
                        {m \in minted : /\ start <= m.at
                                        /\ m.at < start + InitialMintLimit[2]})
                        <= 2 * InitialMintLimit[1]
    BY DEF MintRate
  <2> DEFINE S == {m \in minted : /\ start <= m.at
                                  /\ m.at < start + InitialMintLimit[2]}
  <2>1. S = MintedIn(start, start + InitialMintLimit[2]) /\ S \in SUBSET minted
    BY DEF MintedIn
  <2>2. SumOf(mintSats, S) <= 2 * InitialMintLimit[1]
    BY <2>1, RateCovers
  <2> HIDE DEF S
  <2>3. IsFiniteSet(S) /\ S \subseteq MintEvent
    BY <2>1, PartsTypes
  <2>4. MapThenSumSet(LAMBDA m : m.auth.sats, S) = SumOf(mintSats, S)
    BY <2>3, SatsSum
  <2>5. MapThenSumSet(LAMBDA m : m.auth.sats, S) <= 2 * InitialMintLimit[1]
    BY <2>2, <2>4
  <2> QED BY <2>5 DEF S
<1> QED BY <1>1, <1>2, <1>3, EvmTypeCorrect, EventsAlways, MintsConsume,
        UsageAlways, PTL DEF Spec

=============================================================================
