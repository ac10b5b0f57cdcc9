---------------------------- MODULE MintGateway ----------------------------
(***************************************************************************)
(* contracts/MintGateway.sol: the only way deposits become wrapped tokens. *)
(* Its one flow calls the verifier, the registry and the token in a single *)
(* transaction, so a revert anywhere undoes all of it.                     *)
(***************************************************************************)
EXTENDS WrappedBitcoin, DepositRegistry, ChainlinkVerifier, WindowLimit

MintAuthorization ==
  [domain : {"here", "elsewhere"}, network : {"here", "elsewhere"},
   deposit : Intents, recipient : Users \cup {NoOne}, addressHash : Nat,
   utxo : Utxos, sats : 0 .. MaxUint, confirmations : Nat, deadline : Nat]

ASSUME MintAuthsAssumption == MintAuths \subseteq MintAuthorization

CONSTANTS MintLimits       \* the <<limit, window>> pairs the owner may set

ASSUME MintLimitsAssumption == MintLimits \subseteq Nat \X Nat

VARIABLES mintPaused, minimumConfirmations, mintLimit,
          minted           \* MintExecuted events: the authorization and its time

mintVars == <<mintPaused, minimumConfirmations, mintLimit, minted>>

MintTypeOK ==
  /\ mintPaused \in BOOLEAN
  /\ minimumConfirmations \in Nat \ {0}
  /\ mintLimit \in WindowLimit
  /\ minted \subseteq [auth : MintAuths, at : Nat]

SetMintPaused(caller, paused) ==
  /\ OnlyOwner("MintGateway", caller)
  /\ mintPaused' = paused
  /\ UNCHANGED <<minimumConfirmations, mintLimit, minted>>

SetMinimumConfirmations(caller, n) ==
  /\ OnlyOwner("MintGateway", caller)
  /\ n # 0
  /\ minimumConfirmations' = n
  /\ UNCHANGED <<mintPaused, mintLimit, minted>>

SetMintLimit(caller, limit, window) ==
  /\ OnlyOwner("MintGateway", caller)
  /\ ValidLimit(limit, window)
  /\ mintLimit' = NewLimit(limit, window, now)
  /\ UNCHANGED <<mintPaused, minimumConfirmations, minted>>

\* _enforceAmountPolicy.
AmountAllowed(intent, sats) ==
  IF intent.mode = "EXACT"
  THEN intent.expectedSats # 0 /\ sats = intent.expectedSats
  ELSE /\ intent.minSats # 0 /\ intent.maxSats # 0
       /\ intent.minSats <= sats /\ sats <= intent.maxSats

\* The gateway's own checks of an authorization against the caller's intent.
AuthorizationFits(intent, auth) ==
  /\ auth.network = "here"
  /\ auth.confirmations >= minimumConfirmations
  /\ auth.deposit = intent
  /\ auth.recipient = intent.recipient
  /\ auth.addressHash = intent.addressHash
  /\ AmountAllowed(intent, auth.sats)

\* mintWithAuthorization; anyone may call it.
MintWithAuthorization(intent, auth, id) ==
  /\ ~mintPaused
  /\ now <= intent.expiry
  /\ AuthorizationFits(intent, auth)
  /\ Verifies("MINT", auth, id)
  /\ Admits(mintLimit, now, auth.sats)
  /\ mintLimit' = AfterUse(mintLimit, now, auth.sats)
  /\ ConsumeDeposit("MintGateway", auth.deposit, auth.utxo)
  /\ Mint("MintGateway", auth.recipient, auth.sats)
  /\ minted' = minted \cup {[auth |-> auth, at |-> now]}
  /\ UNCHANGED <<mintPaused, minimumConfirmations>>

=============================================================================
