---------------------------- MODULE BurnGateway ----------------------------
(***************************************************************************)
(* contracts/BurnGateway.sol: redeem requests from their burn to their     *)
(* completion.  A redeemRequestHash is the request it hashes, a redeemId   *)
(* the pair of a burn log position and a request.                          *)
(***************************************************************************)
EXTENDS WrappedBitcoin, ChainlinkVerifier, WindowLimit

CONSTANTS BurnLogs,        \* (burnTxHash, burnLogIndex) positions
          BurnInputs,      \* what requesters pass to burn
          RedeemLimits     \* the <<limit, window>> pairs the owner may set

BurnInput == [script : {"p2wpkh", "p2wsh", "p2tr", "other"}, amount : Nat,
              maxMinerFee : Nat, deadline : Nat]

RedeemRequest ==
  [requester : Users, script : {"p2wpkh", "p2wsh", "p2tr"}, amount : Nat,
   maxMinerFee : Nat, deadline : Nat, nonce : Nat]

ReleaseAuthorization ==
  [domain : {"here", "elsewhere"}, network : {"here", "elsewhere"},
   request : RedeemRequest, redeemId : BurnLogs \X RedeemRequest,
   burnLog : BurnLogs, requester : Users,
   script : {"p2wpkh", "p2wsh", "p2tr", "other"}, amount : Nat,
   maxMinerFee : Nat, plan : STRING, deadline : Nat]

RedeemStates == {"BURNED", "CONSUMED", "CANCELLED", "MANUALLY_RESOLVED"}

ASSUME BurnAssumption ==
  /\ BurnInputs \subseteq BurnInput
  /\ ReleaseAuths \subseteq ReleaseAuthorization
  /\ RedeemLimits \subseteq Nat \X Nat
  /\ "BurnGateway" \in Spenders

VARIABLES burnPaused, redeemLimit, nextRedeemNonce,
          redeemState,     \* the records: a function on the requests made
          burnedAt,        \* the RedeemRequested events' times, likewise
          redeemIdConsumed

burnVars == <<burnPaused, redeemLimit, nextRedeemNonce, redeemState, burnedAt,
              redeemIdConsumed>>

BurnTypeOK ==
  /\ burnPaused \in BOOLEAN
  /\ redeemLimit \in WindowLimit
  /\ nextRedeemNonce \in [Users -> Nat]
  /\ DOMAIN redeemState \subseteq RedeemRequest
  /\ redeemState \in [DOMAIN redeemState -> RedeemStates]
  /\ burnedAt \in [DOMAIN redeemState -> Nat]
  /\ redeemIdConsumed \subseteq BurnLogs \X RedeemRequest

SetBurnPaused(caller, paused) ==
  /\ OnlyOwner("BurnGateway", caller)
  /\ burnPaused' = paused
  /\ UNCHANGED <<redeemLimit, nextRedeemNonce, redeemState, burnedAt,
                 redeemIdConsumed>>

\* Mutant of SetRedeemLimit: a new limit keeps the open window and its usage.
SetRedeemLimitMidWindow(caller, limit, window) ==
  /\ OnlyOwner("BurnGateway", caller)
  /\ ValidLimit(limit, window)
  /\ redeemLimit' = [redeemLimit EXCEPT !.limit = limit, !.window = window]
  /\ UNCHANGED <<burnPaused, nextRedeemNonce, redeemState, burnedAt,
                 redeemIdConsumed>>

SetRedeemLimit(caller, limit, window) ==
  /\ OnlyOwner("BurnGateway", caller)
  /\ ValidLimit(limit, window)
  /\ redeemLimit' = NewLimit(limit, window, now)
  /\ UNCHANGED <<burnPaused, nextRedeemNonce, redeemState, burnedAt,
                 redeemIdConsumed>>

AllowedDestinationScript(script) == script \in {"p2wpkh", "p2wsh", "p2tr"}

\* f with x mapped to v as well.
Extended(f, x, v) ==
  [y \in DOMAIN f \cup {x} |-> IF y = x THEN v ELSE f[y]]

\* The request a burn stores: its requester's next nonce makes it a new one.
RequestOf(caller, in) ==
  [requester |-> caller, script |-> in.script, amount |-> in.amount,
   maxMinerFee |-> in.maxMinerFee, deadline |-> in.deadline,
   nonce |-> nextRedeemNonce[caller]]

Burn(caller, in) ==
  /\ ~burnPaused
  /\ AllowedDestinationScript(in.script)
  /\ in.amount # 0
  /\ in.maxMinerFee < in.amount
  /\ now <= in.deadline
  /\ nextRedeemNonce' = [nextRedeemNonce EXCEPT ![caller] = @ + 1]
  /\ RequestOf(caller, in) \notin DOMAIN redeemState
  /\ Admits(redeemLimit, now, in.amount)
  /\ redeemLimit' = AfterUse(redeemLimit, now, in.amount)
  /\ BurnFrom("BurnGateway", caller, in.amount)
  /\ redeemState' = Extended(redeemState, RequestOf(caller, in), "BURNED")
  /\ burnedAt' = Extended(burnedAt, RequestOf(caller, in), now)
  /\ UNCHANGED <<burnPaused, redeemIdConsumed>>

\* What completeRedeemWithAuthorization compares with the stored request.
MatchesRequest(auth) ==
  /\ auth.requester = auth.request.requester
  /\ auth.script = auth.request.script
  /\ auth.amount = auth.request.amount
  /\ auth.maxMinerFee = auth.request.maxMinerFee
  /\ auth.redeemId = <<auth.burnLog, auth.request>>

\* Mutant of MayConsume: only the redeemId is checked, not the record's state.
MayConsumeById(auth) ==
  /\ auth.request \in DOMAIN redeemState
  /\ auth.redeemId \notin redeemIdConsumed

MayConsume(auth) ==
  /\ auth.request \in DOMAIN redeemState
  /\ redeemState[auth.request] = "BURNED"
  /\ auth.redeemId \notin redeemIdConsumed

\* completeRedeemWithAuthorization; anyone may call it.  The deadline checked
\* is the authorization's, never the request's.
CompleteRedeemWithAuthorization(auth, id) ==
  /\ ~burnPaused
  /\ auth.network = "here"
  /\ MayConsume(auth)
  /\ MatchesRequest(auth)
  /\ Verifies("RELEASE", auth, id)
  /\ redeemIdConsumed' = redeemIdConsumed \cup {auth.redeemId}
  /\ redeemState' = [redeemState EXCEPT ![auth.request] = "CONSUMED"]
  /\ UNCHANGED <<burnPaused, redeemLimit, nextRedeemNonce, burnedAt>>

\* Mutant of AllowedTransition: a cancelled redeem may be put back to BURNED.
AllowedTransitionReopen(from, to) ==
  \/ from = "BURNED" /\ to \in {"CANCELLED", "MANUALLY_RESOLVED"}
  \/ from = "CANCELLED" /\ to \in {"BURNED", "MANUALLY_RESOLVED"}

\* _isAllowedStateTransition.
AllowedTransition(from, to) ==
  \/ from = "BURNED" /\ to \in {"CANCELLED", "MANUALLY_RESOLVED"}
  \/ from = "CANCELLED" /\ to = "MANUALLY_RESOLVED"

SetRedeemState(caller, request, state) ==
  /\ OnlyOwner("BurnGateway", caller)
  /\ request \in DOMAIN redeemState
  /\ AllowedTransition(redeemState[request], state)
  /\ redeemState' = [redeemState EXCEPT ![request] = state]
  /\ UNCHANGED <<burnPaused, redeemLimit, nextRedeemNonce, burnedAt,
                 redeemIdConsumed>>

=============================================================================
