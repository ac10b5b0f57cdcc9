--------------------------- MODULE ReleaseChecks ---------------------------
(***************************************************************************)
(* What a release artifact must satisfy at each door it passes: the checks *)
(* of the Functions source (chainlink/functions/release-authorization.js), *)
(* of the DON's preflight (scripts/lib/don-release-verifier.js behind      *)
(* don-release-adapter.js), of a spend plan (authorization-validator.js)   *)
(* and of the PSBT it is taken from (bitcoin-psbt.js).  A check that fails *)
(* throws: here it is a predicate that is false.  A record stands for an   *)
(* artifact of one schema; field order and encodings are left out.         *)
(***************************************************************************)
EXTENDS AttestationVerifier, Functions

CONSTANTS Domain, Network, SourceChain,   \* the local policy's expected values
          SignerSet, Threshold,           \* the configured signers, in order
          MaxTtl, MaxClockSkew, MinTimeToDeadline

ASSUME ReleaseChecksAssumption ==
  /\ SignerSet \in Seq(Nat) /\ ValidSignerSet(SignerSet, Threshold)
  /\ MaxTtl \in Nat /\ MaxClockSkew \in Nat /\ MinTimeToDeadline \in Nat

-----------------------------------------------------------------------------
(* Identities: what the hashes are taken over. *)

ScriptHash(script) == Digest(script)

Terms == {"requester", "dest", "amount", "maxFee", "deadline", "nonce"}
RequestHash(domain, e) == Digest(<<domain, [f \in Terms |-> e[f]]>>)
RedeemId(domain, tx, log, hash) == Digest(<<domain, tx, log, hash>>)

InputsCommitment(plan) == Digest(plan.inputs)
OutputsCommitment(plan) == Digest(plan.outputs)
PsbtPolicyHash(plan, changePolicy) ==
  Digest(<<plan.fee, plan.version, plan.locktime, plan.sighash, changePolicy>>)

-----------------------------------------------------------------------------
(* The spend plan of a PSBT.  A PSBT's input also has a sequence number,    *)
(* which the plan does not carry: PSBTs that differ in it alone have one    *)
(* plan, and with it one digest (unsignedPsbtDigest is the plan's).         *)

Total(seq) == SumFunction([i \in DOMAIN seq |-> seq[i].value])

Fee(psbt) == Total(psbt.inputs) - Total(psbt.outputs)

\* sighashTypeFromPsbt: the type the inputs state, all of them the same one.
Sighash(psbt) ==
  LET stated == {psbt.inputs[i].sighash : i \in DOMAIN psbt.inputs} \ {0}
  IN  IF stated = {} THEN 1 ELSE CHOOSE type \in stated : TRUE

Extractable(psbt) ==
  /\ Fee(psbt) >= 0
  /\ Cardinality({psbt.inputs[i].sighash : i \in DOMAIN psbt.inputs} \ {0}) <= 1
  /\ \A i \in DOMAIN psbt.inputs : psbt.inputs[i].utxo # "none"

SpendPlan(psbt) ==
  [network |-> psbt.network,
   inputs |-> [i \in DOMAIN psbt.inputs |->
                 [coin |-> psbt.inputs[i].coin, value |-> psbt.inputs[i].value,
                  script |-> psbt.inputs[i].script]],
   outputs |-> psbt.outputs, fee |-> Fee(psbt),
   version |-> psbt.version, locktime |-> psbt.locktime, sighash |-> Sighash(psbt)]

SpendPlanDigest(plan) == Digest(plan)

\* buildP2wpkhSpendPsbt: the destination, then the change if there is any.
BuildSpendPsbt(coins, destination, amount, fee, change, sequence) ==
  LET inputs == [i \in DOMAIN coins |->
                   [coin |-> coins[i].coin, value |-> coins[i].value, script |-> coins[i].script,
                    utxo |-> "witness", sighash |-> 0, sequence |-> sequence]]
      rest == Total(coins) - amount - fee
  IN  [network |-> Network, inputs |-> inputs, version |-> 2, locktime |-> 0,
       outputs |-> <<[script |-> destination, value |-> amount]>>
                   \o IF rest > 0 THEN <<[script |-> change, value |-> rest]>> ELSE << >>]

\* verifyReleaseSpendPlan: what an authorization commits to is this plan.
VerifyReleaseSpendPlan(a, plan) ==
  /\ plan.network = a.network
  /\ a.inputs = InputsCommitment(plan) /\ a.outputs = OutputsCommitment(plan)
  /\ a.policy = PsbtPolicyHash(plan, a.changePolicy)
  /\ plan.fee <= a.maxFee
  /\ \E i \in DOMAIN plan.outputs : /\ ScriptHash(plan.outputs[i].script) = a.dest
                                    /\ plan.outputs[i].value = a.amount

\* assertFinalTransactionMatchesSpendPlan: the transaction is the plan's,
\* inputs and outputs in order; fee and input values are not in it.
FinalTransactionMatches(tx, plan) ==
  /\ tx.version = plan.version /\ tx.locktime = plan.locktime
  /\ DOMAIN tx.inputs = DOMAIN plan.inputs /\ DOMAIN tx.outputs = DOMAIN plan.outputs
  /\ \A i \in DOMAIN plan.inputs : tx.inputs[i].coin = plan.inputs[i].coin
  /\ \A i \in DOMAIN plan.outputs : tx.outputs[i] = plan.outputs[i]

-----------------------------------------------------------------------------
(* Authorizations and burn events.  makeReleaseAuthorization: the burn's    *)
(* terms, the plan's commitments and a period from now.                     *)

MakeReleaseAuthorization(event, plan, changePolicy, time, ttl) ==
  [domain |-> Domain, hash |-> event.hash,
   id |-> RedeemId(Domain, event.tx, event.log, event.hash),
   network |-> plan.network, chain |-> SourceChain, tx |-> event.tx, log |-> event.log,
   requester |-> event.requester, dest |-> event.dest, amount |-> event.amount,
   maxFee |-> event.maxFee, changePolicy |-> changePolicy,
   inputs |-> InputsCommitment(plan), outputs |-> OutputsCommitment(plan),
   policy |-> PsbtPolicyHash(plan, changePolicy),
   timestamp |-> time, deadline |-> time + ttl]

\* assertEventMatchesAuthorization.
EventMatches(e, a) ==
  \A f \in {"hash", "tx", "log", "requester", "dest", "amount", "maxFee"} : e[f] = a[f]

\* assertEventsAgree: every field but the block's number.
EventsAgree(primary, secondary) ==
  \A f \in {"hash", "tx", "log", "blockHash", "script"} \cup Terms : primary[f] = secondary[f]

\* verifyAuthorizationWindow.
AuthorizationWindow(a, time) ==
  /\ a.timestamp <= a.deadline
  /\ a.timestamp <= time + MaxClockSkew
  /\ time <= a.deadline /\ a.deadline - time >= MinTimeToDeadline
  /\ a.deadline - a.timestamp <= MaxTtl

\* verifyRedeemEvent: the event's own hashes, its terms in the authorization
\* and the redeem's identity.
VerifyRedeemEvent(a, e) ==
  /\ ScriptHash(e.script) = e.dest
  /\ RequestHash(a.domain, e) = e.hash
  /\ EventMatches(e, a)
  /\ a.id = RedeemId(a.domain, a.tx, a.log, a.hash)

\* compareRedeemEvents: the block's number too.
CompareRedeemEvents(primary, secondary) ==
  EventsAgree(primary, secondary) /\ primary.block = secondary.block

\* verifySecondaryRedeemEvent, where the policy requires a second source.
VerifySecondaryRedeemEvent(a, primary, secondary) ==
  /\ CompareRedeemEvents(primary, secondary)
  /\ VerifyRedeemEvent(a, secondary)

\* verifySpendPlanInputs: the plan sent, and the plan of a PSBT sent with it
\* (sent is a set of none or one), are what the authorization commits to.
VerifySpendPlanInputs(a, sent, plan) ==
  /\ VerifyReleaseSpendPlan(a, plan)
  /\ \A psbt \in sent : /\ Extractable(psbt) /\ VerifyReleaseSpendPlan(a, SpendPlan(psbt))
                         /\ SpendPlanDigest(SpendPlan(psbt)) = SpendPlanDigest(plan)

\* verifyDonReleaseRequest as the adapter calls it, local policy first.
Preflight(a, primary, secondary, sent, plan, time) ==
  /\ a.domain = Domain /\ a.network = Network /\ a.chain = SourceChain
  /\ AuthorizationWindow(a, time)
  /\ VerifyRedeemEvent(a, primary)
  /\ VerifySecondaryRedeemEvent(a, primary, secondary)
  /\ VerifySpendPlanInputs(a, sent, plan)

\* What verifyPsbtSigningPolicy asks besides: this bridge's authorization, and
\* a PSBT whose own plan is what the authorization commits to.
CommitsTo(a, psbt) ==
  /\ a.domain = Domain /\ a.network = Network /\ psbt.network = a.network
  /\ Extractable(psbt) /\ VerifyReleaseSpendPlan(a, SpendPlan(psbt))
=============================================================================
