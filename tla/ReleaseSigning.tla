--------------------------- MODULE ReleaseSigning ---------------------------
(***************************************************************************)
(* From a burn to a signed Bitcoin transaction: the approval of            *)
(* ReleaseApproval, the attestations and the policy signer of BtcSigner,   *)
(* which do not wait for that approval, and what holds of the whole.       *)
(***************************************************************************)
EXTENDS BtcSigner

CONSTANT NoPlan

ASSUME NoPlanAssumption == NoPlan \notin Plans

vars == <<approvalVars, signerVars>>

Init == ApprovalInit /\ SignerInit

Next == \/ (Chaining \/ Approving) /\ UNCHANGED signerVars
        \/ Signing

Spec == Init /\ [][Next]_vars

\* An operator who has a release's artifacts keeps running the command on
\* them, and a run that has begun goes on unless its process ends.
Fairness ==
  /\ \A r \in Runs : WF_vars(RunInserts(r) \/ RunSigns(r) \/ RunMarks(r))
  /\ \A x \in Committed : SF_vars(RunBegins(x[1], x[2], FALSE))

FairSpec == Spec /\ Fairness

-----------------------------------------------------------------------------
(* Properties. *)

\* Every variable keeps the values its code gives it.
SigningTypeOK == ApprovalTypeOK /\ SignerTypeOK

\* What the source approved is final and stays so: the burn's log is where it
\* was read, under Finality blocks, on the chain as it is now.  The exception
\* is named: events and heights are read by separate calls
\* (release-authorization.js:169-182), and an execution across which a
\* provider moved to a fork without that log approves it all the same.
ApprovedIsFinal ==
  \A x \in approved :
    \/ x.moved
    \/ /\ placed[chain.fork] = x.place
       /\ chain.height - x.place.block >= Finality

\* An honest signer attested before every signature, however few signers
\* anyone else put together, repeated or made up, and the transaction signed is
\* the plan the attested authorization commits to.  It is no more than that:
\* whether the source approved the authorization, nothing that signs asks.
SignedIsAttested ==
  \A s \in signatures :
    /\ \E h \in Honest : <<h, s[1]>> \in attested
    /\ s \in Committed
    /\ FinalTransactionMatches(Psbt[s[2]], PlanOf[s[2]])

\* A burn is paid by one spend plan.  A redeem id is a log position, so a log
\* a reorganization moved has a second one, which the signer's table takes for
\* another redeem: only finality keeps them apart, unless an approval was
\* across a fork.  An attested authorization that the source did not approve is
\* outside of this: of those, a burn may have two.
Settled(s) == \E x \in approved : x.auth = s[1] /\ ~x.moved
OnePaymentPerBurn ==
  \A s, t \in signatures : Settled(s) /\ Settled(t) => PlanOf[s[2]] = PlanOf[t[2]]

\* The signer implements CommitmentLedger: a redeem id's plan is committed to
\* before it is signed, once, whatever runs overlap, fail or end.
Ledger == INSTANCE CommitmentLedger WITH
  Id <- RedeemIds, Plan <- Plans,
  committed <- [id \in RedeemIds |-> IF row[id] = NoRow THEN NoPlan ELSE PlanOf[row[id].plan]],
  used <- {<<IdOf[s[1]], PlanOf[s[2]]>> : s \in signatures}
ImplementsSigning == Ledger!Spec

\* What the policy lets through is signed in the end: runs that overlap, a key
\* that does not fit and a process that ends anywhere leave nothing that a
\* further run cannot finish.  Two ways out: the authorization expires, or the
\* redeem id is reserved for other digests, for good.
Resolved(a, p) ==
  \/ now > Auth[a].deadline
  \/ /\ row[IdOf[a]] # NoRow
     /\ SameDigests(row[IdOf[a]], a, p) => row[IdOf[a]].status = "signed"
SigningResolves == \A x \in Committed : PolicyHolds(x[1], x[2]) ~> Resolved(x[1], x[2])
=============================================================================
