-------------------------- MODULE MCReleaseSigning --------------------------
(***************************************************************************)
(* An instance of ReleaseSigning: one burn whose log may be at position 0  *)
(* or 1, an authorization and a fresh one for the first position and one   *)
(* for the second, two PSBTs of one plan and one of another plan.          *)
(***************************************************************************)
EXTENDS ReleaseSigning

CONSTANTS r1, r2, domain, treasury, payee, requester, tx, coin1, coin2, policy

MCSignerSet == <<1, 2>>

MCBurn ==
  [tx |-> tx, script |-> payee, requester |-> requester, dest |-> ScriptHash(payee),
   amount |-> 3, maxFee |-> 1, deadline |-> 9, nonce |-> 0]

Coin(c, v) == [coin |-> c, value |-> v, script |-> treasury]

MCPsbt ==
  [plain  |-> BuildSpendPsbt(<<Coin(coin1, 5)>>, payee, 3, 1, treasury, 0),
   replay |-> BuildSpendPsbt(<<Coin(coin1, 5)>>, payee, 3, 1, treasury, 1),
   other  |-> BuildSpendPsbt(<<Coin(coin2, 4)>>, payee, 3, 1, treasury, 0)]

MCEvent(log) == EventAt([block |-> 1, hash |-> 0, log |-> log])

MCAuth ==
  [first  |-> MakeReleaseAuthorization(MCEvent(0), SpendPlan(MCPsbt.plain), policy, 0, 0),
   fresh  |-> MakeReleaseAuthorization(MCEvent(0), SpendPlan(MCPsbt.other), policy, 0, 1),
   second |-> MakeReleaseAuthorization(MCEvent(1), SpendPlan(MCPsbt.other), policy, 0, 1)]
MCArtifact == [x \in DOMAIN MCAuth \cup DOMAIN MCPsbt |->
                 IF x \in DOMAIN MCAuth THEN MCAuth[x] ELSE MCPsbt[x]]

\* The stages in order: the chain and the source, which approves all it can,
\* the attestations, then time and runs.  Neither half reads what the other
\* writes but, with every timestamp 0 for nothing, the time; an attestation only
\* ever lets a run begin; and OnePaymentPerBurn, which alone is about both, asks
\* more the more is settled, and nothing of an approval across a fork.  Of the
\* chains that settle the same approvals those stand for all on which the log
\* has moved.  So the steps of any behaviour that could break a property can be
\* put in this order.
Approvable == {a \in Authorizations : Finds("primary", Auth[a]) /\ Final(chain.height, SeenBy("primary"))}
ApprovalDone ==
  /\ source = SourceIdle /\ chain.height = MaxHeight /\ \A n \in Nodes : node[n] = chain
  /\ \E f \in Forks : placed[f] # Nowhere /\ placed[f].log # placed[chain.fork].log
  /\ Approvable # {} /\ Approvable \subseteq {x.auth : x \in approved}
  /\ \A x \in approved : ~x.moved
NoAttestation == attested = ((Signers \ Honest) \cup Outsiders) \X Authorizations
NoRunYet == \A r \in Runs : run[r] = RunIdle /\ \A id \in RedeemIds : row[id] = NoRow
StagesInOrder ==
  /\ UNCHANGED <<chain, placed, node, source, approved>> \/ (now = 0 /\ NoAttestation)
  /\ UNCHANGED attested \/ (ApprovalDone /\ now = 0 /\ NoRunYet)
  /\ UNCHANGED <<now, row, run, signatures, faults>> \/ ApprovalDone
=============================================================================
