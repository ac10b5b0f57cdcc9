---------------------------- MODULE MCDeployment ----------------------------
(***************************************************************************)
(* An instance of Deployment: bob owns the contracts and deploys them,     *)
(* alice is the relayer and whom bob may give roles to.  One deposit is    *)
(* minted through the gateway, or one satoshi beside it.                   *)
(***************************************************************************)
EXTENDS Deployment

CONSTANTS alice, bob, utxo1, log1

any == [recipient |-> bob, mode |-> "ANY", addressHash |-> 2,
        expectedSats |-> 0, minSats |-> 1, maxSats |-> 1, nonce |-> 0,
        expiry |-> 1]
auth == [domain |-> "here", network |-> "here", deposit |-> any,
         recipient |-> bob, addressHash |-> 2, utxo |-> utxo1,
         sats |-> 1, confirmations |-> 1, deadline |-> 0]

OneIntent == {any}
OneMintAuth == {auth}
OneAnswer == {<<"MINT", auth>>}
NoLimit == <<0, 0>>
NoLimits == {NoLimit}
MCCandidates == {"MintGateway", alice}

\* A deployment that is locked down by the script, and one that only is configured;
\* then what main refuses: no majority, the lockdown with the wrong verifier, a
\* mainnet owner that deploys.
Risk == [mainnet |-> FALSE, mode |-> "ecdsa", deployer |-> bob, ownerKey |-> NoOne,
         signers |-> 3, threshold |-> 2, controller |-> "chainlink-don",
         mintLimit |-> NoLimit, redeemLimit |-> NoLimit,
         configure |-> TRUE, risk |-> TRUE, requesters |-> {}]
Functions == [Risk EXCEPT !.mode = "chainlink-functions", !.risk = FALSE,
                          !.signers = 0, !.threshold = 0]
MCDeployOptions ==
  {Risk, Functions, [Risk EXCEPT !.signers = 4],
   [Functions EXCEPT !.risk = TRUE], [Functions EXCEPT !.mainnet = TRUE]}

\* The relayer is authorized; the second plan is refused.
MCFunctionsPlans ==
  {[config |-> "config", authorize |-> <<alice>>, revoke |-> << >>],
   [config |-> "config", authorize |-> <<bob>>, revoke |-> <<bob>>]}

\* The owner locks and renounces as the script does.
MCHandPlans ==
  {<<"lockMinter", "lockAuthorizedConsumer", "WrappedBitcoin", "Verifier",
     "DepositRegistry", "MintGateway", "BurnGateway">>}
=============================================================================
