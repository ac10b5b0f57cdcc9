------------------------- MODULE ChainlinkVerifier -------------------------
(***************************************************************************)
(* The Chainlink Functions verifier (ChainlinkFunctionsVerifier.sol) with  *)
(* the Functions router and the DON behind it.  A struct hash is the       *)
(* authorization it hashes.  The router hands out a fresh request id for   *)
(* every request and calls the verifier back with an error or with what    *)
(* the DON returned, which is about whatever the request's data named: the *)
(* struct the request was made for or another one.  Nothing in the         *)
(* verifier stops a late callback, or a second one for the same request.   *)
(***************************************************************************)
EXTENDS Sequences, BlockTime, Ownable

CONSTANTS MintAuths,       \* mint authorizations anyone may ask for or submit
          ReleaseAuths,    \* release authorizations, likewise
          FunctionsConfigs,\* valid <<subscriptionId, donId, callbackGasLimit>>
          DonApproves,     \* the <<kind, struct hash>> answers the DON returns
          NoAnswer,        \* an error, or a response that is not 64 bytes
          MaxRequests      \* bound: requests sent to the router

Answers == {<<"MINT", a>> : a \in MintAuths} \cup
           {<<"RELEASE", a>> : a \in ReleaseAuths}

ASSUME VerifierAssumption ==
  /\ MaxRequests \in Nat
  /\ DonApproves \subseteq Answers
  /\ NoAnswer \notin Answers

VARIABLES pendingRequests, \* sequence of requests, indexed by request id
          approvedAuthorization, \* the approval keys <<id, kind, structHash>>
          authorizedRequester, functionsConfig

verifierVars == <<pendingRequests, approvedAuthorization,
                  authorizedRequester, functionsConfig>>

PendingRequest ==
  [answer : Answers, requester : Users, deadline : Nat,
   fulfilled : BOOLEAN, approved : BOOLEAN]

VerifierTypeOK ==
  /\ pendingRequests \in Seq(PendingRequest)
  /\ Len(pendingRequests) <= MaxRequests
  /\ approvedAuthorization \subseteq (1 .. MaxRequests) \X Answers
  /\ authorizedRequester \subseteq Addresses
  /\ functionsConfig \in FunctionsConfigs

SetFunctionsConfig(caller, config) ==
  /\ OnlyOwner("Verifier", caller)
  /\ functionsConfig' = config
  /\ UNCHANGED <<pendingRequests, approvedAuthorization, authorizedRequester>>

SetAuthorizedRequester(caller, requester, allowed) ==
  /\ OnlyOwner("Verifier", caller)
  /\ requester # NoOne
  /\ authorizedRequester' = IF allowed THEN authorizedRequester \cup {requester}
                                       ELSE authorizedRequester \ {requester}
  /\ UNCHANGED <<pendingRequests, approvedAuthorization, functionsConfig>>

\* requestMintAuthorization and requestReleaseAuthorization.
RequestAuthorization(caller, kind, auth) ==
  /\ auth.domain = "here"
  /\ now <= auth.deadline
  /\ caller \in authorizedRequester \/ OnlyOwner("Verifier", caller)
  /\ Len(pendingRequests) < MaxRequests
  /\ pendingRequests' =
       Append(pendingRequests,
              [answer |-> <<kind, auth>>, requester |-> caller,
               deadline |-> auth.deadline,
               fulfilled |-> FALSE, approved |-> FALSE])
  /\ UNCHANGED <<approvedAuthorization, authorizedRequester, functionsConfig>>

\* An answer approves a request when it is in time and for its very struct.
Approves(request, response) ==
  /\ response # NoAnswer
  /\ now <= request.deadline
  /\ response = request.answer

\* Mutant of HandleOracleFulfillment: the last callback decides.
HandleLastFulfillment(id, response) ==
  /\ id \in DOMAIN pendingRequests
  /\ LET approves == Approves(pendingRequests[id], response) IN
       /\ pendingRequests' =
            [pendingRequests EXCEPT ![id].fulfilled = TRUE,
                                    ![id].approved = approves]
       /\ approvedAuthorization' =
            IF approves
            THEN approvedAuthorization \cup {<<id, pendingRequests[id].answer>>}
            ELSE approvedAuthorization
  /\ UNCHANGED <<authorizedRequester, functionsConfig>>

\* handleOracleFulfillment.  An approval is never withdrawn: a later answer to
\* the same request sets fulfilled again and leaves approved alone.
HandleOracleFulfillment(id, response) ==
  /\ id \in DOMAIN pendingRequests
  /\ LET approves == Approves(pendingRequests[id], response) IN
       /\ pendingRequests' =
            [pendingRequests EXCEPT ![id].fulfilled = TRUE,
                                    ![id].approved = @ \/ approves]
       /\ approvedAuthorization' =
            IF approves
            THEN approvedAuthorization \cup {<<id, pendingRequests[id].answer>>}
            ELSE approvedAuthorization
  /\ UNCHANGED <<authorizedRequester, functionsConfig>>

\* Mutant of Verifies: an approved authorization outlives its deadline.
VerifiesLate(kind, auth, id) ==
  /\ auth.domain = "here"
  /\ id \in DOMAIN pendingRequests
  /\ pendingRequests[id].fulfilled /\ pendingRequests[id].approved
  /\ pendingRequests[id].answer = <<kind, auth>>
  /\ <<id, <<kind, auth>>>> \in approvedAuthorization

\* verifyMintAuthorization and verifyReleaseAuthorization; id is the attestation.
Verifies(kind, auth, id) ==
  /\ auth.domain = "here"
  /\ now <= auth.deadline
  /\ id \in DOMAIN pendingRequests
  /\ pendingRequests[id].fulfilled /\ pendingRequests[id].approved
  /\ pendingRequests[id].answer = <<kind, auth>>
  /\ <<id, <<kind, auth>>>> \in approvedAuthorization

=============================================================================
