----------------------------- MODULE MCEvmBridge -----------------------------
(***************************************************************************)
(* Instances of EvmProperties.  The flow instance: one deposit paid by two *)
(* outputs, one output claimed by two deposits, an authorization that      *)
(* expires first, and a release authorization for each of two log          *)
(* positions of one burn.                                                  *)
(***************************************************************************)
EXTENDS EvmProperties

CONSTANTS alice, bob, utxo1, utxo2, utxo3, log1, log2

MCUsers == {alice, bob}
exact == [recipient |-> bob, mode |-> "EXACT", addressHash |-> 1,
          expectedSats |-> 2, minSats |-> 2, maxSats |-> 2, nonce |-> 0,
          expiry |-> 2]
any == [recipient |-> bob, mode |-> "ANY", addressHash |-> 2,
        expectedSats |-> 0, minSats |-> 1, maxSats |-> 1, nonce |-> 0,
        expiry |-> 1]

Auth(intent, recipient, utxo, deadline) ==
  [domain |-> "here", network |-> "here", deposit |-> intent,
   recipient |-> recipient, addressHash |-> intent.addressHash, utxo |-> utxo,
   sats |-> intent.maxSats, confirmations |-> 1, deadline |-> deadline]

MCIntents == {exact, any}
MCMintAuths == {Auth(exact, bob, utxo1, 0), Auth(exact, bob, utxo2, 1),
                Auth(any, bob, utxo1, 1)}

Request(user, nonce) ==
  [requester |-> user, script |-> "p2tr", amount |-> 1, maxMinerFee |-> 0,
   deadline |-> 1, nonce |-> nonce]

Release(request, log) ==
  [domain |-> "here", network |-> "here", request |-> request,
   redeemId |-> <<log, request>>, burnLog |-> log,
   requester |-> request.requester, script |-> "p2tr", amount |-> 1,
   maxMinerFee |-> 0, plan |-> "a", deadline |-> 1]

MCReleaseAuths == {Release(Request(bob, 0), log1), Release(Request(bob, 0), log2)}
MCBurnInputs == {[script |-> "p2tr", amount |-> 1, maxMinerFee |-> 0, deadline |-> 1]}

Mints(S) == {<<"MINT", a>> : a \in S}
Releases(S) == {<<"RELEASE", a>> : a \in S}
MCDonApproves == Mints(MCMintAuths) \cup Releases(MCReleaseAuths)
NoLimit == <<0, 0>>

\* The limits instance: deposits of one satoshi against a limit of one per two
\* blocks that is never reset, one that no window has room for, and redeems
\* against a limit that the owner resets, lifts and tightens.
LimitIntent(nonce) == [any EXCEPT !.nonce = nonce, !.maxSats = 3, !.expiry = 4]
LimitAuth(nonce, utxo, sats) ==
  [Auth(LimitIntent(nonce), bob, utxo, 4) EXCEPT !.sats = sats]
LimitIntents == {LimitIntent(n) : n \in 0 .. 2}
LimitMintAuths == {LimitAuth(0, utxo1, 1), LimitAuth(1, utxo2, 1),
                   LimitAuth(2, utxo3, 1)}
LimitAnswers == Mints(LimitMintAuths)
LimitBurnInputs == {[script |-> "p2wpkh", amount |-> 1, maxMinerFee |-> 0,
                     deadline |-> 4]}
OnePerTwo == <<1, 2>>
TwoPerTwo == <<2, 2>>
Limits == {NoLimit, OnePerTwo}
NoLimits == {NoLimit}

\* The limits instance has an owner and spenders too, whose powers over roles and
\* supply Deployment's instance combines with everything else.  Here they are
\* used in the first block, before the DON is asked and anything burned, or not
\* at all.
OwnerAside ==
  /\ \A c \in Contracts : owner[c] = Deployer /\ pendingOwner[c] = NoOne
  /\ isMinter = {"MintGateway"} /\ lockedMinter = NoOne
  /\ authorizedConsumers = {"MintGateway"} /\ lockedConsumer = NoOne
  /\ issuedElsewhere = 0 /\ \A u, spender \in Users : allowance[u][spender] = 0
  /\ depositConsumed = {m.auth.deposit : m \in minted}
OwnerFirst ==
  OwnerAside \/ (now = 0 /\ pendingRequests = << >> /\ DOMAIN redeemState = {})
=============================================================================
