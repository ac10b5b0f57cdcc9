--------------------------- MODULE EvmProperties ---------------------------
(***************************************************************************)
(* What must hold of the five contracts together.                          *)
(***************************************************************************)
EXTENDS EvmBridge, FiniteSetsExt

Requests == DOMAIN redeemState

\* The token's supply is what the holders hold, through transfers to oneself,
\* burns by the gateway and burns by any approved spender.
SupplyIsBalances ==
  totalSupply = MapThenSumSet(LAMBDA u : balanceOf[u], Users)

\* Every satoshi minted by the gateway is in circulation, in a redeem request
\* or destroyed: the supply follows from the MintExecuted and RedeemRequested
\* events alone (up to what other minters and burners did).
SupplyBacked ==
  totalSupply + MapThenSumSet(LAMBDA r : r.amount, Requests) + destroyedElsewhere
    = MapThenSumSet(LAMBDA m : m.auth.sats, minted) + issuedElsewhere

\* No deposit and no Bitcoin output mints twice, whatever authorizations the DON
\* approved: two for one deposit, two deposits for one output, two requests for
\* one authorization.
OneMintPerDeposit ==
  \A m, n \in minted :
    m # n => m.auth.deposit # n.auth.deposit /\ m.auth.utxo # n.auth.utxo

\* The two records of a mint agree: the registry's replay flags cover every
\* MintExecuted event, and while the gateway is the only consumer nothing else.
MintsAreConsumed ==
  \A m \in minted :
    m.auth.deposit \in depositConsumed /\ m.auth.utxo \in utxoConsumed

\* A mint is one the DON approved struct for struct, before both deadlines, to
\* the recipient and within the amounts its deposit intent fixed.
MintAuthorized ==
  \A m \in minted :
    /\ <<"MINT", m.auth>> \in DonApproves
    /\ m.auth.recipient = m.auth.deposit.recipient
    /\ AmountAllowed(m.auth.deposit, m.auth.sats)
    /\ m.at <= m.auth.deadline /\ m.at <= m.auth.deposit.expiry

\* A redeem is CONSUMED exactly when one redeemId of it was, at one burn log
\* position, under a release authorization of its own terms the DON approved.
ReleaseAuthorized ==
  /\ \A id \in redeemIdConsumed :
       id[2] \in Requests /\ redeemState[id[2]] = "CONSUMED"
  /\ \A id, other \in redeemIdConsumed : id[2] = other[2] => id = other
  /\ \A r \in Requests :
       redeemState[r] = "CONSUMED" =>
         \E auth \in ReleaseAuths :
           /\ <<"RELEASE", auth>> \in DonApproves
           /\ auth.redeemId \in redeemIdConsumed
           /\ auth.request = r /\ MatchesRequest(auth)

\* The verifier's two copies of an approval agree, and rest on an answer of the
\* DON: a second callback for a request, late or with an error, neither withdraws
\* nor moves an approval.
ApprovalsAgree ==
  /\ \A id \in 1 .. MaxRequests, answer \in Answers :
       <<id, answer>> \in approvedAuthorization
         <=> /\ id \in DOMAIN pendingRequests
             /\ pendingRequests[id].answer = answer
             /\ pendingRequests[id].approved
  /\ \A id \in DOMAIN pendingRequests :
       pendingRequests[id].approved =>
         pendingRequests[id].fulfilled /\ pendingRequests[id].answer \in DonApproves

\* A redeem that was paid, cancelled or resolved by hand is never open again and
\* never paid afterwards; a paid or resolved one never changes.
RedeemFinality ==
  [][\A r \in Requests :
       /\ r \in DOMAIN redeemState'
       /\ redeemState[r] \in {"CONSUMED", "MANUALLY_RESOLVED"} =>
            redeemState'[r] = redeemState[r]
       /\ redeemState[r] = "CANCELLED" =>
            redeemState'[r] \in {"CANCELLED", "MANUALLY_RESOLVED"}]_vars

\* What is given away never comes back: a locked minter or consumer stays the one
\* that was locked, and a renounced contract never has an owner again, not even one
\* whose transfer was pending when it was renounced.
RolesFinal ==
  [][/\ lockedMinter # NoOne => lockedMinter' = lockedMinter
     /\ lockedConsumer # NoOne => lockedConsumer' = lockedConsumer
     /\ \A c \in Contracts : owner[c] = NoOne => owner'[c] = NoOne]_vars

\* With the gateway locked in as minter and as consumer, no owner can make
\* supply without a fresh deposit, nor use up a deposit without minting it.
LockedDown ==
  [][lockedMinter = "MintGateway" /\ lockedConsumer = "MintGateway" =>
       /\ totalSupply' > totalSupply =>
            \E m \in minted' \ minted :
              /\ totalSupply' = totalSupply + m.auth.sats
              /\ m.auth.deposit \in depositConsumed' \ depositConsumed
       /\ depositConsumed' # depositConsumed => minted' # minted]_vars

\* Whenever the owner changes or lifts a limit, the open window's usage
\* is within the limit in force and is that of events in this very window.
WindowUsage(l, events, SatsOf(_), AtOf(_)) ==
  /\ l.startedAt <= now
  /\ IF l.limit = 0 THEN l.used = 0
     ELSE /\ l.used <= l.limit
          /\ l.used <= MapThenSumSet(SatsOf, {e \in events : AtOf(e) >= l.startedAt})

\* WindowUsage for mints and for redeem requests.
UsageIsCurrent ==
  /\ WindowUsage(mintLimit, minted, LAMBDA m : m.auth.sats, LAMBDA m : m.at)
  /\ WindowUsage(redeemLimit, Requests, LAMBDA r : r.amount, LAMBDA r : burnedAt[r])

\* With a limit that is never reset, any period as long as the window sees at
\* most twice the limit: a fixed window admits a burst at each of its ends.
MintRate ==
  InitialMintLimit[1] # 0 =>
    \A start \in 0 .. MaxTime :
      MapThenSumSet(LAMBDA m : m.auth.sats,
                    {m \in minted : /\ start <= m.at
                                    /\ m.at < start + InitialMintLimit[2]})
        <= 2 * InitialMintLimit[1]

Ledger == INSTANCE BridgeLedger
  WITH Deposit <- Intents, Outpoint <- Utxos, Amount <- 0 .. MaxUint,
       AmountOf <- LAMBDA r : r.amount,
       supply <- totalSupply,
       mints <- {[deposit |-> m.auth.deposit, utxo |-> m.auth.utxo,
                  sats |-> m.auth.sats] : m \in minted},
       redeems <- redeemState,
       sealed <- (lockedMinter = "MintGateway")

\* The contracts implement the abstract ledger.
ImplementsLedger == Ledger!Spec
=============================================================================
