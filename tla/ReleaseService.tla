--------------------------- MODULE ReleaseService ---------------------------
(***************************************************************************)
(* scripts/redeem-service.js in its three roles, each a process of its own *)
(* (ops/systemd), and scripts/ingest-attestation.js, all over one table.   *)
(* A process works through the rows it listed once, as they were then; an  *)
(* action is one statement on the table with what leads to it since the    *)
(* last statement or await.  An error ends the process, which systemd      *)
(* starts anew: it forgets its list.                                       *)
(***************************************************************************)
EXTENDS Integers, ReleaseChain

CONSTANTS BatchSize, AuthorizationTtl,
          Planned          \* the redeems the configured spend plan pays

ASSUME ServiceAssumption ==
  BatchSize \in Nat \ {0} /\ AuthorizationTtl \in Nat /\ Planned \subseteq Redeems

VARIABLES watcher, attester, relayer, ingest

serviceVars == <<watcher, attester, relayer, ingest>>
vars == <<chainVars, storeVars, serviceVars>>

\* A row as a process has listed it.
Listed == [redeem : Redeems, row : Row]
NoItem == [redeem |-> NoAuth]

WatcherIdle == [at |-> "idle", latest |-> 0, time |-> 0, todo |-> {}]
AttesterIdle == [at |-> "idle", time |-> 0, todo |-> {}, item |-> NoItem]
RelayerIdle == [at |-> "idle", todo |-> {}, item |-> NoItem, tx |-> 0]

ReleaseTypeOK ==
  /\ ChainTypeOK /\ StoreTypeOK
  /\ watcher \in [at : {"idle", "scan", "authorize"}, latest : 0 .. MaxBlock,
                  time : 0 .. MaxTime, todo : SUBSET Redeems]
  /\ attester.at \in {"idle", "take", "sign"}
  /\ \A e \in attester.todo \cup relayer.todo : e \in Listed
  /\ relayer.at \in {"idle", "take", "receipt", "pending", "check", "send", "sent", "wait"}
  /\ attester.item \in Listed \cup {NoItem} /\ relayer.item \in Listed \cup {NoItem}
  /\ ingest \in Listed \cup {NoItem}

Init ==
  /\ ChainInit /\ StoreInit
  /\ watcher = WatcherIdle /\ attester = AttesterIdle
  /\ relayer = RelayerIdle /\ ingest = NoItem

List(eligible) == {[redeem |-> r, row |-> row[r]] : r \in eligible}

Watching == UNCHANGED <<chainVars, attester, relayer, ingest>>
Attesting == UNCHANGED <<chainVars, cursor, watcher, relayer, ingest>>
Relaying == UNCHANGED <<chainVars, cursor, watcher, attester, ingest>>

-----------------------------------------------------------------------------
(* runWatcherCycle.                                                         *)

\* Mutant of FinalizedBlock: a block is final one block too early.
FinalizedEarly(latest) == latest - FinalityBlocks + 1

FinalizedBlock(latest) == latest - FinalityBlocks

\* The last block the scan reads.
ToBlock ==
  LET finalized == FinalizedBlock(watcher.latest)
      last == cursor + BatchSize
  IN IF finalized < last THEN finalized ELSE last

\* authorizeFinalizedRedeems takes the time and lists; only the watcher writes
\* what it lists, so it matters not when the bridge's configuration is read.
WatchLists(rows, latest) ==
  LET todo == FinalityEligible(rows, FinalizedBlock(latest)) IN
  watcher' = IF todo = {} THEN WatcherIdle
             ELSE [at |-> "authorize", latest |-> latest, time |-> now, todo |-> todo]

WatchAsks ==
  /\ watcher' = [WatcherIdle EXCEPT !.at = "scan", !.latest = Len(chain)]
  /\ UNCHANGED storeVars /\ Watching

WatchBegins ==
  /\ watcher.at = "idle" /\ FinalizedBlock(Len(chain)) >= cursor + 1
  /\ WatchAsks

\* A cycle with nothing to scan.
WatchSkipsScan ==
  /\ watcher.at = "idle" /\ FinalizedBlock(Len(chain)) < cursor + 1
  /\ FinalityEligible(row, FinalizedBlock(Len(chain))) # {}
  /\ WatchLists(row, Len(chain))
  /\ UNCHANGED storeVars /\ Watching

\* RedeemRequested, filtered by block: the events of the chain as it is now.
EventsTo(to) ==
  [r \in {s \in Redeems : burn[s].block \in cursor + 1 .. to} |->
     [block |-> burn[r].block, hash |-> chain[burn[r].block], log |-> burn[r].log]]

\* Mutant of WatchScans: the cursor moves to the finalized block, past the batch.
WatchScansShort ==
  /\ watcher.at = "scan"
  /\ UpsertRedeemEvents(EventsTo(ToBlock))
  /\ SetCursor(FinalizedBlock(watcher.latest))
  /\ WatchLists(row', watcher.latest)
  /\ Watching

\* The rows are written one by one and the cursor last, without an await.
WatchScans ==
  /\ watcher.at = "scan"
  /\ UpsertRedeemEvents(EventsTo(ToBlock))
  /\ SetCursor(ToBlock)
  /\ WatchLists(row', watcher.latest)
  /\ Watching

\* Some of the rows are written when the process ends.
WatchScanCut ==
  /\ watcher.at = "scan" /\ Outside
  /\ \E written \in SUBSET DOMAIN EventsTo(ToBlock) :
       UpsertRedeemEvents([r \in written |-> EventsTo(ToBlock)[r]])
  /\ watcher' = WatcherIdle
  /\ UNCHANGED <<now, BurnsAndSigners, Gateway, txs, cursor, attester, relayer, ingest>>

\* The next row in the order of blocks.
WatchNext(r) ==
  /\ watcher.at = "authorize" /\ r \in watcher.todo
  /\ \A s \in watcher.todo : row[r].block <= row[s].block

\* The burn is still in the block it was seen in, and the plan pays it.
Authorizable(r) == chain[row[r].block] = row[r].hash /\ r \in Planned

WatchAuthorizes(r) ==
  /\ WatchNext(r) /\ Authorizable(r)
  /\ MarkAuthorized(r, [log |-> row[r].log, deadline |-> watcher.time + AuthorizationTtl])
  /\ watcher' = IF watcher.todo = {r} THEN WatcherIdle
                ELSE [watcher EXCEPT !.todo = @ \ {r}]
  /\ UNCHANGED cursor /\ Watching

WatchStops(r) ==
  /\ WatchNext(r) /\ ~Authorizable(r)
  /\ watcher' = WatcherIdle
  /\ UNCHANGED storeVars /\ Watching

-----------------------------------------------------------------------------
(* attestAuthorizedRedeems.                                                 *)

AttestLists ==
  /\ attester.at = "idle" /\ AttestationEligible # {}
  /\ attester' = [attester EXCEPT !.at = "take", !.time = now,
                                  !.todo = List(AttestationEligible)]
  /\ UNCHANGED row /\ Attesting

\* verifyDonReleaseRequest: in time, and about the event of the row.
Signable(listed) ==
  attester.time <= listed.auth.deadline /\ listed.auth.log = listed.log

\* The signers work on the listed row; what cannot be signed ends the process.
AttestTakes(e) ==
  /\ attester.at = "take" /\ e \in attester.todo
  /\ MarkAttestationRequested(e.redeem)
  /\ attester' = IF Signable(e.row)
                 THEN [attester EXCEPT !.at = "sign", !.item = e, !.todo = @ \ {e}]
                 ELSE AttesterIdle
  /\ Attesting

AttestSigns ==
  /\ attester.at = "sign"
  /\ MarkAttested(attester.item.redeem, attester.item.row.auth)
  /\ attester' = IF attester.todo = {} THEN AttesterIdle
                 ELSE [attester EXCEPT !.at = "take", !.item = NoItem]
  /\ Attesting

-----------------------------------------------------------------------------
(* ingestReleaseAttestation: an operator brings an attestation of what the  *)
(* row authorizes; any other is refused.                                    *)

IngestReads(r) ==
  /\ ingest = NoItem /\ Outside
  /\ row[r].auth # NoAuth /\ row[r].status # "consumed" /\ now <= row[r].auth.deadline
  /\ ingest' = [redeem |-> r, row |-> row[r]]
  /\ UNCHANGED <<now, BurnsAndSigners, Gateway, txs, storeVars, watcher, attester, relayer>>

IngestWrites ==
  /\ ingest # NoItem
  /\ MarkAttested(ingest.redeem, ingest.row.auth)
  /\ ingest' = NoItem
  /\ UNCHANGED <<chainVars, cursor, watcher, attester, relayer>>

-----------------------------------------------------------------------------
(* relayAttestedRedeems.                                                    *)

RelayNext ==
  relayer' = IF relayer.todo = {} THEN RelayerIdle
             ELSE [relayer EXCEPT !.at = "take", !.item = NoItem, !.tx = 0]

RelayAt(at) == relayer' = [relayer EXCEPT !.at = at]

RelayLists ==
  /\ relayer.at = "idle" /\ RelayEligible # {}
  /\ relayer' = [relayer EXCEPT !.at = "take", !.todo = List(RelayEligible)]
  /\ UNCHANGED row /\ Relaying

RelayTakes(e) ==
  /\ relayer.at = "take" /\ e \in relayer.todo
  /\ relayer' = [relayer EXCEPT
       !.at = IF e.row.status = "relayed" /\ e.row.relay # 0 THEN "receipt" ELSE "check",
       !.todo = @ \ {e}, !.item = e]
  /\ UNCHANGED row /\ Relaying

\* settleRelayedEvent: a receipt decides, none leaves the chain to be asked.
RelayReceipt ==
  /\ relayer.at = "receipt"
  /\ LET r == relayer.item.redeem
         state == txs[relayer.item.row.relay].state IN
       \/ state = "mined" /\ MarkConsumed(r) /\ RelayNext
       \/ state = "reverted" /\ MarkRelayFailed(r) /\ RelayNext
       \/ state \in {"pending", "dropped"} /\ UNCHANGED row /\ RelayAt("pending")
  /\ Relaying

Consumed == IsRedeemIdConsumed(relayer.item.redeem, relayer.item.row.auth)

\* A row whose redeem id is consumed, by whomever, is done.
RelayFindsConsumed ==
  /\ relayer.at \in {"pending", "check"} /\ Consumed
  /\ MarkConsumed(relayer.item.redeem)
  /\ RelayNext /\ Relaying

RelayStaysPending ==
  /\ relayer.at = "pending" /\ ~Consumed
  /\ UNCHANGED row /\ RelayNext /\ Relaying

RelayChecks ==
  /\ relayer.at = "check" /\ ~Consumed
  /\ UNCHANGED row /\ RelayAt("send") /\ Relaying

Completion == [redeem |-> relayer.item.redeem, auth |-> relayer.item.row.auth,
               att |-> relayer.item.row.att, state |-> "pending"]

\* ethers estimates the gas first: what would revert now is not sent.
RelaySends ==
  /\ relayer.at = "send" /\ Completable(Completion)
  /\ txs' = Append(txs, Completion)
  /\ relayer' = [relayer EXCEPT !.at = "sent", !.tx = Len(txs) + 1]
  /\ UNCHANGED <<now, BurnsAndSigners, Gateway, outside, storeVars, watcher, attester, ingest>>

RelayRefused ==
  /\ relayer.at = "send" /\ ~Completable(Completion)
  /\ relayer' = RelayerIdle
  /\ UNCHANGED row /\ Relaying

RelayRecords ==
  /\ relayer.at = "sent"
  /\ MarkRelayed(relayer.item.redeem, relayer.tx)
  /\ RelayAt("wait") /\ Relaying

\* Mutant of RelayEnds: any receipt is a success.
RelayEndsUnchecked ==
  /\ relayer.at = "wait" /\ txs[relayer.tx].state \in {"mined", "reverted"}
  /\ MarkConsumed(relayer.item.redeem)
  /\ RelayNext /\ Relaying

RelayEnds ==
  /\ relayer.at = "wait" /\ txs[relayer.tx].state = "mined"
  /\ MarkConsumed(relayer.item.redeem)
  /\ RelayNext /\ Relaying

\* ethers throws at a reverted receipt: the next cycle reads the receipt.
RelayReverts ==
  /\ relayer.at = "wait" /\ txs[relayer.tx].state = "reverted"
  /\ relayer' = RelayerIdle
  /\ UNCHANGED row /\ Relaying

-----------------------------------------------------------------------------

\* A process ends, or a call of it fails, at any await or between statements.
Crash ==
  /\ Outside
  /\ \/ /\ watcher # WatcherIdle /\ watcher' = WatcherIdle
        /\ UNCHANGED <<attester, relayer, ingest>>
     \/ /\ attester # AttesterIdle /\ attester' = AttesterIdle
        /\ UNCHANGED <<watcher, relayer, ingest>>
     \/ /\ relayer # RelayerIdle /\ relayer' = RelayerIdle
        /\ UNCHANGED <<watcher, attester, ingest>>
  /\ UNCHANGED <<now, BurnsAndSigners, Gateway, txs, storeVars>>

WatcherStep ==
  \/ WatchBegins \/ WatchSkipsScan \/ WatchScans
  \/ \E r \in Redeems : WatchAuthorizes(r) \/ WatchStops(r)

RelayerStep ==
  \/ RelayLists \/ RelayReceipt \/ RelayFindsConsumed \/ RelayStaysPending
  \/ RelayChecks \/ RelaySends \/ RelayRefused \/ RelayRecords
  \/ RelayEnds \/ RelayReverts
  \/ \E e \in relayer.todo : RelayTakes(e)

Next ==
  \/ ChainStep /\ UNCHANGED <<storeVars, serviceVars>>
  \/ WatcherStep \/ WatchScanCut
  \/ AttestLists \/ AttestSigns \/ \E e \in attester.todo : AttestTakes(e)
  \/ IngestWrites \/ \E r \in Redeems : IngestReads(r)
  \/ RelayerStep \/ Crash

Spec == Init /\ [][Next]_vars

\* The roles run for ever and systemd restarts them; blocks come and pending
\* transactions are mined.  Attestations are requested in the order in which they
\* were last requested, so a row that cannot be signed does not keep another from
\* its turn.  Time need not pass.
Fairness ==
  /\ WF_vars(NextBlock /\ UNCHANGED <<storeVars, serviceVars>>)
  /\ WF_vars((\E i \in DOMAIN txs : Mine(i)) /\ UNCHANGED <<storeVars, serviceVars>>)
  /\ WF_vars(WatcherStep) /\ WF_vars(RelayerStep)
  /\ WF_vars(AttestLists \/ AttestSigns)
  /\ \A r \in Redeems :
       SF_vars(\E e \in attester.todo : e.redeem = r /\ AttestTakes(e))

FairSpec == Spec /\ Fairness

-----------------------------------------------------------------------------
(* What the redeem service's processes keep to, whatever order their       *)
(* statements on the shared table take, and what they get done together.   *)

\* The watcher's cursor passes no burn by: at or below it a burn has its row, and
\* the row says where the burn is, as long as no final block was replaced.
ScanMissesNoBurn ==
  \A r \in Redeems \ displaced :
    burn[r].block \in 1 .. cursor =>
      /\ row[r].status # "absent"
      /\ row[r].block = burn[r].block /\ row[r].log = burn[r].log

\* Nothing is authorized for a burn that a reorganization of less than the
\* configured depth could still take away: authorizeFinalizedRedeems waits.
AuthorizedWhenFinal ==
  \A r \in Redeems \ displaced :
    row[r].auth # NoAuth =>
      /\ burn[r] = [block |-> row[r].block, log |-> row[r].auth.log]
      /\ chain[row[r].block] = row[r].hash

\* A redeem has one authorization in its life: the stored attestation signs the
\* stored authorization, and so does whatever the relayer ever sent for it,
\* although signer, ingest and relayer work on copies of rows listed earlier.
OneAuthorization ==
  /\ \A r \in Redeems : row[r].att \in {NoAuth, row[r].auth}
  /\ \A i \in DOMAIN txs :
       txs[i].auth = row[txs[i].redeem].auth /\ txs[i].att = txs[i].auth

\* The authorizations that were attested, and those that were sent.
Used ==
  {<<r, row[r].att>> : r \in {s \in Redeems : row[s].att # NoAuth}}
    \cup {<<txs[i].redeem, txs[i].auth>> : i \in DOMAIN txs}
    \cup {<<txs[i].redeem, txs[i].att>> : i \in DOMAIN txs}

\* The service implements CommitmentLedger: whatever a process ends between, the
\* authorization of a redeem is written once, stays as it is although its row is
\* observed, attested and relayed again, and no other is attested or sent.
Ledger == INSTANCE CommitmentLedger WITH
  Id <- Redeems, Plan <- Authorization, NoPlan <- NoAuth,
  committed <- [r \in Redeems |-> row[r].auth], used <- Used
ImplementsCommitment == Ledger!Spec

\* No row says consumed unless the gateway has consumed the redeem, by whomever:
\* the relayer reconciles receipts and redeem ids, and never takes its own word.
ConsumedForReal ==
  \A r \in Redeems : row[r].status = "consumed" => r \in settledEver

\* The relayer's list begins with a row the gateway will never accept, which is
\* tried, and ends the process, before any other in every cycle.
Blocks(r) ==
  /\ row[r].auth # NoAuth /\ row[r].status # "consumed"
  /\ \/ escrow[r] = "CANCELLED" \/ now > row[r].auth.deadline
     \/ escrow[r] = "CONSUMED" /\ settledAs[r] # row[r].auth.log

\* The watcher's list begins with a row whose block was replaced after it was
\* final, or that the attester finds changed: both are refused in every cycle.
Moved(r) ==
  /\ row[r].status # "absent"
  /\ \/ burn[r].block # row[r].block \/ burn[r].log # row[r].log
     \/ chain[row[r].block] # row[r].hash
     \/ row[r].auth # NoAuth /\ row[r].auth.log # row[r].log

\* A final burn is consumed, whichever process fails and is restarted, unless the burn
\* or its redeem is gone, a transaction was dropped, which the relayer waits for,
\* the verifier was given other signers than attest here, or a row that cannot be
\* processed stands in the way of all.
ReleasesComplete ==
  \A r \in Redeems :
    burn[r].block \in 1 .. Len(chain) - FinalityBlocks ~>
      \/ row[r].status = "consumed"
      \/ burn[r] = Unburned \/ escrow[r] = "CANCELLED" \/ r \in displaced \/ foreignSet
      \/ \E s \in Redeems : Blocks(s) \/ Moved(s)
      \/ \E i \in DOMAIN txs : txs[i].state = "dropped"

\* "`relayed`: EVM transaction submitted; receipt must be reconciled before
\* resubmission" (docs/bridge-v1-spec.md:460): no second completion of a redeem is
\* sent while the first, whose hash the row holds, is pending.
ReconciledFirst ==
  [][\A r \in Redeems :
       row[r].relay # 0 /\ txs[row[r].relay].state = "pending" =>
         \A i \in DOMAIN txs' \ DOMAIN txs : txs'[i].redeem # r]_vars

=============================================================================
