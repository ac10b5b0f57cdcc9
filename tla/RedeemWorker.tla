---------------------------- MODULE RedeemWorker ----------------------------
(***************************************************************************)
(* The redeem half of scripts/public-testnet-worker.js: one process that   *)
(* walks the rows of the store through its stages.  Between two awaits it  *)
(* runs alone; an action is what it does from one answer to the next call. *)
(* A call that times out is abandoned and may still take effect, and the   *)
(* process may end at any await: either way what the job knew is gone and  *)
(* only the store and the chains remain.  Which row a stage takes next is  *)
(* left open.                                                              *)
(***************************************************************************)
EXTENDS RedeemChains

CONSTANTS CustodyController, \* "local-wallet" or "chainlink-don"
          FinalityBlocks, ScanBatchSize, AuthorizationTtl,
          TooLarge           \* redeems above the service's amount or fee limit

ASSUME WorkerAssumption ==
  /\ CustodyController \in {"local-wallet", "chainlink-don"}
  /\ FinalityBlocks \in Nat
  /\ ScanBatchSize \in Nat \ {0}
  /\ AuthorizationTtl \in Nat
  /\ TooLarge \subseteq Redeems

VARIABLES job,             \* the call in flight: for which redeem, with which value
          logs             \* what remains of the logs a scan has read

workerVars == <<job, logs>>
vars == <<chainVars, storeVars, workerVars>>

Job == [at : {"idle", "scan", "fund", "request", "submit", "wait", "send"},
        redeem : Redeems \cup {Nobody}, id : Nat]

Idle == [at |-> "idle", redeem |-> Nobody, id |-> 0]
Await(at, r, id) == job' = [at |-> at, redeem |-> r, id |-> id]
Rest == job' = Idle

WorkerTypeOK ==
  /\ ChainsTypeOK /\ StoreTypeOK
  /\ job \in Job /\ logs \subseteq Redeems \X (0 .. 1)

Init == ChainsInit /\ StoreInit /\ job = Idle /\ logs = {}

OnlyStore == UNCHANGED <<chainVars, logs>>
OnlyJob == UNCHANGED <<chainVars, row, cursor, logs>>
OnlyRow == OnlyStore /\ UNCHANGED cursor

\* Mutant of Expired: only the authorization's deadline counts.
ExpiredByAuthorization(r) == row[r].plan # NoCoin /\ now > row[r].deadline

\* redeemExpirationReason: past either deadline, at a clock the chain shares.
Expired(r) ==
  \/ now > RedeemDeadline[r]
  \/ row[r].plan # NoCoin /\ now > row[r].deadline

-----------------------------------------------------------------------------
(* scanRedeems.                                                             *)

\* The highest block a scan may read now.
ScanLimit ==
  LET finalized == head - FinalityBlocks
      last == cursor + ScanBatchSize
  IN IF finalized < last THEN finalized ELSE last

ReadLogs(to) ==
  /\ logs' = {<<r, fork[r]>> : r \in {s \in Redeems : burnedIn[s] \in cursor + 1 .. to}}
  /\ Await("scan", Nobody, to)
  /\ UNCHANGED <<chainVars, storeVars>>

ScanBegins ==
  /\ job = Idle
  /\ cursor + 1 <= head - FinalityBlocks
  /\ ReadLogs(ScanLimit)

ScanUpserts ==
  /\ job.at = "scan"
  /\ \E log \in logs : /\ UpsertRedeemObserved(log[1], log[2])
                       /\ logs' = logs \ {log}
  /\ UNCHANGED <<chainVars, cursor, job>>

\* Mutant of ScanEnds: the cursor moves before the logs are stored.
ScanEndsEarly ==
  /\ job.at = "scan"
  /\ SetCursor(job.id)
  /\ IF logs = {} THEN Rest ELSE UNCHANGED job
  /\ OnlyStore /\ UNCHANGED row

ScanEnds ==
  /\ job.at = "scan" /\ logs = {}
  /\ SetCursor(job.id)
  /\ Rest
  /\ OnlyStore /\ UNCHANGED row

-----------------------------------------------------------------------------
(* prepareRedeems.                                                          *)

PreparationEligible(r) ==
  row[r].status = "observed" /\ burnedIn[r] <= head - FinalityBlocks

PrepareRejects(r) ==
  /\ job = Idle /\ PreparationEligible(r)
  /\ Expired(r) \/ r \in TooLarge \/ row[r].blockHash # fork[r]
  /\ MarkRedeemFailed(r)
  /\ Rest /\ OnlyRow

\* The time is read here, before the custody is asked for a release.
PrepareBegins(r) ==
  /\ job = Idle /\ PreparationEligible(r)
  /\ ~Expired(r) /\ r \notin TooLarge /\ row[r].blockHash = fork[r]
  /\ Await("fund", r, now)
  /\ OnlyJob

\* Mutant of FreeCoins: funding does not mind the locks.
UnspentCoins == {c \in Coins : published[c] = Nobody}

\* What the custody may select: its wallet skips what is spent or locked.
FreeCoins == {c \in Coins : published[c] = Nobody /\ c \notin reserved}

\* walletcreatefundedpsbt locks the inputs it selects; the DON's adapter returns
\* a transaction signed already.
Fund ==
  /\ job.at = "fund"
  /\ \E c \in FreeCoins :
       /\ reserved' = reserved \cup {c}
       /\ MarkRedeemPrepared(job.redeem, c, job.id + AuthorizationTtl,
                             IF CustodyController = "chainlink-don" THEN c ELSE NoCoin)
  /\ Rest
  /\ UNCHANGED <<now, Burns, escrow, txs, consumed, published, confirmed,
                 walletRestarted, faults, cursor, logs>>

\* The selection is made and locked, the answer is lost.
FundLost ==
  /\ job.at = "fund" /\ Fault
  /\ \E c \in FreeCoins : reserved' = reserved \cup {c}
  /\ Rest
  /\ UNCHANGED <<now, Burns, escrow, txs, consumed, published, confirmed,
                 walletRestarted, storeVars, logs>>

FundFails ==
  /\ job.at = "fund" /\ FreeCoins = {}
  /\ Rest /\ OnlyJob

-----------------------------------------------------------------------------
(* requestReleaseAuthorizations.                                            *)

Send(kind, r, request) ==
  txs' = Append(txs, [kind |-> kind, redeem |-> r, plan |-> row[r].plan,
                      deadline |-> row[r].deadline, request |-> request,
                      state |-> "pending"])

OnlySent == UNCHANGED <<now, Burns, escrow, consumed, Bitcoin, cursor, logs>>

RequestExpires(r) ==
  /\ job = Idle /\ row[r].status = "release_prepared" /\ Expired(r)
  /\ MarkRedeemFailed(r)
  /\ Rest /\ OnlyRow

\* The transaction is sent and its receipt awaited, both under one time limit.
RequestBegins(r) ==
  /\ job = Idle /\ row[r].status = "release_prepared" /\ ~Expired(r)
  /\ Send("request", r, 0)
  /\ Await("request", r, Len(txs'))
  /\ OnlySent /\ UNCHANGED <<row, faults>>

RequestEnds ==
  /\ job.at = "request"
  /\ txs[job.id].state \in {"mined", "approved", "rejected"}
  /\ MarkReleaseRequested(job.redeem, job.id)
  /\ Rest /\ OnlyRow

RequestFails ==
  /\ job.at = "request" /\ txs[job.id].state \in {"reverted", "dropped"}
  /\ Rest /\ OnlyJob

-----------------------------------------------------------------------------
(* settleReleaseCallbacks.                                                  *)

Callback(r) == txs[row[r].request].state

Requested(r) == job = Idle /\ row[r].status = "release_requested"

SettleExpires(r) ==
  /\ Requested(r) /\ Expired(r)
  /\ MarkRedeemFailed(r)
  /\ Rest /\ OnlyRow

SettleRejected(r) ==
  /\ Requested(r) /\ ~Expired(r) /\ Callback(r) = "rejected"
  /\ MarkRedeemFailed(r)
  /\ Rest /\ OnlyRow

\* reconcileConsumedRedeem: the completion found is whoever's it was.
SettleConsumed(r) ==
  /\ Requested(r) /\ ~Expired(r) /\ Callback(r) = "approved"
  /\ escrow[r] = "CONSUMED"
  /\ MarkRedeemCompleted(r, 0)
  /\ Rest /\ OnlyRow

SettleBegins(r) ==
  /\ Requested(r) /\ ~Expired(r) /\ Callback(r) = "approved"
  /\ escrow[r] # "CONSUMED"
  /\ Await("submit", r, row[r].request)
  /\ OnlyJob

\* ethers estimates gas before it sends: what would revert now is not sent.
Sendable == Completable(job.redeem, job.id, row[job.redeem].deadline)

Submit ==
  /\ job.at = "submit" /\ Sendable
  /\ Send("complete", job.redeem, job.id)
  /\ MarkRedeemSubmitted(job.redeem, Len(txs'))
  /\ Await("wait", job.redeem, Len(txs'))
  /\ OnlySent /\ UNCHANGED faults

\* The transaction is on its way, its hash never reaches the store.
SubmitLost ==
  /\ job.at = "submit" /\ Sendable
  /\ Fault
  /\ Send("complete", job.redeem, job.id)
  /\ Rest
  /\ OnlySent /\ UNCHANGED row

SubmitFails ==
  /\ job.at = "submit" /\ ~Sendable
  /\ Rest /\ OnlyJob

\* Mutant of WaitEnds: any receipt will do.
WaitEndsUnchecked ==
  /\ job.at = "wait" /\ txs[job.id].state \in {"mined", "reverted"}
  /\ MarkRedeemCompleted(job.redeem, job.id)
  /\ Rest /\ OnlyRow

WaitEnds ==
  /\ job.at = "wait" /\ txs[job.id].state = "mined"
  /\ MarkRedeemCompleted(job.redeem, job.id)
  /\ Rest /\ OnlyRow

\* tx.wait() throws on a receipt with status 0, and times out on a lost
\* transaction; the row waits for the next cycle.
WaitFails ==
  /\ job.at = "wait" /\ txs[job.id].state \in {"reverted", "dropped"}
  /\ Rest /\ OnlyJob

\* settleSubmittedRedeem, which reads the receipt of the stored hash only.
SettleReceipt(r) ==
  /\ job = Idle /\ row[r].status = "redeem_submitted"
  /\ \/ /\ txs[row[r].completion].state = "mined"
        /\ MarkRedeemCompleted(r, row[r].completion)
     \/ /\ txs[row[r].completion].state = "reverted"
        /\ MarkRedeemFailed(r)
  /\ Rest /\ OnlyRow

-----------------------------------------------------------------------------
(* broadcastBitcoinReleases.                                                *)

\* Mutant of BroadcastEligible: a submitted completion is taken for a mined one.
BroadcastSubmitted(r) == row[r].status \in {"redeem_submitted", "redeem_completed"}

BroadcastEligible(r) == row[r].status = "redeem_completed"

\* The local wallet signs the stored PSBT, the first time only; a release the
\* DON prepared has its transaction already.
BroadcastBegins(r) ==
  /\ job = Idle /\ BroadcastEligible(r)
  /\ IF row[r].tx = NoCoin
     THEN CustodyController = "local-wallet" /\ MarkBitcoinFinalized(r, row[r].plan)
     ELSE UNCHANGED row
  /\ Await("send", r, 0)
  /\ OnlyRow

\* sendrawtransaction takes a transaction anew or one it holds unconfirmed.
Accepts(r) ==
  LET c == row[r].tx IN
    published[c] = Nobody \/ (published[c] = r /\ c \notin confirmed)

Broadcast ==
  /\ job.at = "send" /\ Accepts(job.redeem)
  /\ published' = [published EXCEPT ![row[job.redeem].tx] = job.redeem]
  /\ MarkBitcoinBroadcast(job.redeem, row[job.redeem].tx)
  /\ Rest
  /\ UNCHANGED <<now, Burns, escrow, txs, consumed, confirmed, reserved,
                 walletRestarted, faults, cursor, logs>>

\* The node has the transaction, its answer is lost.
BroadcastLost ==
  /\ job.at = "send" /\ Accepts(job.redeem) /\ Fault
  /\ published' = [published EXCEPT ![row[job.redeem].tx] = job.redeem]
  /\ Rest
  /\ UNCHANGED <<now, Burns, escrow, txs, consumed, confirmed, reserved,
                 walletRestarted, storeVars, logs>>

BroadcastFails ==
  /\ job.at = "send" /\ ~Accepts(job.redeem)
  /\ Rest /\ OnlyJob

-----------------------------------------------------------------------------

\* A timeout, an error or the end of the process, with nothing more done.
Interrupt ==
  /\ job # Idle /\ Fault
  /\ Rest /\ logs' = {}
  /\ UNCHANGED <<now, Burns, escrow, txs, consumed, Bitcoin, storeVars>>

Begin(r) ==
  \/ PrepareRejects(r) \/ PrepareBegins(r)
  \/ RequestExpires(r) \/ RequestBegins(r)
  \/ SettleExpires(r) \/ SettleRejected(r) \/ SettleConsumed(r) \/ SettleBegins(r)
  \/ SettleReceipt(r) \/ BroadcastBegins(r)

Continue ==
  \/ ScanUpserts \/ ScanEnds
  \/ Fund \/ FundFails \/ RequestEnds \/ RequestFails
  \/ Submit \/ SubmitFails \/ WaitEnds \/ WaitFails
  \/ Broadcast \/ BroadcastFails

Lost == FundLost \/ SubmitLost \/ BroadcastLost \/ Interrupt

Next ==
  \/ ChainStep /\ UNCHANGED <<storeVars, workerVars>>
  \/ ScanBegins \/ Continue \/ Lost
  \/ \E r \in Redeems : Begin(r)

Spec == Init /\ [][Next]_vars

\* The cycle comes back to every stage and in each stage to every row, so what
\* is ready again and again is taken; the chain goes on and mines what it has.
\* Nobody needs to answer a request, complete for the worker or cancel.
Fairness ==
  /\ WF_vars(Wait /\ UNCHANGED <<storeVars, workerVars>>)
  /\ WF_vars(NextBlock /\ UNCHANGED <<storeVars, workerVars>>)
  /\ WF_vars((\E i \in DOMAIN txs : Mine(i)) /\ UNCHANGED <<storeVars, workerVars>>)
  /\ WF_vars(Continue) /\ SF_vars(ScanBegins)
  /\ \A r \in Redeems : SF_vars(Begin(r))

FairSpec == Spec /\ Fairness

-----------------------------------------------------------------------------
(* What the redeem half must not do, whatever call fails and whenever the   *)
(* process ends, and what it must get done.                                 *)

Done == {"redeem_completed", "btc_broadcast"}

\* Every coin spent for a redeem is the one its authorization committed to and
\* the EVM side was settled for, so no redeem is paid twice: broadcast follows
\* completeRedeemWithAuthorization and takes the plan from the same row.
PaidAsSettled ==
  \A c \in Coins : LET r == published[c] IN
    r # Nobody => row[r].plan = c /\ <<r, c>> \in consumed

\* The status of a row never runs ahead of the chains: what it says was
\* requested, submitted, completed or paid was, for the plan the row holds.
RowBehindChain ==
  \A r \in Redeems :
    /\ row[r].status \in {"release_requested", "redeem_submitted"} =>
         LET i == row[r].request IN
           /\ i \in DOMAIN txs /\ txs[i].kind = "request" /\ txs[i].redeem = r
           /\ txs[i].plan = row[r].plan /\ txs[i].deadline = row[r].deadline
           /\ txs[i].state \in {"mined", "approved", "rejected"}
    /\ row[r].status = "redeem_submitted" =>
         LET i == row[r].completion IN
           /\ i \in DOMAIN txs /\ txs[i].kind = "complete" /\ txs[i].redeem = r
           /\ txs[i].plan = row[r].plan /\ txs[i].request = row[r].request
    /\ row[r].status \in Done => <<r, row[r].plan>> \in consumed
    /\ row[r].status = "btc_broadcast" => published[row[r].plan] = r

\* No burn is lost between scans: what lies at or below the cursor has its row,
\* although rows and cursor are written one by one and a scan may be cut short.
NoBurnSkipped ==
  \A r \in Redeems : burnedIn[r] \in 1 .. cursor => row[r].status # "absent"

\* Two releases never compete for one treasury coin, as long as the node that
\* holds the locks on the coins keeps running.
CoinsReserved ==
  ~walletRestarted =>
    \A r, s \in Redeems : r # s /\ row[r].plan # NoCoin => row[r].plan # row[s].plan

Rank(status) ==
  CASE status = "absent" -> 0 [] status = "observed" -> 1
    [] status = "release_prepared" -> 2 [] status = "release_requested" -> 3
    [] status = "redeem_submitted" -> 4 [] status = "redeem_completed" -> 5
    [] OTHER -> 6

\* A row only moves forward, and what was committed for it, authorization,
\* request and transaction, never changes once there, whatever scan sees the
\* burn again or stage is repeated.
ForwardOnly ==
  [][\A r \in Redeems :
       /\ Rank(row[r].status) <= Rank(row'[r].status)
       /\ row[r].status \in {"failed", "btc_broadcast"} => row'[r].status = row[r].status
       /\ row[r].plan # NoCoin => /\ row'[r].plan = row[r].plan
                                  /\ row'[r].deadline = row[r].deadline
       /\ row[r].request # 0 => row'[r].request = row[r].request
       /\ row[r].tx # NoCoin => row'[r].tx = row[r].tx]_vars

\* The rows and the two chains together keep the promise of RedeemSettlement.
Settlement == INSTANCE RedeemSettlement WITH
  Redeem <- Redeems, Coin <- Coins, NoPlan <- NoCoin, NoPayee <- Nobody,
  agreed <- [r \in Redeems |-> row[r].plan], settled <- consumed, paid <- published

\* The worker implements RedeemSettlement: a plan is agreed when the row is
\* prepared, settled by whoever completes the redeem, and paid by the broadcast.
ImplementsSettlement == Settlement!Spec

\* The worker waits on the node for a completion the node has forgotten, or for
\* a coin that another release has spent: neither ends by itself.
Stranded(r) ==
  \/ row[r].status = "redeem_submitted" /\ txs[row[r].completion].state = "dropped"
  \/ row[r].status = "redeem_completed" /\ published[row[r].plan] \notin {Nobody, r}

Resolved(r) ==
  \/ row[r].status \in {"failed", "btc_broadcast"}
  \/ \E c \in Coins : published[c] = r

\* Once faults cease, every burn seen is paid out or given up for a reason the
\* row states, unless it is stranded: nothing else blocks a row for ever, not a
\* silent oracle, a lost answer or a treasury without coins.
RedeemResolves ==
  \A r \in Redeems : row[r].status # "absent" ~> Resolved(r) \/ Stranded(r)

\* A row is never given up when the redeem is consumed on the EVM chain: the
\* worker finds out (test/public-testnet-service.test.js:1366) and completes it.
FailsOnlyUnconsumed ==
  [][\A r \in Redeems :
       row[r].status # "failed" /\ row'[r].status = "failed"
         => escrow[r] # "CONSUMED"]_vars

=============================================================================
