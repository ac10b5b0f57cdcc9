---------------------------- MODULE DepositWorker ----------------------------
(***************************************************************************)
(* The deposit half of the public service: the intents its API creates     *)
(* (scripts/public-testnet-api.js), the deposit rows of its store, and the *)
(* three stages of the worker that observe a payment, ask the DON about it *)
(* and mint (scripts/public-testnet-worker.js).  An action is what runs    *)
(* between two awaits.                                                     *)
(***************************************************************************)
EXTENDS DepositChains

CONSTANT AuthorizationTtl

ASSUME TtlAssumption == AuthorizationTtl \in Nat

VARIABLES row,             \* [Deposits -> Row]
          creating,        \* deposits whose API call awaits its receipt
          job,             \* the worker's call in flight
          todo             \* what is left of the listing being observed

vars == <<chainVars, row, creating, job, todo>>

Statuses == {"absent", "intent_created", "btc_observed", "mint_requested",
             "minted", "failed"}

Row == [status : Statuses, output : Outputs \cup {NoOutput},
        confirmations : 0 .. MaxTip, observedHeight : 0 .. MaxTip,
        deadline : Nat, request : Nat]

NoRow == [status |-> "absent", output |-> NoOutput, confirmations |-> 0,
          observedHeight |-> 0, deadline |-> 0, request |-> 0]

Job == [at : {"idle", "observe", "request", "mint"},
        deposit : Deposits \cup {"none"}, id : Nat, deadline : Nat]

Idle == [at |-> "idle", deposit |-> "none", id |-> 0, deadline |-> 0]
Rest == job' = Idle

DepositTypeOK ==
  /\ ChainsTypeOK
  /\ row \in [Deposits -> Row] /\ creating \subseteq Deposits
  /\ job \in Job /\ todo \subseteq Deposits

Init ==
  /\ ChainsInit
  /\ row = [d \in Deposits |-> NoRow] /\ creating = {}
  /\ job = Idle /\ todo = {}

-----------------------------------------------------------------------------
(* The API's createDepositIntent.                                           *)

OnlyApi == UNCHANGED <<now, Bitcoin, minted, txs, job, todo>>

\* The transaction is sent, and mined unless the intent has expired by then.
CreateBegins(d) ==
  /\ d \notin intents /\ now <= Expiry[d]
  /\ intents' = intents \cup {d} /\ creating' = creating \cup {d}
  /\ OnlyApi /\ UNCHANGED <<row, faults>>

CreateEnds(d) ==
  /\ d \in creating
  /\ row' = [row EXCEPT ![d].status = "intent_created"]
  /\ creating' = creating \ {d}
  /\ OnlyApi /\ UNCHANGED <<intents, faults>>

\* The intent exists and nobody was told its address.
CreateLost(d) ==
  /\ d \in creating /\ Fault
  /\ creating' = creating \ {d}
  /\ OnlyApi /\ UNCHANGED <<intents, row>>

-----------------------------------------------------------------------------
(* observeDeposits.                                                         *)

\* Mutant of Observable: a deposit once seen is not looked at again.
ObservableOnce == {d \in Deposits : row[d].status = "intent_created"}

\* Mutant of Observable: a deposit is looked at until it is minted or failed.
ObservableRequested ==
  {d \in Deposits : row[d].status \in {"intent_created", "btc_observed", "mint_requested"}}

Observable == {d \in Deposits : row[d].status \in {"intent_created", "btc_observed"}}

\* The height is read once, before the outputs of any listed deposit.
ObserveBegins ==
  /\ job = Idle
  /\ todo' = Observable /\ todo' # {}
  /\ job' = [Idle EXCEPT !.at = "observe", !.id = tip]
  /\ UNCHANGED <<chainVars, row, creating>>

\* listunspent on the deposit's address, unconfirmed ones included; it lists no
\* output that is locked or spent.
Candidates(d) == {o \in Outputs \ taken : PaysTo[o] = d /\ place[o] # -1}

Looked(d) == todo' = todo \ {d} /\ IF todo' = {} THEN Rest ELSE UNCHANGED job

\* The deepest output is recorded; where there is none the row is left as it was.
Observe(d) ==
  /\ job.at = "observe" /\ d \in todo
  /\ \/ Candidates(d) = {} /\ UNCHANGED row
     \/ \E o \in Candidates(d) :
          /\ \A other \in Candidates(d) : Confirmations(other) <= Confirmations(o)
          /\ row' = [row EXCEPT ![d].status = "btc_observed", ![d].output = o,
                                ![d].confirmations = Confirmations(o),
                                ![d].observedHeight = job.id]
  /\ Looked(d) /\ UNCHANGED <<chainVars, creating>>

\* An error about one deposit leaves the others of the listing to be observed.
ObserveFails(d) ==
  /\ job.at = "observe" /\ d \in todo /\ Fault
  /\ Looked(d) /\ UNCHANGED <<now, Bitcoin, Evm, row, creating>>

-----------------------------------------------------------------------------
(* requestMintAuthorizations.                                               *)

OnlyRow == UNCHANGED <<chainVars, creating, todo>>
OnlySent == UNCHANGED <<now, Bitcoin, intents, minted, creating, todo>>

RequestEligible(d) ==
  /\ job = Idle /\ row[d].status = "btc_observed"
  /\ row[d].confirmations >= MinConfirmations

RequestExpires(d) ==
  /\ RequestEligible(d) /\ now > Expiry[d]
  /\ row' = [row EXCEPT ![d].status = "failed"]
  /\ Rest /\ OnlyRow

\* buildMintAuthorization, from the row.
AuthorizationOf(d, deadline) ==
  [deposit |-> d, output |-> row[d].output, confirmations |-> row[d].confirmations,
   observedHeight |-> row[d].observedHeight, deadline |-> deadline]

Send(kind, auth, request) ==
  txs' = Append(txs, [kind |-> kind, auth |-> auth, request |-> request,
                      state |-> "pending"])

RequestBegins(d) ==
  /\ RequestEligible(d) /\ now <= Expiry[d]
  /\ Send("request", AuthorizationOf(d, now + AuthorizationTtl), 0)
  /\ job' = [at |-> "request", deposit |-> d, id |-> Len(txs'),
             deadline |-> now + AuthorizationTtl]
  /\ OnlySent /\ UNCHANGED <<row, faults>>

RequestEnds ==
  /\ job.at = "request"
  /\ txs[job.id].state \in {"mined", "approved", "rejected"}
  /\ row' = [row EXCEPT ![job.deposit].status = "mint_requested",
                        ![job.deposit].request = job.id,
                        ![job.deposit].deadline = job.deadline]
  /\ Rest /\ OnlyRow

RequestFails ==
  /\ job.at = "request" /\ txs[job.id].state = "reverted"
  /\ Rest /\ UNCHANGED row /\ OnlyRow

-----------------------------------------------------------------------------
(* settleMintCallbacks.                                                     *)

Requested(d) == job = Idle /\ row[d].status = "mint_requested"

SettleRejected(d) ==
  /\ Requested(d) /\ txs[row[d].request].state = "rejected"
  /\ row' = [row EXCEPT ![d].status = "failed"]
  /\ Rest /\ OnlyRow

\* ethers estimates gas before it sends: what would revert now is not sent, and
\* the row waits for another try.
MintBegins(d) ==
  /\ Requested(d) /\ Mintable(AuthorizationOf(d, row[d].deadline), row[d].request)
  /\ Send("mint", AuthorizationOf(d, row[d].deadline), row[d].request)
  /\ job' = [at |-> "mint", deposit |-> d, id |-> Len(txs'), deadline |-> 0]
  /\ OnlySent /\ UNCHANGED <<row, faults>>

\* Mutant of MintEnds: any receipt will do.
MintEndsUnchecked ==
  /\ job.at = "mint" /\ txs[job.id].state \in {"mined", "reverted"}
  /\ row' = [row EXCEPT ![job.deposit].status = "minted"]
  /\ Rest /\ OnlyRow

MintEnds ==
  /\ job.at = "mint" /\ txs[job.id].state = "mined"
  /\ row' = [row EXCEPT ![job.deposit].status = "minted"]
  /\ Rest /\ OnlyRow

MintFails ==
  /\ job.at = "mint" /\ txs[job.id].state = "reverted"
  /\ Rest /\ UNCHANGED row /\ OnlyRow

-----------------------------------------------------------------------------

\* A timeout, an error or the end of the process at any await.
Interrupt ==
  /\ job # Idle /\ Fault
  /\ Rest /\ todo' = {}
  /\ UNCHANGED <<now, Bitcoin, Evm, row, creating>>

\* Users pay once the API has told them where.
ChainStep ==
  /\ \/ \E o \in Outputs : row[PaysTo[o]].status # "absent" /\ Pay(o)
     \/ \E o \in Outputs : ReorgOutput(o) \/ Take(o) \/ GiveBack(o)
     \/ BitcoinBlock \/ Wait
     \/ \E i \in DOMAIN txs : Mine(i) \/ MintElsewhere(i) \/ Answer(i)
  /\ UNCHANGED <<row, creating, job, todo>>

Begin(d) ==
  RequestExpires(d) \/ RequestBegins(d) \/ SettleRejected(d) \/ MintBegins(d)

Continue ==
  \/ \E d \in Deposits : Observe(d)
  \/ RequestEnds \/ RequestFails \/ MintEnds \/ MintFails

Next ==
  \/ ChainStep \/ ObserveBegins \/ Continue \/ Interrupt
  \/ \E d \in Deposits : \/ CreateBegins(d) \/ CreateEnds(d) \/ CreateLost(d)
                         \/ ObserveFails(d) \/ Begin(d)

Spec == Init /\ [][Next]_vars

\* As for redeems: the cycle comes back to every stage and row, Bitcoin goes on,
\* the worker's transactions are mined and the DON answers.  Time need not pass.
Fairness ==
  /\ WF_vars(BitcoinBlock /\ UNCHANGED <<row, creating, job, todo>>)
  /\ WF_vars(/\ \E i \in DOMAIN txs : Mine(i) \/ Answer(i)
             /\ UNCHANGED <<row, creating, job, todo>>)
  /\ WF_vars(Continue) /\ SF_vars(ObserveBegins)
  /\ \A d \in Deposits : SF_vars(Begin(d))

FairSpec == Spec /\ Fairness

-----------------------------------------------------------------------------
(* What the deposit half of the public service must not do, whatever block *)
(* arrives, is rewritten or call fails, and what it must get done.         *)

\* The status of a row never runs ahead of the EVM chain: what it says was
\* requested was, with the deadline it holds, and a row that says minted was
\* minted for the output it names, although receipts are lost and requests
\* repeated.
RowNeverAhead ==
  \A d \in Deposits :
    /\ row[d].status = "mint_requested" =>
         LET i == row[d].request IN
           /\ i \in DOMAIN txs /\ txs[i].kind = "request"
           /\ txs[i].auth = AuthorizationOf(d, row[d].deadline)
           /\ txs[i].state \in {"mined", "approved", "rejected"}
    /\ row[d].status = "minted" => minted[d] = row[d].output

\* Every mint has its bitcoin: the output pays the deposit's own address and is
\* buried as deep as the policy asks, unless the chain was rewritten after the
\* DON looked.  The rows do not ensure it, they keep what a reorg has undone.
MintsBuried ==
  \A d \in Deposits : LET o == minted[d] IN
    o # NoOutput => /\ PaysTo[o] = d
                    /\ o \in undone \/ Confirmations(o) >= MinConfirmations

StatusRank(status) ==
  CASE status = "absent" -> 0 [] status = "intent_created" -> 1
    [] status = "btc_observed" -> 2 [] status = "mint_requested" -> 3 [] OTHER -> 4

\* A row only moves forward, and from the request on what was observed is fixed:
\* an observation that was under way, a repeated stage or a late block changes
\* neither the output nor the heights the DON was asked about.
ObservationFrozen ==
  [][\A d \in Deposits :
       /\ StatusRank(row[d].status) <= StatusRank(row'[d].status)
       /\ row[d].status \in {"minted", "failed"} => row'[d] = row[d]
       /\ row[d].status = "mint_requested" =>
            row'[d] = [row[d] EXCEPT !.status = row'[d].status]]_vars

\* The authorization a row asked the DON about, and those the worker minted with.
NoAuthorization == [deposit |-> "none"]
AskedAbout(d) == IF row[d].request = 0 THEN NoAuthorization
                 ELSE AuthorizationOf(d, row[d].deadline)
Tried == {<<txs[i].auth.deposit, txs[i].auth>> : i \in {j \in DOMAIN txs : txs[j].kind = "mint"}}

\* The worker implements CommitmentLedger: once the store has a deposit's request,
\* its authorization stays, and the worker mints with no other, however often it
\* asks and tries.
Ledger == INSTANCE CommitmentLedger WITH
  Id <- Deposits, Plan <- Authorization, NoPlan <- NoAuthorization,
  committed <- [d \in Deposits |-> AskedAbout(d)], used <- Tried
ImplementsCommitment == Ledger!Spec

\* The worker can see the payment as deep as the policy asks: no release of the
\* wallet that received it holds or has spent the output.
Buried(d) == \E o \in Outputs \ taken : /\ PaysTo[o] = d
                                        /\ Confirmations(o) >= MinConfirmations

\* settleMintCallbacks retries for ever what can no longer be minted: the intent
\* or the authorization is out of time.
OutOfTime(d) ==
  \/ now > Expiry[d]
  \/ row[d].status = "mint_requested" /\ now > row[d].deadline

\* Once faults cease, a deposit that is paid and buried is minted or given up,
\* unless its time runs out, a reorg takes the payment away, or the wallet takes
\* the output for a release: it is listed no more, and a deposit that was not yet
\* observed deep enough is then never asked about.
DepositResolves ==
  \A d \in Deposits :
    (row[d].status # "absent" /\ Buried(d)) ~>
      \/ row[d].status \in {"minted", "failed"} \/ minted[d] # NoOutput
      \/ OutOfTime(d) \/ ~Buried(d)

\* While no block is rewritten, what the worker asks the DON about fits together
\* as the source asserts ("authorization confirmations do not match
\* observedBlockHeight", chainlink/functions/mint-authorization.js:226): the
\* confirmations are those the output had at the observed height.
HeightsAgree ==
  faults = 0 => \A i \in DOMAIN txs : HeightsFit(txs[i].auth)

=============================================================================
