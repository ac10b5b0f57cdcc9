# A verification of the frombitcoin bridge

The repository is a bridge between Bitcoin and an EVM chain: wrapped satoshis
are minted for deposits on Bitcoin and burned for releases, and a Chainlink
Functions DON decides what may be minted and released.  This directory models
its contracts and how they are deployed and locked down, the services that run
it, the way of a release from the burn to its Bitcoin signature, and the public
site; it checks the models with TLC and proves their safety with TLAPS: every
safety property that a passing run checks is a theorem as well.  Every
definition is translated from the source; `PROJECT.json` maps each to its lines.

## The system

| Component | Code | State | Operations | What makes it hard, and correct |
|---|---|---|---|---|
| Wrapped token | `contracts/WrappedBitcoin.sol`, `utils/Ownable.sol` | balances, allowances, supply, minters, the lock | transfer, approve, mint, burnFrom, setMinter, lockMinter, ownership in two steps | the supply is the balances and is backed; a lock or a renunciation is for ever |
| Deposit registry | `DepositRegistry.sol` | intents, replay flags of deposits and outpoints, consumers, the lock | createDepositIntent, consumeDeposit, the consumer role | one mint per deposit and per outpoint |
| Mint gateway | `MintGateway.sol` | pause, confirmations, window limit | mintWithAuthorization, switches | only what was approved, in time, within the limit |
| Burn gateway | `BurnGateway.sol` | redeem records, nonces, redeem ids, window limit | burn, completeRedeemWithAuthorization, setRedeemState | a redeem ends once and in one way |
| Functions verifier | `ChainlinkFunctionsVerifier.sol` | pending requests, approvals, requesters | request, callback, verify | callbacks come late, twice, in any order |
| Mint source | `chainlink/functions/mint-authorization.js` | none | decides a mint on two Bitcoin APIs | heights of a chain that moves |
| Public worker | `scripts/public-testnet-worker.js`, `lib/public-testnet-chainlink.js`, `lib/bitcoin-core-psbt.js` | nothing but the call in flight | eight stages, each over the rows it lists | every await may time out, be lost or be the last; two chains move meanwhile |
| Public store | `lib/public-testnet-store.js` | a row per deposit and redeem, a cursor | one SQL statement per operation, no transactions across them | a row never runs ahead of the chains |
| Public API | `scripts/public-testnet-api.js`, `lib/public-testnet-cost-limiter.js`, views | the limiter's buckets, a cached status, requests under way | creates intents, serves rows and the status | chain first, row second; requests that overlap, fail or outlive their client |
| Redeem service | `scripts/redeem-service.js`, `lib/redeem-store.js`, `lib/evm-redeem-watcher.js`, `lib/attestation-provider.js`, `lib/release-relayer.js`, `lib/attestation-ingest.js` | a row per redeem, shared by several processes | watch, authorize, attest, relay, ingest | lists that go stale across an await in another process |
| Release source and preflight | `chainlink/functions/release-authorization.js`, `lib/don-release-adapter.js`, `lib/don-release-verifier.js`, `lib/authorization-validator.js` | none | reads the burn from two RPC providers, then their heights, then asks the preflight | separate calls against a chain that moves; approved means final |
| Policy signer | `scripts/sign-release-psbt.js`, `lib/btc-policy-signer.js`, `lib/btc-signer-store.js`, `lib/bitcoin-psbt.js` | a decision per redeem id | verify, reserve, sign, record | runs that overlap or end anywhere; one plan per redeem id |
| ECDSA attestations | `contracts/AttestationVerifier.sol`, `libraries/ECDSA.sol`, `lib/bridge.js` | the signer set | verify, setSignerSet | distinct, sorted, canonical, enough; a new set refuses what the old one signed |
| Deployment and lockdown | `scripts/deploy.js`, `configure-chainlink-functions.js` | the transactions still to send | deploy, configure, lock down, renounce | a script interrupted between two transactions |
| Runtime guard | `lib/public-testnet-runtime-guard.js` | how far it has read | asks the chain for the lockdown, a call at a time | an owner who acts between two answers |
| Web page | `public/app.js` | appState, sessionStorage | flows that a click or a timer starts | flows that overlap in one object; a wallet that switches or stays silent |
| Operations | reconciliation, health, `check-ops.js`, backup, configuration, the command-line tools | files | read-only audits, copies, presentation | little that a state machine tells |

The user asks the API for a deposit, the API creates the intent on chain and
stores a row; the user pays; the worker sees the payment, asks the DON through
the verifier, and mints with the approval.  A user burns; the worker scans the
log, has the custody select coins, asks the DON about that very spend plan,
completes the redeem on chain and only then broadcasts.  The API, the worker and
the redeem service are separate systemd units over SQLite files; each contract
has an owner until the lockdown renounces it; approved authorizations are
public, so anybody may use them in the worker's place.

## The modules

### The contracts

| Module | Code |
|---|---|
| `BlockTime` | the clock, `block.timestamp` |
| `Ownable`, `WrappedBitcoin`, `DepositRegistry`, `ChainlinkVerifier`, `MintGateway`, `BurnGateway` | the contract of that name (`ChainlinkVerifier`: `ChainlinkFunctionsVerifier.sol`), an operator per function |
| `WindowLimit` | the window limit both gateways have |
| `EvmBridge` | the five contracts on one chain: the variables' initial values, an action per kind of transaction, the specification |
| `BridgeLedger` | what the contracts promise: a supply, the mints, the redeems, a seal |
| `EvmProperties`, `EvmBridge_proofs`, `Sums` | properties, theorems, lemmas about sums |
| `MCEvmBridge` | the instances for TLC |
| `Deployment`, `Deployment_proofs`, `MCDeployment` | `deploy.js`, `configure-chainlink-functions.js` and the services' guard over `EvmBridge`; theorems; an instance |

A transaction is one atomic step, as it is on chain; its guard is the
conjunction of what the function and those it calls require, and what reverts is
no step.  Hashes are taken as injective, so a deposit id is its intent and a
redeem request hash its request.  Amounts are small naturals below `MaxUint`,
the largest of which is the infinite allowance.  `issuedElsewhere` and
`destroyedElsewhere` are history: what minters and spenders other than the
gateways did to the supply.  The DON is a set, `DonApproves`: the pairs of a
kind and an authorization it would approve.  The router is the tests' mock: it
fulfils any request, any number of times, with any answer.

`Deployment` starts where the five contracts are created.  A script is the
sequence of the transactions it has still to send; each is one of `EvmBridge`'s
owner calls by the account the script signs with, anything of `EvmBridge` may
come in between, and a script may end before each of them and never resumes.
The guard's reads are a sequence too, with `guard` counting the answers it has
had.  Two things show while modelling, which no property states: on mainnet the
owner must be a contract, so `--configure` and `--chainlink-only-risk`, which
sign with a key, always fail there; and the guard asks the verifier for
`authorizedRequester`, which only the Functions verifier has, while
`--chainlink-only-risk` insists on the ECDSA one, so a deployment locked down by
that option, as `docs/public-testnet-runbook.md:27` has it, never passes the
guard.  `GuardReads` keeps both.

### The worker's redeem half

| Module | Code |
|---|---|
| `RedeemStore` | the redeem rows and the cursor of `public-testnet-store.js` |
| `RedeemChains` | burns, the verifier and the gateway, the account's transactions, the treasury's coins |
| `RedeemWorker` | the five redeem stages of `public-testnet-worker.js`; properties |
| `RedeemSettlement` | the promise: agree on a plan, settle it, pay it |
| `RedeemWorker_proofs`, `MCRedeemWorker` | theorems, instances |

An action of the worker is what it does between two awaits, from one answer to
the next call.  `job` is the call in flight and `logs` what a scan still has to
store; both are gone after `Interrupt`, which is a timeout as much as a crash.
`workerRpcCall` abandons a call without cancelling it: `RequestBegins` puts the
transaction on the way before the job can be interrupted, so a call that takes
effect after its timeout is a transaction nobody waits for.  This is slightly
more than the code does, as an abandoned call is sent at once and not later,
which the order of mining makes up for.  A node that loses its mempool drops a
suffix of the account's nonces (`LosePending`), a reorganization replaces a
burn's block (`ReorgBurn`) or undoes a completion (`UndoCompletion`), a node's
restart forgets the wallet's locks (`WalletRestart`).  `autoBroadcastBitcoin` is
on.  MANUALLY_RESOLVED is CANCELLED at this grain.  ethers throws at a reverted
receipt and estimates gas before it sends, so a completion that would revert now
is not sent.  The order of the listings is left open and their limits are not
exceeded.  One worker runs, as the unit files have it.

### The worker's deposit half

| Module | Code |
|---|---|
| `DepositChains` | a Bitcoin chain that grows and is rewritten, the registry and the gateway, the account's transactions, the mint source's decision |
| `DepositWorker` | `createDepositIntent` of the API, the deposit rows, the three deposit stages; properties |
| `CommitmentLedger` | the promise, of a deposit, the authorization its row asked the DON about and the mints |
| `DepositWorker_proofs`, `MCDepositWorker` | theorems, instances |

`place` is the height of an output's block, 0 in the mempool and -1 nowhere.
`Endorses` is the source's decision: the heights an authorization names must fit
the block the output is in.  `undone`, the approved outputs that a reorganization took, is
history.  Mint limits and pauses are left to the contracts' own model.

The wallet that owns the deposit addresses is the one that pays the releases, and
it selects outputs of one confirmation (`bitcoin.minConf`) where the worker waits
for six (`chainlink.minConfirmations`).  `Take` is a release that locks or spends
an output (`public-testnet-worker.js:447-457`), at any time; `listunspent` then
lists it no more (`Candidates`), and a deposit whose output goes before it was
observed deep enough is never asked about.  `GiveBack` is the lock forgotten, or
the release undone.  The source looks at the output's transaction and not at
whether it is spent, so a deposit already observed is minted all the same.

### The redeem service

| Module | Code |
|---|---|
| `ReleaseStore` | the table and the cursor of `redeem-store.js`, an operator per statement |
| `ReleaseChain` | the EVM chain: block hashes, where burns are, redeems on the gateway, the relayer's transactions |
| `ReleaseService` | `redeem-service.js` in its three roles, and `ingest-attestation.js`; properties |
| `CommitmentLedger` | the promise, of a redeem, its authorization and what is attested and sent |
| `ReleaseService_proofs`, `MCReleaseService` | theorems, instances |

Watcher, attester, relayer and ingest are processes of their own over one SQLite
file.  An action is one statement on the table, with what a process does between
it and its last statement or await; a list is a set of copies of rows as they
were when it was made, and is worked through as such.  An error ends the
process (`runCycle` rethrows), and systemd starts it again with an empty memory:
`WatchStops`, an unsignable row of `AttestTakes`, `RelayRefused`, `RelayReverts`,
`Crash`.  A burn's log position stands for its transaction and log index, both of
which its redeem id contains; an authorization is that position and a deadline,
an attestation the authorization it signs.  A transaction that is dropped is one
`tx.wait` waits for in vain.  A reorganization below a completion is
`UndoCompletion`; the others reach only redeems still open.  `displaced`, the
redeems whose burn was replaced although final by the configured depth, and
`settledEver` are history.  The bridge's configuration is read in the same step
as the list it precedes, which only the watcher writes to.  `SetSignerSet` is the
verifier's owner giving it a signer set that the attesters' keys are not of, or
theirs again (`foreignSet`): while it is foreign every completion reverts, the
relayer's as well as others'.  Attesters that are given the keys of the new set
are the same state as before, with the rows attested under the old one refused
until they are attested again; that is not modelled.  Faults, reorganizations,
cancellations, completions by others, ingests and changes of the signer set share
the budget `MaxOutside`.

### From a burn to a signature

| Module | Code |
|---|---|
| `AttestationVerifier` | threshold attestations: signer set, digest, recovery, distinct signers |
| `ReleaseChecks` | the artifacts' identities and commitments, the spend plan of a PSBT, the checks of source, preflight, validator and signer, an operator each |
| `ReleaseApproval` | an EVM chain that grows and is reorganized, two providers behind it, the DON's source a call at a time |
| `BtcSigner` | `signReleasePsbt`, a step per statement on its table, in runs that overlap |
| `ReleaseSigning` | both together, their properties |
| `CommitmentLedger` | the promise: an id is committed to one plan for good, and only that is used; here a redeem id, its spend plan and its signatures |
| `ReleaseSigning_proofs`, `MCReleaseSigning` | theorems, an instance |

A hash is the tagged value it is taken of, hence injective.  A signature is the
address it recovers to and whether it is canonical.  A PSBT's plan leaves its
sequence numbers out, as `psbtToSpendPlan` does, so two PSBTs may have one plan
and one digest: the promise is one plan, not one transaction.  `approved`,
`signatures` and the `moved` of an approval are history.

The source's approval and the signers' attestations are two paths.  What the
source approves goes to `ChainlinkFunctionsVerifier`; an ECDSA attestation is
made of any authorization its maker is given (`bridge.js:112-134`, called by
`attestation-provider.js:33-60` for a row and by `run-bitcoin-regtest-release.js:242`
for one of its own), and `signReleasePsbt` checks the attestation and not the
approval.  So `Attest` has no guard, `SignedIsAttested` says no more than
that an honest signer attested what is signed, and `OnePaymentPerBurn` speaks of
those signed plans whose authorizations the source approved of settled logs:
that the attested ones are among them is nothing the code ensures.

`moved` names the
exception that `ApprovedIsFinal` needs: the source reads the events
(`release-authorization.js:169-170`) before the heights (`:175-176`), and a
provider that changed its fork in between is believed on both.  The signer never
gives up a reservation, signed or not, while the reorg rules of
`docs/signer-policy-v1.md` have it "clear any unsigned reservation": `Resolved`
has a redeem id reserved for other digests as one of its two ways out.
Inputs are reserved by nobody: two redeem ids may be signed over one coin, and
Bitcoin takes one of them.  The statuses broadcast, confirmed and aborted of the
schema are never written.

### The public site

| Module | Code |
|---|---|
| `CostLimiter` | the fixed windows in front of POST /deposits |
| `PublicApi` | POST /deposits and GET /status, a step per await; restarts |
| `WebPage` | `app.js`: every flow over the shared `appState`, the user's wallet, the token |
| `Site` | both together, their properties |
| `Site_proofs`, `MCSite` | theorems, an instance |

A flow is one call of a handler, `at` the await it is behind; what it sets in
`busy` and `walletBusy` its `finally` resets, whoever set it too.  `posts` keeps
every request with what became of its transaction.  A receipt of one block is
taken as final, as the API does.  `alone`, which `BurnsCovered` speaks of, marks
a flow beside which nothing used the wallet: two redeems that overlap, which a
second click before `busy` is set begins (`app.js:697-711`), may use up each
other's allowance.  Fixed windows admit twice the limit across an edge, and
a limit that is not positive admits nothing: `DepositsMetered` says so (`docs/hetzner-public-testnet-runbook.md:325` reads
"12/min").  A wallet that switches its chain behind `ensureSepolia` sends the
burn elsewhere, and the page takes that receipt for the burn's; overlapping
refreshes show their answers as they arrive.  Neither `fetch` nor `tx.wait` has a
timeout, so `PageReturns` rests on the relayer's transactions being mined.
Three simplifications: a redeem begins with an account connected, where
`ensureRedeemWallet` would first connect one (`app.js:810-812`), which here is a
flow of its own; a wallet that answers with accounts has at least one; and a
wallet that has added Sepolia is taken to have switched to it, which
`ensureSepolia` does not check (`app.js:625`).

## The runs

Every run lets the instance stop at its bounds (`CHECK_DEADLOCK FALSE`): time,
blocks and requests are finite there and need not be in the system.

| Run | Properties | Bounds, and why they are enough |
|---|---|---|
| `evm_flow` | `EvmTypeOK` `SupplyBacked` `OneMintPerDeposit` `MintAuthorized` `ReleaseAuthorized` `ApprovalsAgree` `RedeemFinality` `ImplementsLedger` | one user who is the owner too, two intents, two outpoints, three mint authorizations that collide in every way, two burn log positions, three requests: an approval can be claimed twice, late or for the wrong deposit |
| `evm_governance` | `LockdownReported` `SupplyIsBalances` `RolesFinal` `LockedDown` | the deployment by script, by script and then by hand, and with options `main` refuses; one deposit, an owner who at any time gives roles to a user, locks, moves and renounces; the guard's ten reads between all of it |
| `evm_limits` | `MintRate` `UsageIsCurrent` | three deposits of one satoshi against a limit of one per two blocks, redeems against one that the owner lifts and sets anew, over three instants: a window ends, and a sliding period crosses its edge; pausing is left to the theorems, which hold for both switches |
| `worker_flow` | `NoBurnSkipped` `CoinsReserved` `PaidAsSettled` `RowBehindChain` `ForwardOnly` `ImplementsSettlement` | two redeems, two coins of a local wallet, three blocks, one fault anywhere: two redeems are enough to compete for a coin, for the scan and for the nonce |
| `worker_resolves` | `RedeemResolves` | two redeems, one coin, the DON's custody: one of the two must wait or give up |
| `worker_abandons` | `FailsOnlyUnconsumed`, violated | the same worker; see the findings |
| `deposit_flow` | `RowNeverAhead` `MintsBuried` `ObservationFrozen` `DepositResolves` | two deposits, one paid by two outputs, four blocks, two confirmations, one fault, one output at a time taken for releases (`MaxTaken`): the second output is what the worker may find after a reorganization took the first |
| `deposit_heights` | `HeightsAgree`, violated | see the findings |
| `release_flow` | `ScanMissesNoBurn` `AuthorizedWhenFinal` `ConsumedForReal` `ImplementsCommitment` `ReleasesComplete` | two redeems, the log of one in one of two places, three blocks, batches of one block, final after one, one fault, ingest or change of the signer set anywhere: two are enough for a list, for one row to stand in another's way, and for a scan in two batches |
| `release_resubmits` | `ReconciledFirst`, violated | an ingest and a restart; see the findings |
| `signing_flow` | `ApprovedIsFinal` `SignedIsAttested` `OnePaymentPerBurn` `ImplementsSigning` `SigningResolves` | one burn whose log a reorganization may move, finality one, three authorizations (two of one position, for two plans), three PSBTs (two of one plan), a dishonest signer and an outsider beside the honest one, two runs, one fault: enough for two redeem ids, for two plans under one id and for runs that race for one row |
| `site` | `TicketIsTracked` `DepositsMetered` `BurnsCovered` `StatusNeverOlder` `PageReturns` | three flows of the page and other clients; seven kinds of behaviours, see below |

`evm_limits` has a constraint, `OwnerFirst`: the owner's powers over roles and
ownership, and the minting and burning beside the gateways, are used in the first
block and before anything is asked for, or not at all; `evm_governance` combines
them with everything else.

`signing_flow` has an action constraint, `StagesInOrder`: the chain and the source
first, until the source has approved all it can; then the attestations; then
time and the signer's runs.  Neither half reads what the other writes but the
time, whose passing takes approvals away and brings none, all timestamps being
zero; an attestation only ever lets a run begin; and only `OnePaymentPerBurn` is
about both halves, which asks more the more is settled.  Chains on which the log
has not moved are left out of the second half: those on which it has settle the
same approvals.  So what could break a property in any order breaks it in this
one, and fairness, which is of the runs alone, meets no step that the constraint
cuts off.  The theorems need no such order.

`site` starts with one of the `Budgets`, what users, clock and faults may do in
the behaviour: four requests against limits of one to three over three ticks;
two deposits of the page with a refresh and two faults; a page and another client
over funds for one intent; status reads by the page and others over a cache of
one tick with a fault; a deposit beside a redeem, which share
`busy`; two redeems with a fault; a redeem and an approval with a switch of
account or chain.  All of them at once would be out of reach: what needs the
limiter's windows, or a restart, in the middle of a redeem is not among these
behaviours.

The type invariants `WorkerTypeOK`, `DepositTypeOK`, `ReleaseTypeOK`,
`SigningTypeOK` and `SiteTypeOK` document their modules' ranges and are proved,
as `EvmTypeOK` is; the invariants below contain them.  Each property of a passing run has a mutant: a
definition changed as a plausible bug would change it (`...Unchecked`,
`...Early`, `...Remembered` and so on, beside the definition they replace),
under which TLC finds the property violated.

**Findings.**  Three properties that the repository states do not hold.

1. `FailsOnlyUnconsumed`.  The worker "reconciles externally consumed redeem ids
   from contract event" (`test/public-testnet-service.test.js:1366`), but the
   deadlines come first (`public-testnet-worker.js:589`), and a reverted
   completion fails its row without asking (`:727`).  A redeem that somebody
   else completed in time can be given up: settled on the EVM side, never paid.
2. `HeightsAgree`.  `observeDeposits` reads the height once (`:133`) and the
   outputs later (`:137`); a block in between makes an authorization the mint
   source rejects, and the rejection fails a paid deposit for good (`:257`).
3. `ReconciledFirst`.  "`relayed`: EVM transaction submitted; receipt must be
   reconciled before resubmission" (`docs/bridge-v1-spec.md:460`), but the ingest
   refuses only consumed rows (`attestation-ingest.js:158`) and sets a relayed one
   back to attested, whose receipt the relayer does not ask for.  The second
   completion reverts: gas is lost, and no bitcoin.

A fourth divergence has no run of its own, since `MintsBuried` checks what it
could cost: "Reorg after tentative observation: invalidate pending authorization
and restart observation" (`docs/flows-v1.md:32`), but a row whose payment is no
longer found is left as it was (`public-testnet-worker.js:143`) and asked about.

**Fairness.**  `RedeemResolves` and `DepositResolves` are checked under the
modules' `Fairness`, which `runWorkerLoop` and the chains justify: the loop runs
for ever and every cycle enters every stage and takes every listed row, so each
stage and row is strongly fair (a row may be eligible only now and then, between
two other stages); what was awaited returns, unless a fault interrupts it; in
the redeem half time passes, in both blocks come, pending transactions are mined and the DON answers.  Faults,
reorganizations, burns, payments and what other people do are never fair.  The
exceptions the properties name are the code's own: a dropped completion is never
resubmitted, a coin may be spent by another release after the node forgot its
locks, a mint request has no deadline after which it is given up, and a release
may take the output of a deposit (`Buried` leaves out what is taken).  In the
deposit half time need not pass, so that the expiry of the intent does not make
the property empty.  `ReleasesComplete` is checked under the service's
`Fairness`: the roles run for ever and are restarted, so watcher and relayer are
weakly fair, and so are blocks and mining; the attester is strongly fair to each
redeem, as the rows are ordered by when an attestation was last requested.  The
watcher's and the relayer's lists are not ordered so, and each stops at its first
error: `Blocks` and `Moved` name the rows that then hold up all others for ever,
and under a foreign signer set no row gets through at all.
`SigningResolves`: an operator who has a release's artifacts runs the command on
them again and again (strong fairness per authorization and PSBT, as other runs
may hold the row in between), and a run goes on unless its process ends; signers,
source and clock need do nothing.  `PageReturns`: the server, its reads and the
relayer's transactions go on, and every flow of the page goes on, with whatever
answer; the user's own transactions may stay pending for ever, as `waitForReceipt`
gives up.

## The proofs

Eight modules hold theorems, for every value of the constants under the named
assumptions of the modules.

| Module | Theorem | Statement |
|---|---|---|
| `EvmBridge_proofs` | `EvmTypeCorrect` | `Spec => []EvmTypeOK` |
| | `ApprovalsAlwaysAgree` | `Spec => []ApprovalsAgree` |
| | `MintsConsume`, `DepositsMintOnce` | `Spec => []MintsAreConsumed`, `Spec => []OneMintPerDeposit` |
| | `MintsAreAuthorized`, `ReleasesAreAuthorized` | `Spec => []MintAuthorized`, `Spec => []ReleaseAuthorized` |
| | `RedeemsAreFinal`, `RolesAreFinal`, `LockedDownHolds` | the action properties of those runs |
| | `ContractsImplementLedger` | `Spec => ImplementsLedger` |
| | `SupplyIsHeld`, `SupplyStaysBacked` | `Spec => []SupplyIsBalances`, `Spec => []SupplyBacked` |
| | `UsageStaysCurrent` | `Spec => []UsageIsCurrent` |
| | `RateIsBounded` | `Spec /\ [][~MintLimitReset]_vars => []MintRate` |
| `Sums` | | lemmas: how a sum over a finite set changes with the set and the summands |
| `Deployment_proofs` | `LockdownIsReported` | `DeploymentSpec => []LockdownReported` |
| | `DeployedRolesAreFinal` | `DeploymentSpec => RolesFinal` |
| `RedeemWorker_proofs` | `WorkerTypes` | `Spec => []WorkerTypeOK` |
| | `BurnsAreRecorded`, `RowsStayBehind` | `Spec => []NoBurnSkipped`, `Spec => []RowBehindChain` |
| | `PaymentsAreSettled`, `CoinsStayReserved` | `Spec => []PaidAsSettled`, `Spec => []CoinsReserved` |
| | `RowsMoveForward`, `WorkerImplementsSettlement` | `Spec => ForwardOnly`, `Spec => ImplementsSettlement` |
| `DepositWorker_proofs` | `DepositTypes`, `RowsFollowTheChain` | `Spec => []DepositTypeOK`, `Spec => []RowNeverAhead` |
| | `MintsStayBuried`, `ObservationsStayFrozen` | `Spec => []MintsBuried`, `Spec => ObservationFrozen` |
| | `MintsAreCommitted` | `Spec => ImplementsCommitment` |
| `ReleaseService_proofs` | `ReleaseTypes`, `CursorPassesNoBurn` | `Spec => []ReleaseTypeOK`, `Spec => []ScanMissesNoBurn` |
| | `AuthorizationsAreFinal`, `AuthorizationsAreUnique` | `Spec => []AuthorizedWhenFinal`, `Spec => []OneAuthorization` |
| | `AuthorizationsAreCommitted`, `ConsumedRowsAreSettled` | `Spec => ImplementsCommitment`, `Spec => []ConsumedForReal` |
| `ReleaseSigning_proofs` | `ApprovalsStayFinal`, `SignaturesAreAttested` | `Spec => []ApprovedIsFinal`, `Spec => []SignedIsAttested` |
| | `PaymentsAreOne`, `SigningImplementsLedger` | `Spec => []OnePaymentPerBurn`, `Spec => ImplementsSigning` |
| `Site_proofs` | `SiteTypes`, `TicketsAreTracked` | `Spec => []SiteTypeOK`, `Spec => []TicketIsTracked` |
| | `DepositsAreMetered`, `BurnsAreCovered` | `Spec => []DepositsMetered`, `Spec => []BurnsCovered` |
| | `AnswersNeverAge` | `Spec => StatusNeverOlder` |

The assumptions say what kind of value a constant is, and few of them more than
that.  `BtcSignerAssumption`: fewer dishonest signers than the threshold.
`ReleaseApprovalAssumption`: no reorganization deeper than finality.  The limits
that the constructors get have passed their check (`BridgeAssumption`), users are
finitely many (`AddressAssumption`), batches and windows are not empty, and the
site's `Budgets` are natural numbers.  The redeem service and the deposit worker
assume nothing of the kind: deeper reorganizations are steps there, which
`displaced` and `undone` remember and the properties name.

The inductive invariants.  `OneMintPerDeposit` is not inductive: a mint is
refused because the registry has flagged its deposit and outpoint, so it is
proved together with `MintsAreConsumed`, that every mint has left both flags.
`MintAuthorized` needs to know what an approval rests on, which is
`ApprovalsAgree`, and that in turn the types of the request table.
`ReleaseAuthorized` is proved with the same invariant of the verifier: an
approved request carries an answer of the DON, and an answer names one
authorization.  `RolesFinal` needs that a renounced contract has no
pending owner.  The refinement takes one step per action: a mint of the gateway
is the ledger's `Mint`, whose guard is `MintsAreConsumed` read backwards; minters
outside the gateway are `Issue`, impossible once the gateway is locked in.

`LockdownReported` is not inductive: `ScriptInv` says, of a lockdown script with
n calls left, which of them have taken effect, and `GuardInv` that what the
guard has read is among what nobody can take back.  Both rest on `GivenAway`:
no step of the contracts undoes a lock or a renunciation.

`ApprovedIsFinal` rests on `FinalityInv`: a provider's head is on a fork that
agrees with the chain as far down as finality settles it (`NodesBehind`), and
what the source holds between its calls is settled wherever the height it read
or will read says so (`SourceSettles`); a reorganization no deeper than
finality then leaves it.  `SignedIsAttested` needs the pigeonhole: a quorum of
distinct signers has an honest one in it (`QuorumHasHonest`), whose signature
only itself makes.  `TableInv` is the signer's: a run about to sign, and every
signature, finds its redeem id's row with its own plan; `INSERT` is what keeps
it.  `OnePaymentPerBurn` is the two together: two settled approvals are of one
log (`ApprovedIsFinal`), hence of one redeem id (`OneIdPerPlace`), hence of one
plan (`TableInv`).  In the refinement an insert is `Commit`, a signature is `Use`
and everything else stutters.

The sums.  `MapThenSumSet` picks the order in which it adds; `Sums` proves that
the order does not matter, by induction over finite sets in the form of "a family
that holds a set whenever it holds it without one element holds them all", which
needs no operator as a parameter.  What follows, `SumAdd`, `SumRemove`,
`SumUpdate`, `SumCover`, carries four properties of the contracts.
`SupplyIsBalances`: a transfer moves within the sum, a mint adds to both sides.
`SupplyBacked` needs that minted deposits are new (`MintsAreConsumed`), or the sum
over a set would count two as one.  `UsageIsCurrent` compares an open window's
usage with the sum of what it saw.  `MintRate` is about any period, so `RateInv`
adds the windows that are closed: a period that reaches into the open window saw
at most one limit before it, an earlier one at most two.  Its theorem has a
hypothesis on the behaviour, that the owner does not reset the mint limit, which
the run's instance has in its constants.

`WorkerInv` holds the redeem worker's job in flight to its row (`JobAtRow`),
everything the account sent to what its row committed to (`TxsFromRows`) and every
settlement to the row's coin (`SettledAsPlanned`); a worker that restarts drops
the job and nothing else.  `PaidAsSettled` and the refinement follow: a row
commits to its coin once, before anything is sent for it.  `NoBurnSkipped` is
inductive with `ScanCovers`, that a scan holds the logs it has not stored yet.

`DepositInv` follows a mint backwards: what was minted had an approval
(`MintsApproved`), what was approved pays the deposit and is buried, unless a
reorganization took it since (`ApprovedBuried`), and a mint is sent with the
request it relies on (`MintFollowsRequest`).

`ReleaseInv` says what the processes' stale copies have in common with the rows:
the authorization, which no statement changes once it is written (`CopyOf`).  A
row is where its burn is, in a final block (`RowsAtBurns`), and all that was sent
for a redeem carries its authorization and, once mined, settled it (`TxsHold`).
The lists and their age need no invariant of their own.

`CommitmentLedger` is implemented three times, with what an id and a plan are in
each table.  The redeem service: `MarkAuthorized` is `Commit`, possible once
because a listed row stays observed until the watcher writes it; `MarkAttested`
and a completion sent are `Use`, and all three of attester, ingest and relayer act
on copies, whose authorization is the row's by `CopyOf`.  Under `ReleaseInv` what
was used is what is committed, for the redeems acted on (`UsedIsCommitted`), so a
step needs to say only whom it acts on.  `OneAuthorization` is what the promise
says of one state.  The deposit half: the receipt of a request is `Commit`, a mint
sent is `Use`.  A deposit may be asked about twice, when a receipt was lost, but
its row takes one request: `AskedRows`, that a row with a request is past
observation, is inductive with `DepositInv`, and `ObservationFrozen`'s step fact
does the rest.  No run lists the deposit half's `ImplementsCommitment`: it is proved
only.

`SiteInv` has a part per property.  `TicketStored` and `RowsAnswered`: nothing is
answered that is not stored, and nothing stored that is not mined.  `ReadsAlone`
and `CacheFresh`: one status read at most is under way, and only while nothing is
kept.  `AloneIsAlone`, `AloneIsCovered` and `BurnIsNext`: beside a flow that has
the wallet to itself only its own transaction is pending, its approval is the last
word on the allowance, and its burn comes before any later spender's.
`LimiterInv`: a bucket counts what came since its window opened; at most the limit
got through since then and at most the limit in one window's length before, so no
span of that length holds more than both.

Model-checked only: liveness (`RedeemResolves`, `DepositResolves`,
`ReleasesComplete`, `SigningResolves`, `PageReturns`), which is out of the
prover's reach, as it needs `ENABLED`.  What TLC shows of these is on the
instances above.

## What is not modelled

Partly modelled: a deployment cut short among the five creations leaves
contracts nobody was told of; the mint source's parsing and encodings; the
store's counts, listings for the API and error texts; the one-shot command-line
tools, which call once what the services call in a loop; the custody adapter's
HTTP server and schemas; the guard's static checks of the configuration; the sets that
`setSignerSet` gives the ECDSA verifier, and services given the keys of a new one.  In the
worker's model the DON approves or rejects a release freely and the custody
returns any unreserved coin; `ReleaseSigning` has the decision itself.

Not modelled: the Bitcoin Core RPC client and the service runtime (a request and
its timeout, which the workers' models have as lost answers and interrupts),
reconciliation, health checks, backup and configuration parsing, which read and
copy.  Encodings, hashing, HTTP, formatting and layout have no property.  Two
hazards have none either, with their notes in `PROJECT.json`: the listings'
limits, behind which rows that always fail keep their place
(`public-testnet-store.js:373`), and a redeem begun twice before `busy` is set
(`app.js:697`).

## The plan

Done are the components, their safety properties as theorems, and an abstract
promise for each part that decides: `BridgeLedger`, `RedeemSettlement` and,
three times, `CommitmentLedger`.  What is left:

1. The two hazards without a property: a listing whose limit is smaller than the
   rows that keep failing, and two redeems begun before `busy` is set.
2. The partly modelled services: the store's listings for the API and the
   custody adapter's server.
3. The promises joined: that the authorization a redeem service commits to is the
   one the signer commits its plan for, across the artifacts an operator carries.
