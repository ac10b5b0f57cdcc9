---------------------------- MODULE DepositChains ----------------------------
(***************************************************************************)
(* Bitcoin and the EVM chain as the deposit half of the public service     *)
(* meets them, with the Chainlink Functions source that decides a mint     *)
(* (chainlink/functions/mint-authorization.js).  Faults spend a budget.    *)
(***************************************************************************)
EXTENDS Integers, Sequences, FiniteSets, BlockTime

CONSTANTS Deposits,        \* deposit ids, each with an address of its own
          Outputs,         \* outputs of the exact amount to those addresses
          NoOutput,
          PaysTo,          \* [Outputs -> Deposits]
          Expiry,          \* [Deposits -> Nat], the intents' expiry
          MinConfirmations,
          MaxTip,          \* bound: the last Bitcoin block
          MaxTaken,        \* bound: outputs taken for releases at a time
          MaxFaults        \* bound: reorgs, losses, timeouts, crashes

ASSUME DepositChainsAssumption ==
  /\ NoOutput \notin Outputs
  /\ PaysTo \in [Outputs -> Deposits]
  /\ Expiry \in [Deposits -> Nat]
  /\ MinConfirmations \in Nat \ {0}
  /\ MaxTip \in Nat \ {0}
  /\ MaxTaken \in Nat /\ MaxFaults \in Nat

VARIABLES tip,             \* height of the Bitcoin chain
          place,           \* [Outputs -> height], 0 in the mempool, -1 nowhere
          undone,          \* history: outputs a reorg took after the DON approved
          taken,           \* outputs the wallet holds for releases, or spent in them
          intents,         \* deposits the registry knows
          minted,          \* [Deposits -> the output minted for], or NoOutput
          txs,             \* the worker account's transactions, in nonce order
          faults

chainVars == <<now, tip, place, undone, taken, intents, minted, txs, faults>>

\* What a request or a mint is about: the mint authorization of the worker.
Authorization == [deposit : Deposits, output : Outputs, confirmations : 0 .. MaxTip,
                  observedHeight : 0 .. MaxTip, deadline : Nat]

Tx == [kind : {"request", "mint"}, auth : Authorization, request : Nat,
       state : {"pending", "reverted", "mined", "approved", "rejected"}]

ChainsTypeOK ==
  /\ now \in 0 .. MaxTime /\ tip \in 0 .. MaxTip
  /\ place \in [Outputs -> -1 .. MaxTip]
  /\ undone \subseteq Outputs /\ taken \subseteq Outputs
  /\ intents \subseteq Deposits /\ minted \in [Deposits -> Outputs \cup {NoOutput}]
  /\ txs \in Seq(Tx) /\ faults \in 0 .. MaxFaults

ChainsInit ==
  /\ now = 0 /\ tip = 1 /\ place = [o \in Outputs |-> -1]
  /\ undone = {} /\ taken = {}
  /\ intents = {} /\ minted = [d \in Deposits |-> NoOutput] /\ txs = << >>
  /\ faults = 0

Fault == faults < MaxFaults /\ faults' = faults + 1

Confirmations(o) == IF place[o] > 0 THEN tip - place[o] + 1 ELSE 0

-----------------------------------------------------------------------------
(* Bitcoin.                                                                 *)

Evm == <<intents, minted, txs>>

Pay(o) ==
  /\ place[o] = -1
  /\ place' = [place EXCEPT ![o] = 0]
  /\ UNCHANGED <<now, tip, undone, taken, Evm, faults>>

BitcoinBlock ==
  /\ tip < MaxTip
  /\ tip' = tip + 1
  /\ \E included \in SUBSET {o \in Outputs : place[o] = 0} :
       place' = [o \in Outputs |-> IF o \in included THEN tip' ELSE place[o]]
  /\ UNCHANGED <<now, undone, taken, Evm, faults>>

\* The chain is rewritten, as high as before, without the output's transaction,
\* which waits again or conflicts with what replaced it.
ReorgOutput(o) ==
  /\ place[o] > 0
  /\ Fault
  /\ \E p \in {-1, 0} : place' = [place EXCEPT ![o] = p]
  /\ undone' = IF \E i \in DOMAIN txs : /\ txs[i].state = "approved"
                                        /\ txs[i].auth.output = o
                THEN undone \cup {o} ELSE undone
  /\ UNCHANGED <<now, tip, taken, Evm>>

\* The wallet that owns the deposit addresses also pays the releases: it locks, and
\* then spends, any of its outputs with a confirmation, a deposit's as well.
Take(o) ==
  /\ Confirmations(o) >= 1 /\ o \notin taken /\ Cardinality(taken) < MaxTaken
  /\ taken' = taken \cup {o}
  /\ UNCHANGED <<now, tip, place, undone, Evm, faults>>

\* No code lifts a lock: the wallet forgets it with a restart, or a reorg undoes
\* the release that spent the output.
GiveBack(o) ==
  /\ o \in taken /\ Fault
  /\ taken' = taken \ {o}
  /\ UNCHANGED <<now, tip, place, undone, Evm>>

-----------------------------------------------------------------------------
(* The EVM chain.                                                           *)

Bitcoin == <<tip, place, undone, taken>>

\* mintWithAuthorization: an approved request for an open deposit, in time.
Mintable(auth, request) ==
  /\ auth.deposit \in intents /\ minted[auth.deposit] = NoOutput
  /\ \A d \in Deposits : minted[d] # auth.output
  /\ now <= Expiry[auth.deposit] /\ now <= auth.deadline
  /\ txs[request].state = "approved"

Mine(i) ==
  /\ i \in DOMAIN txs /\ txs[i].state = "pending"
  /\ \A j \in 1 .. i - 1 : txs[j].state # "pending"
  /\ \/ /\ txs[i].kind = "request" /\ now <= txs[i].auth.deadline
        /\ txs' = [txs EXCEPT ![i].state = "mined"]
        /\ UNCHANGED minted
     \/ /\ txs[i].kind = "mint" /\ Mintable(txs[i].auth, txs[i].request)
        /\ txs' = [txs EXCEPT ![i].state = "mined"]
        /\ minted' = [minted EXCEPT ![txs[i].auth.deposit] = txs[i].auth.output]
     \/ /\ IF txs[i].kind = "request" THEN now > txs[i].auth.deadline
                                      ELSE ~Mintable(txs[i].auth, txs[i].request)
        /\ txs' = [txs EXCEPT ![i].state = "reverted"]
        /\ UNCHANGED minted
  /\ UNCHANGED <<now, Bitcoin, intents, faults>>

\* An approved authorization is public: anyone may mint with it.
MintElsewhere(i) ==
  /\ i \in DOMAIN txs /\ txs[i].kind = "request" /\ Mintable(txs[i].auth, i)
  /\ minted' = [minted EXCEPT ![txs[i].auth.deposit] = txs[i].auth.output]
  /\ UNCHANGED <<now, Bitcoin, intents, txs, faults>>

\* assertObservationMatchesAuthorization's height check: the two heights of an
\* authorization fit the block the output is in.
HeightsFit(auth) ==
  /\ place[auth.output] > 0
  /\ auth.observedHeight \in place[auth.output] .. tip
  /\ auth.confirmations = auth.observedHeight - place[auth.output] + 1

\* Mutant of Endorses: the heights an authorization claims are taken on trust.
EndorsesClaim(auth) ==
  /\ now <= auth.deadline
  /\ PaysTo[auth.output] = auth.deposit
  /\ auth.confirmations >= MinConfirmations

\* Both Bitcoin sources agree with the authorization.
Endorses(auth) ==
  /\ now <= auth.deadline
  /\ PaysTo[auth.output] = auth.deposit
  /\ HeightsFit(auth)
  /\ auth.confirmations >= MinConfirmations
  /\ Confirmations(auth.output) >= MinConfirmations

\* A source that throws, for whatever reason, is fulfilled with its error.
Answer(i) ==
  /\ i \in DOMAIN txs /\ txs[i].kind = "request" /\ txs[i].state = "mined"
  /\ \/ /\ Endorses(txs[i].auth)
        /\ txs' = [txs EXCEPT ![i].state = "approved"]
        /\ UNCHANGED faults
     \/ /\ ~Endorses(txs[i].auth)
        /\ txs' = [txs EXCEPT ![i].state = "rejected"]
        /\ UNCHANGED faults
     \/ /\ Fault
        /\ txs' = [txs EXCEPT ![i].state = "rejected"]
  /\ UNCHANGED <<now, Bitcoin, intents, minted>>

Wait == Tick /\ UNCHANGED <<Bitcoin, Evm, faults>>

=============================================================================
