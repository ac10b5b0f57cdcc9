----------------------- MODULE DepositWorker_proofs -----------------------
(***************************************************************************)
(* Proofs about the deposit half of the public service, for any deposits   *)
(* and outputs, any depth of confirmation, any number of rewritten blocks  *)
(* and lost calls, and every moment at which the worker may end.           *)
(***************************************************************************)
EXTENDS DepositWorker, SequenceTheorems, TLAPS

-----------------------------------------------------------------------------
(* The inductive invariant.                                                 *)

\* The API writes the first row of an intent, after the intent exists.
Creation ==
  \A d \in Deposits :
    /\ d \in creating => d \in intents /\ row[d].status = "absent"
    /\ d \notin intents => row[d].status = "absent"

\* Blocks lie at or below the tip.
PlacesBelowTip == \A o \in Outputs : place[o] <= tip

\* What is still to be observed has not been asked about; the height the listing
\* uses was the tip.
Listing ==
  /\ job.at = "observe" => job.id <= tip
  /\ job.at # "observe" => todo = {}
  /\ \A d \in todo : row[d].status \in {"intent_created", "btc_observed"}

Seen == {"btc_observed", "mint_requested", "minted"}

\* A row past observation names the output it saw.
OutputSeen == \A d \in Deposits : row[d].status \in Seen => row[d].output \in Outputs

\* Only requests are approved, and a mint is sent with the request it relies on;
\* once mined it has minted.
MintFollowsRequest ==
  \A i \in DOMAIN txs :
    /\ txs[i].state \in {"approved", "rejected"} => txs[i].kind = "request"
    /\ txs[i].kind = "mint" =>
         /\ txs[i].request \in DOMAIN txs
         /\ txs[txs[i].request].kind = "request"
         /\ txs[txs[i].request].auth = txs[i].auth
    /\ txs[i].kind = "mint" /\ txs[i].state = "mined" =>
         minted[txs[i].auth.deposit] = txs[i].auth.output

\* What the DON approved pays the deposit and stays buried, unless undone since.
ApprovedBuried ==
  \A i \in DOMAIN txs : txs[i].state = "approved" =>
    LET o == txs[i].auth.output IN
      /\ PaysTo[o] = txs[i].auth.deposit
      /\ o \in undone \/ Confirmations(o) >= MinConfirmations

\* Whoever minted had an approval of that output for that deposit.
MintsApproved ==
  \A d \in Deposits : minted[d] # NoOutput =>
    \E i \in DOMAIN txs : /\ txs[i].state = "approved"
                          /\ txs[i].auth.deposit = d /\ txs[i].auth.output = minted[d]

\* While a transaction's receipt is awaited its row stands where it was sent from.
JobAtRow ==
  /\ job.at = "request" =>
       /\ job.deposit \in Deposits /\ row[job.deposit].status = "btc_observed"
       /\ job.id \in DOMAIN txs /\ txs[job.id].kind = "request"
       /\ txs[job.id].auth = AuthorizationOf(job.deposit, job.deadline)
  /\ job.at = "mint" =>
       /\ job.deposit \in Deposits /\ row[job.deposit].status = "mint_requested"
       /\ job.id \in DOMAIN txs /\ txs[job.id].kind = "mint"
       /\ txs[job.id].auth = AuthorizationOf(job.deposit, row[job.deposit].deadline)

DepositInv ==
  /\ DepositTypeOK
  /\ Creation /\ PlacesBelowTip /\ Listing /\ OutputSeen /\ MintFollowsRequest
  /\ ApprovedBuried /\ MintsApproved /\ JobAtRow /\ RowNeverAhead

-----------------------------------------------------------------------------
(* Types.                                                                   *)

LEMMA ConstantTypes ==
  /\ NoOutput \notin Outputs /\ PaysTo \in [Outputs -> Deposits]
  /\ Expiry \in [Deposits -> Nat] /\ MinConfirmations \in Nat \ {0}
  /\ MaxTip \in Nat \ {0} /\ MaxFaults \in Nat /\ MaxTime \in Nat /\ AuthorizationTtl \in Nat
  BY DepositChainsAssumption, MaxTimeAssumption, TtlAssumption

Rows == [Deposits -> Row]

LEMMA TxsElements ==
  ASSUME txs \in Seq(Tx)
  PROVE  /\ Len(txs) \in Nat /\ DOMAIN txs = 1 .. Len(txs)
         /\ \A i \in DOMAIN txs : /\ txs[i] \in Tx /\ txs[i].auth \in Authorization
                                  /\ txs[i].auth.deposit \in Deposits
                                  /\ txs[i].auth.output \in Outputs
<1>1. /\ Len(txs) \in Nat /\ DOMAIN txs = 1 .. Len(txs)
      /\ \A i \in DOMAIN txs : txs[i] \in Tx
  BY LenProperties, ElementOfSeq
<1>2. \A i \in DOMAIN txs : txs[i].auth \in Authorization
  BY <1>1 DEF Tx
<1>3. \A i \in DOMAIN txs : txs[i].auth.deposit \in Deposits /\ txs[i].auth.output \in Outputs
  BY <1>2 DEF Authorization
<1> QED BY <1>1, <1>2, <1>3

LEMMA StateTypes ==
  ASSUME DepositInv
  PROVE  /\ row \in Rows
         /\ \A d \in Deposits : /\ row[d] \in Row /\ row[d].status \in Statuses
                                /\ row[d].output \in Outputs \cup {NoOutput}
                                /\ row[d].confirmations \in 0 .. MaxTip
                                /\ row[d].observedHeight \in 0 .. MaxTip
                                /\ row[d].deadline \in Nat /\ row[d].request \in Nat
         /\ job \in Job /\ job.id \in Nat /\ job.deadline \in Nat
         /\ txs \in Seq(Tx) /\ Len(txs) \in Nat /\ DOMAIN txs = 1 .. Len(txs)
         /\ \A i \in DOMAIN txs : /\ txs[i] \in Tx /\ txs[i].auth.deposit \in Deposits
                                  /\ txs[i].auth.output \in Outputs
         /\ tip \in 0 .. MaxTip /\ now \in Nat
         /\ \A o \in Outputs : place[o] \in -1 .. MaxTip
         /\ \A d \in Deposits : minted[d] \in Outputs \cup {NoOutput}
<1>1. /\ row \in Rows /\ job \in Job /\ txs \in Seq(Tx) /\ tip \in 0 .. MaxTip /\ now \in 0 .. MaxTime
      /\ place \in [Outputs -> -1 .. MaxTip] /\ minted \in [Deposits -> Outputs \cup {NoOutput}]
  BY DEF DepositInv, DepositTypeOK, ChainsTypeOK, Rows
<1>2. \A d \in Deposits : row[d] \in Row
  BY <1>1 DEF Rows
<1>3. \A d \in Deposits : /\ row[d].status \in Statuses /\ row[d].output \in Outputs \cup {NoOutput}
                          /\ row[d].confirmations \in 0 .. MaxTip
                          /\ row[d].observedHeight \in 0 .. MaxTip
                          /\ row[d].deadline \in Nat /\ row[d].request \in Nat
  BY <1>2 DEF Row
<1>4. job.id \in Nat /\ job.deadline \in Nat /\ now \in Nat
  BY <1>1, ConstantTypes DEF Job
<1> QED BY <1>1, <1>2, <1>3, <1>4, TxsElements

\* A confirmed output has as many blocks as its place leaves below the tip.
LEMMA ConfirmationTypes ==
  ASSUME DepositInv, NEW o \in Outputs
  PROVE  Confirmations(o) \in 0 .. MaxTip
<1>1. place[o] \in -1 .. MaxTip /\ tip \in 0 .. MaxTip /\ place[o] <= tip
  BY StateTypes DEF DepositInv, PlacesBelowTip
<1> QED BY <1>1, ConstantTypes DEF Confirmations

\* What the chains may do to a transaction already sent: only its state moves.
TxEvolves(t, u) ==
  /\ u \in Tx
  /\ u.kind = t.kind /\ u.auth = t.auth /\ u.request = t.request
  /\ t.kind = "request" /\ t.state \in {"mined", "approved", "rejected"} =>
       u.state \in {"mined", "approved", "rejected"}
  /\ t.state = "approved" => u.state = "approved"
  /\ u.state \in {"approved", "rejected"} => t.kind = "request"

TxsEvolve ==
  /\ txs' \in Seq(Tx) /\ DOMAIN txs' = DOMAIN txs
  /\ \A i \in DOMAIN txs : TxEvolves(txs[i], txs'[i])

LEMMA SameTxsEvolve ==
  ASSUME DepositInv, UNCHANGED txs PROVE TxsEvolve
  BY StateTypes DEF TxsEvolve, TxEvolves, DepositInv, MintFollowsRequest

LEMMA OneTxEvolves ==
  ASSUME DepositInv, NEW i \in DOMAIN txs,
         NEW state \in {"pending", "reverted", "mined", "approved", "rejected"},
         txs' = [txs EXCEPT ![i].state = state],
         \/ txs[i].state = "pending" /\ state \in {"mined", "reverted"}
         \/ /\ txs[i].state = "mined" /\ txs[i].kind = "request"
            /\ state \in {"approved", "rejected"}
  PROVE  /\ TxsEvolve /\ txs'[i].state = state
         /\ \A j \in DOMAIN txs : j # i => txs'[j] = txs[j]
<1> DEFINE u == [txs[i] EXCEPT !.state = state]
<1>1. i \in 1 .. Len(txs) /\ txs[i] \in Tx /\ txs \in Seq(Tx)
  BY StateTypes
<1>2. u \in Tx /\ u.kind = txs[i].kind /\ u.auth = txs[i].auth /\ u.request = txs[i].request
      /\ u.state = state
  BY <1>1 DEF Tx
<1>3. txs' = [txs EXCEPT ![i] = u]
  OBVIOUS
<1> HIDE DEF u
<1>4. /\ txs' \in Seq(Tx) /\ Len(txs') = Len(txs)
      /\ \A j \in 1 .. Len(txs) : txs'[j] = IF j = i THEN u ELSE txs[j]
  BY <1>1, <1>2, <1>3, ExceptSeq
<1>5. DOMAIN txs' = DOMAIN txs /\ DOMAIN txs = 1 .. Len(txs)
  BY <1>4, StateTypes, LenProperties
<1>6. TxEvolves(txs[i], u)
  BY <1>2 DEF TxEvolves
<1>7. \A j \in DOMAIN txs : TxEvolves(txs[j], txs[j])
  BY StateTypes DEF TxEvolves, DepositInv, MintFollowsRequest
<1> QED BY <1>1, <1>2, <1>4, <1>5, <1>6, <1>7 DEF TxsEvolve

-----------------------------------------------------------------------------
(* What every step keeps.                                                   *)

\* The body of ObservationFrozen.
FrozenAt(d) ==
  /\ StatusRank(row[d].status) <= StatusRank(row'[d].status)
  /\ row[d].status \in {"minted", "failed"} => row'[d] = row[d]
  /\ row[d].status = "mint_requested" => row'[d] = [row[d] EXCEPT !.status = row'[d].status]

Frozen == \A d \in Deposits : FrozenAt(d)

Keeps == DepositInv' /\ Frozen

LEMMA Ranks == \A s \in Statuses : StatusRank(s) \in 0 .. 4
  BY DEF Statuses, StatusRank

LEMMA SameRowFrozen ==
  ASSUME DepositInv, NEW d \in Deposits, row'[d] = row[d] PROVE FrozenAt(d)
<1>1. row[d] \in Row /\ StatusRank(row[d].status) \in Int
  BY StateTypes, Ranks
<1>2. [row[d] EXCEPT !.status = row[d].status] = row[d]
  BY <1>1 DEF Row
<1> QED BY <1>1, <1>2 DEF FrozenAt

\* The body of RowNeverAhead.
NeverAhead(d) ==
  /\ row[d].status = "mint_requested" =>
       LET i == row[d].request IN
         /\ i \in DOMAIN txs /\ txs[i].kind = "request"
         /\ txs[i].auth = AuthorizationOf(d, row[d].deadline)
         /\ txs[i].state \in {"mined", "approved", "rejected"}
  /\ row[d].status = "minted" => minted[d] = row[d].output

LEMMA NeverAheadEverywhere == RowNeverAhead <=> \A d \in Deposits : NeverAhead(d)
  BY DEF RowNeverAhead, NeverAhead

-----------------------------------------------------------------------------
(* The chains.                                                              *)

\* A step of the chains keeps the invariant when transactions only evolve, no
\* mint is undone and what is approved stays buried.
LEMMA ChainFrame ==
  ASSUME DepositInv, TxsEvolve, UNCHANGED <<row, creating, job, todo, intents>>,
         ChainsTypeOK', PlacesBelowTip', tip <= tip', ApprovedBuried', MintsApproved',
         \A d \in Deposits : minted[d] # NoOutput => minted'[d] = minted[d],
         \A i \in DOMAIN txs : txs[i].kind = "mint" /\ txs'[i].state = "mined" =>
           minted'[txs[i].auth.deposit] = txs[i].auth.output
  PROVE  Keeps
<1>1. /\ row' = row /\ creating' = creating /\ job' = job /\ todo' = todo
      /\ intents' = intents /\ DOMAIN txs' = DOMAIN txs
      /\ \A i \in DOMAIN txs : TxEvolves(txs[i], txs'[i])
  BY DEF TxsEvolve
<1>2. DepositTypeOK'
  BY <1>1 DEF DepositInv, DepositTypeOK
<1>3. Creation' /\ OutputSeen'
  BY <1>1 DEF DepositInv, Creation, OutputSeen
<1>4. job.id <= tip => job.id <= tip'
  BY <1>2, StateTypes DEF DepositTypeOK, ChainsTypeOK
<1>5. Listing'
  BY <1>1, <1>4 DEF DepositInv, Listing
<1>6. \A i \in DOMAIN txs : /\ txs'[i].kind = txs[i].kind /\ txs'[i].auth = txs[i].auth
                            /\ txs'[i].request = txs[i].request
  BY <1>1 DEF TxEvolves
<1>7. MintFollowsRequest'
  BY <1>1, <1>6 DEF DepositInv, MintFollowsRequest, TxEvolves
<1>8. \A d \in Deposits, deadline \in Nat :
        AuthorizationOf(d, deadline)' = AuthorizationOf(d, deadline)
  BY <1>1 DEF AuthorizationOf
<1>9. JobAtRow'
  <2>1. ASSUME job.at = "mint" PROVE row[job.deposit].deadline \in Nat
    BY <2>1, StateTypes DEF DepositInv, JobAtRow
  <2> QED BY <1>1, <1>6, <2>1, StateTypes DEF DepositInv, JobAtRow, AuthorizationOf
<1>10. RowNeverAhead'
  <2> SUFFICES ASSUME NEW d \in Deposits PROVE NeverAhead(d)'
    BY NeverAheadEverywhere DEF RowNeverAhead, NeverAhead
  <2>1. NeverAhead(d)
    BY NeverAheadEverywhere DEF DepositInv
  <2>2. row[d].status = "minted" => minted[d] # NoOutput
    BY <2>1, ConstantTypes DEF NeverAhead, DepositInv, OutputSeen, Seen
  <2> QED BY <1>1, <1>6, <2>1, <2>2 DEF NeverAhead, TxEvolves, AuthorizationOf
<1>11. Frozen
  BY <1>1, SameRowFrozen DEF Frozen
<1> QED BY <1>2, <1>3, <1>5, <1>7, <1>9, <1>10, <1>11 DEF Keeps, DepositInv

LEMMA SameBitcoinBuried ==
  ASSUME DepositInv, TxsEvolve, UNCHANGED <<tip, place, undone>>,
         \A i \in DOMAIN txs : txs'[i].state = "approved" => txs[i].state = "approved"
  PROVE  ApprovedBuried'
  BY DEF DepositInv, TxsEvolve, TxEvolves, ApprovedBuried, Confirmations

LEMMA SameMints ==
  ASSUME DepositInv, TxsEvolve, minted' = minted
  PROVE  MintsApproved'
<1> SUFFICES ASSUME NEW d \in Deposits, minted[d] # NoOutput
             PROVE  \E i \in DOMAIN txs' : /\ txs'[i].state = "approved"
                                           /\ txs'[i].auth.deposit = d
                                           /\ txs'[i].auth.output = minted[d]
  BY DEF MintsApproved
<1>1. PICK i \in DOMAIN txs : /\ txs[i].state = "approved"
                              /\ txs[i].auth.deposit = d /\ txs[i].auth.output = minted[d]
  BY DEF DepositInv, MintsApproved
<1>2. i \in DOMAIN txs' /\ TxEvolves(txs[i], txs'[i])
  BY DEF TxsEvolve
<1> QED BY <1>1, <1>2 DEF TxEvolves

\* A mint relies on an approved transaction for its deposit and output.
LEMMA OneMint ==
  ASSUME DepositInv, TxsEvolve, NEW i \in DOMAIN txs, txs[i].state = "approved",
         minted[txs[i].auth.deposit] = NoOutput,
         minted' = [minted EXCEPT ![txs[i].auth.deposit] = txs[i].auth.output]
  PROVE  /\ MintsApproved' /\ minted' \in [Deposits -> Outputs \cup {NoOutput}]
         /\ \A d \in Deposits : minted[d] # NoOutput => minted'[d] = minted[d]
         /\ minted'[txs[i].auth.deposit] = txs[i].auth.output
<1> DEFINE a == txs[i].auth
<1>1. /\ a.deposit \in Deposits /\ a.output \in Outputs
      /\ minted \in [Deposits -> Outputs \cup {NoOutput}]
  BY StateTypes DEF DepositInv, DepositTypeOK, ChainsTypeOK
<1>2. /\ minted' \in [Deposits -> Outputs \cup {NoOutput}] /\ minted'[a.deposit] = a.output
      /\ \A d \in Deposits : d # a.deposit => minted'[d] = minted[d]
  BY <1>1
<1>3. \A j \in DOMAIN txs : txs[j].state = "approved" =>
        j \in DOMAIN txs' /\ txs'[j].state = "approved" /\ txs'[j].auth = txs[j].auth
  BY DEF TxsEvolve, TxEvolves
<1>4. MintsApproved'
  <2> SUFFICES ASSUME NEW d \in Deposits, minted'[d] # NoOutput
               PROVE  \E j \in DOMAIN txs' : /\ txs'[j].state = "approved"
                                             /\ txs'[j].auth.deposit = d
                                             /\ txs'[j].auth.output = minted'[d]
    BY DEF MintsApproved
  <2>1. PICK j \in DOMAIN txs : /\ txs[j].state = "approved"
                                /\ txs[j].auth.deposit = d /\ txs[j].auth.output = minted'[d]
    BY <1>2 DEF DepositInv, MintsApproved
  <2> QED BY <1>3, <2>1
<1> QED BY <1>2, <1>4

LEMMA PayKeeps ==
  ASSUME DepositInv, NEW o \in Outputs, Pay(o), UNCHANGED <<row, creating, job, todo>>
  PROVE  Keeps
<1>1. /\ place[o] = -1 /\ place' = [place EXCEPT ![o] = 0]
      /\ UNCHANGED <<now, tip, undone, taken, intents, minted, txs, faults, row, creating, job, todo>>
  BY DEF Pay, Evm
<1>2. place \in [Outputs -> -1 .. MaxTip] /\ 0 \in -1 .. MaxTip /\ tip \in Nat
  BY ConstantTypes DEF DepositInv, DepositTypeOK, ChainsTypeOK
<1>3. ChainsTypeOK' /\ PlacesBelowTip'
  BY <1>1, <1>2 DEF DepositInv, DepositTypeOK, ChainsTypeOK, PlacesBelowTip
<1>4. TxsEvolve /\ tip <= tip'
  BY <1>1, <1>2, SameTxsEvolve
<1>5. \A p \in Outputs : Confirmations(p)' = Confirmations(p)
  BY <1>1, <1>2 DEF Confirmations
<1>6. ApprovedBuried'
  BY <1>1, <1>5, StateTypes DEF DepositInv, ApprovedBuried
<1>7. MintsApproved'
  BY <1>1, <1>4, SameMints
<1> QED BY <1>1, <1>3, <1>4, <1>6, <1>7, ChainFrame DEF DepositInv, MintFollowsRequest

LEMMA BitcoinBlockKeeps ==
  ASSUME DepositInv, BitcoinBlock, UNCHANGED <<row, creating, job, todo>>
  PROVE  Keeps
<1>1. /\ tip < MaxTip /\ tip' = tip + 1
      /\ UNCHANGED <<now, undone, taken, intents, minted, txs, faults, row, creating, job, todo>>
  BY DEF BitcoinBlock, Evm
<1>2. PICK included \in SUBSET {o \in Outputs : place[o] = 0} :
        place' = [o \in Outputs |-> IF o \in included THEN tip' ELSE place[o]]
  BY DEF BitcoinBlock
<1>3. /\ place \in [Outputs -> -1 .. MaxTip] /\ tip \in 0 .. MaxTip
      /\ \A o \in Outputs : place[o] <= tip
  BY DEF DepositInv, DepositTypeOK, ChainsTypeOK, PlacesBelowTip
<1>4. tip' \in 0 .. MaxTip /\ tip <= tip'
  BY <1>1, <1>3, ConstantTypes
<1>5. \A o \in Outputs : place'[o] \in -1 .. MaxTip /\ place'[o] <= tip'
  BY <1>1, <1>2, <1>3, <1>4, ConstantTypes
<1>6. ChainsTypeOK' /\ PlacesBelowTip'
  BY <1>1, <1>2, <1>4, <1>5 DEF DepositInv, DepositTypeOK, ChainsTypeOK, PlacesBelowTip
<1>7. TxsEvolve
  BY <1>1, SameTxsEvolve
<1>8. \A o \in Outputs : Confirmations(o) >= MinConfirmations =>
                           Confirmations(o)' >= MinConfirmations
  <2> TAKE o \in Outputs
  <2> HAVE Confirmations(o) >= MinConfirmations
  <2>1. place[o] > 0 /\ tip - place[o] + 1 >= MinConfirmations
    BY <1>3, ConstantTypes DEF Confirmations
  <2>2. place'[o] = place[o]
    BY <1>2, <2>1
  <2> QED BY <1>1, <1>3, <2>1, <2>2, ConstantTypes DEF Confirmations
<1>9. ApprovedBuried'
  BY <1>1, <1>8, StateTypes DEF DepositInv, ApprovedBuried
<1>10. MintsApproved'
  BY <1>1, <1>7, SameMints
<1> QED BY <1>1, <1>4, <1>6, <1>7, <1>9, <1>10, ChainFrame DEF DepositInv, MintFollowsRequest

LEMMA ReorgKeeps ==
  ASSUME DepositInv, NEW o \in Outputs, ReorgOutput(o), UNCHANGED <<row, creating, job, todo>>
  PROVE  Keeps
<1>1. /\ faults < MaxFaults /\ faults' = faults + 1
      /\ undone' = IF \E i \in DOMAIN txs : /\ txs[i].state = "approved"
                                            /\ txs[i].auth.output = o
                   THEN undone \cup {o} ELSE undone
      /\ UNCHANGED <<now, tip, taken, intents, minted, txs, row, creating, job, todo>>
  BY DEF ReorgOutput, Evm, Fault
<1>2. PICK p \in {-1, 0} : place' = [place EXCEPT ![o] = p]
  BY DEF ReorgOutput
<1>3. /\ place \in [Outputs -> -1 .. MaxTip] /\ tip \in 0 .. MaxTip /\ faults \in 0 .. MaxFaults
      /\ \A q \in Outputs : place[q] <= tip
  BY DEF DepositInv, DepositTypeOK, ChainsTypeOK, PlacesBelowTip
<1>4. p \in -1 .. MaxTip /\ p <= tip /\ faults' \in 0 .. MaxFaults /\ tip <= tip'
  BY <1>1, <1>3, ConstantTypes
<1>5. undone' \subseteq Outputs /\ undone \subseteq undone'
  BY <1>1 DEF DepositInv, DepositTypeOK, ChainsTypeOK
<1>6. ChainsTypeOK' /\ PlacesBelowTip'
  BY <1>1, <1>2, <1>3, <1>4, <1>5 DEF DepositInv, DepositTypeOK, ChainsTypeOK, PlacesBelowTip
<1>7. TxsEvolve
  BY <1>1, SameTxsEvolve
<1>8. \A q \in Outputs : q # o => Confirmations(q)' = Confirmations(q)
  BY <1>1, <1>2, <1>3 DEF Confirmations
<1>9. ApprovedBuried'
  <2> SUFFICES ASSUME NEW i \in DOMAIN txs, txs[i].state = "approved"
               PROVE  /\ PaysTo[txs[i].auth.output] = txs[i].auth.deposit
                      /\ \/ txs[i].auth.output \in undone'
                         \/ Confirmations(txs[i].auth.output)' >= MinConfirmations
    BY <1>1 DEF ApprovedBuried, Confirmations
  <2>1. /\ txs[i].auth.output \in Outputs /\ PaysTo[txs[i].auth.output] = txs[i].auth.deposit
        /\ \/ txs[i].auth.output \in undone
           \/ Confirmations(txs[i].auth.output) >= MinConfirmations
    BY StateTypes DEF DepositInv, ApprovedBuried
  <2>2. CASE txs[i].auth.output = o
    BY <1>1, <2>1, <2>2
  <2>3. CASE txs[i].auth.output # o
    <3>1. Confirmations(txs[i].auth.output)' = Confirmations(txs[i].auth.output)
      BY <1>1, <1>8, <2>1, <2>3
    <3> QED BY <1>5, <2>1, <3>1
  <2> QED BY <2>2, <2>3
<1>10. MintsApproved'
  BY <1>1, <1>7, SameMints
<1> QED BY <1>1, <1>4, <1>6, <1>7, <1>9, <1>10, ChainFrame DEF DepositInv, MintFollowsRequest

\* What the releases do with an output moves neither the chains nor a row.
LEMMA ReleaseKeeps ==
  ASSUME DepositInv, NEW o \in Outputs, Take(o) \/ GiveBack(o),
         UNCHANGED <<row, creating, job, todo>>
  PROVE  Keeps
<1>1. /\ UNCHANGED <<now, tip, place, undone, intents, minted, txs, row, creating, job, todo>>
      /\ taken' \subseteq Outputs
  BY DEF Take, GiveBack, Evm, DepositInv, DepositTypeOK, ChainsTypeOK
<1>2. faults' \in 0 .. MaxFaults
  BY ConstantTypes DEF Take, GiveBack, Fault, DepositInv, DepositTypeOK, ChainsTypeOK
<1>3. ChainsTypeOK' /\ PlacesBelowTip' /\ tip <= tip'
  BY <1>1, <1>2, StateTypes DEF DepositInv, DepositTypeOK, ChainsTypeOK, PlacesBelowTip
<1>4. TxsEvolve
  BY <1>1, SameTxsEvolve
<1>5. ApprovedBuried' /\ MintsApproved'
  BY <1>1, <1>4, SameBitcoinBuried, SameMints
<1> QED BY <1>1, <1>3, <1>4, <1>5, ChainFrame DEF DepositInv, MintFollowsRequest

LEMMA WaitKeeps ==
  ASSUME DepositInv, Wait, UNCHANGED <<row, creating, job, todo>>
  PROVE  Keeps
<1>1. /\ UNCHANGED <<tip, place, undone, taken, intents, minted, txs, faults, row, creating, job, todo>>
      /\ now' \in 0 .. MaxTime
  BY ConstantTypes DEF Wait, Bitcoin, Evm, Tick, DepositInv, DepositTypeOK, ChainsTypeOK
<1>2. ChainsTypeOK' /\ PlacesBelowTip' /\ tip <= tip'
  BY <1>1 DEF DepositInv, DepositTypeOK, ChainsTypeOK, PlacesBelowTip
<1>3. TxsEvolve
  BY <1>1, SameTxsEvolve
<1>4. ApprovedBuried' /\ MintsApproved'
  BY <1>1, <1>3, SameBitcoinBuried, SameMints
<1> QED BY <1>1, <1>2, <1>3, <1>4, ChainFrame DEF DepositInv, MintFollowsRequest

\* What is mined for the worker: a request in time, a mint that is mintable, and
\* otherwise a revert.
LEMMA MineKeeps ==
  ASSUME DepositInv, NEW i \in DOMAIN txs, Mine(i), UNCHANGED <<row, creating, job, todo>>
  PROVE  Keeps
<1>1. /\ txs[i].state = "pending"
      /\ UNCHANGED <<now, tip, place, undone, taken, intents, faults, row, creating, job, todo>>
  BY DEF Mine, Bitcoin
<1>2. PICK state \in {"mined", "reverted"} : txs' = [txs EXCEPT ![i].state = state]
  BY DEF Mine
<1>3. /\ TxsEvolve /\ txs'[i].state = state
      /\ \A j \in DOMAIN txs : j # i => txs'[j] = txs[j]
  BY <1>1, <1>2, OneTxEvolves
<1>4. \A j \in DOMAIN txs : txs'[j].state = "approved" => txs[j].state = "approved"
  BY <1>3
<1>5. ApprovedBuried'
  BY <1>1, <1>3, <1>4, SameBitcoinBuried
<1>6. tip <= tip' /\ txs' \in Seq(Tx) /\ PlacesBelowTip'
  BY <1>1, <1>3, StateTypes DEF TxsEvolve, DepositInv, PlacesBelowTip
<1>7. \/ minted' = minted /\ (txs[i].kind = "mint" => state # "mined")
      \/ /\ txs[i].kind = "mint" /\ Mintable(txs[i].auth, txs[i].request)
         /\ minted' = [minted EXCEPT ![txs[i].auth.deposit] = txs[i].auth.output]
  <2>1. \/ txs[i].kind = "request" /\ minted' = minted
        \/ /\ txs[i].kind = "mint" /\ Mintable(txs[i].auth, txs[i].request)
           /\ minted' = [minted EXCEPT ![txs[i].auth.deposit] = txs[i].auth.output]
        \/ txs' = [txs EXCEPT ![i].state = "reverted"] /\ minted' = minted
    BY DEF Mine
  <2>2. txs' = [txs EXCEPT ![i].state = "reverted"] => txs'[i].state = "reverted"
    BY <1>1, OneTxEvolves
  <2> QED BY <1>3, <2>1, <2>2
<1>8. CASE minted' = minted /\ (txs[i].kind = "mint" => state # "mined")
  <2>1. ChainsTypeOK'
    BY <1>1, <1>6, <1>8 DEF DepositInv, DepositTypeOK, ChainsTypeOK
  <2>2. MintsApproved'
    BY <1>3, <1>8, SameMints
  <2>3. \A j \in DOMAIN txs : txs[j].kind = "mint" /\ txs'[j].state = "mined" =>
          minted'[txs[j].auth.deposit] = txs[j].auth.output
    BY <1>3, <1>8 DEF DepositInv, MintFollowsRequest
  <2> QED BY <1>1, <1>3, <1>5, <1>6, <1>8, <2>1, <2>2, <2>3, ChainFrame
<1>9. CASE /\ txs[i].kind = "mint" /\ Mintable(txs[i].auth, txs[i].request)
           /\ minted' = [minted EXCEPT ![txs[i].auth.deposit] = txs[i].auth.output]
  <2>1. PICK r \in DOMAIN txs : r = txs[i].request
    BY <1>9 DEF DepositInv, MintFollowsRequest
  <2>2. /\ txs[r].state = "approved" /\ txs[r].auth = txs[i].auth
        /\ minted[txs[r].auth.deposit] = NoOutput
    BY <1>9, <2>1 DEF DepositInv, MintFollowsRequest, Mintable
  <2>3. minted' = [minted EXCEPT ![txs[r].auth.deposit] = txs[r].auth.output]
    BY <1>9, <2>2
  <2>4. /\ MintsApproved' /\ minted' \in [Deposits -> Outputs \cup {NoOutput}]
        /\ \A d \in Deposits : minted[d] # NoOutput => minted'[d] = minted[d]
        /\ minted'[txs[r].auth.deposit] = txs[r].auth.output
    BY <1>3, <2>2, <2>3, OneMint
  <2>5. ChainsTypeOK'
    BY <1>1, <1>6, <2>4 DEF DepositInv, DepositTypeOK, ChainsTypeOK
  <2>6. \A j \in DOMAIN txs : txs[j].kind = "mint" /\ txs'[j].state = "mined" =>
          minted'[txs[j].auth.deposit] = txs[j].auth.output
    <3> SUFFICES ASSUME NEW j \in DOMAIN txs, txs[j].kind = "mint", txs'[j].state = "mined",
                        j # i
                 PROVE  minted'[txs[j].auth.deposit] = txs[j].auth.output
      BY <2>2, <2>4
    <3>1. /\ minted[txs[j].auth.deposit] = txs[j].auth.output
          /\ txs[j].auth.deposit \in Deposits /\ txs[j].auth.output # NoOutput
      BY <1>3, StateTypes, ConstantTypes DEF DepositInv, MintFollowsRequest
    <3> QED BY <2>4, <3>1
  <2> QED BY <1>1, <1>3, <1>5, <1>6, <2>4, <2>5, <2>6, ChainFrame
<1> QED BY <1>7, <1>8, <1>9

LEMMA MintElsewhereKeeps ==
  ASSUME DepositInv, NEW i \in DOMAIN txs, MintElsewhere(i),
         UNCHANGED <<row, creating, job, todo>>
  PROVE  Keeps
<1>1. /\ txs[i].state = "approved" /\ minted[txs[i].auth.deposit] = NoOutput
      /\ minted' = [minted EXCEPT ![txs[i].auth.deposit] = txs[i].auth.output]
      /\ UNCHANGED <<now, tip, place, undone, taken, intents, txs, faults, row, creating, job, todo>>
  BY DEF MintElsewhere, Mintable, Bitcoin
<1>2. TxsEvolve
  BY <1>1, SameTxsEvolve
<1>3. /\ MintsApproved' /\ minted' \in [Deposits -> Outputs \cup {NoOutput}]
      /\ \A d \in Deposits : minted[d] # NoOutput => minted'[d] = minted[d]
  BY <1>1, <1>2, OneMint
<1>4. ChainsTypeOK' /\ PlacesBelowTip' /\ tip <= tip'
  BY <1>1, <1>3, StateTypes DEF DepositInv, DepositTypeOK, ChainsTypeOK, PlacesBelowTip
<1>5. ApprovedBuried'
  BY <1>1, <1>2, SameBitcoinBuried
<1>6. \A j \in DOMAIN txs : txs[j].kind = "mint" /\ txs'[j].state = "mined" =>
        minted'[txs[j].auth.deposit] = txs[j].auth.output
  <2> SUFFICES ASSUME NEW j \in DOMAIN txs, txs[j].kind = "mint", txs[j].state = "mined"
               PROVE  minted'[txs[j].auth.deposit] = txs[j].auth.output
    BY <1>1
  <2>1. /\ minted[txs[j].auth.deposit] = txs[j].auth.output
        /\ txs[j].auth.deposit \in Deposits /\ txs[j].auth.output # NoOutput
    BY StateTypes, ConstantTypes DEF DepositInv, MintFollowsRequest
  <2> QED BY <1>3, <2>1
<1> QED BY <1>1, <1>2, <1>3, <1>4, <1>5, <1>6, ChainFrame

\* The DON approves only what is buried when it looks.
LEMMA AnswerKeeps ==
  ASSUME DepositInv, NEW i \in DOMAIN txs, Answer(i), UNCHANGED <<row, creating, job, todo>>
  PROVE  Keeps
<1>1. /\ txs[i].kind = "request" /\ txs[i].state = "mined"
      /\ UNCHANGED <<now, tip, place, undone, taken, intents, minted, row, creating, job, todo>>
      /\ faults' = faults \/ (faults < MaxFaults /\ faults' = faults + 1)
  BY DEF Answer, Bitcoin, Fault
<1>2. PICK state \in {"approved", "rejected"} :
        /\ txs' = [txs EXCEPT ![i].state = state]
        /\ state = "approved" => Endorses(txs[i].auth)
  BY DEF Answer
<1>3. /\ TxsEvolve /\ txs'[i].state = state
      /\ \A j \in DOMAIN txs : j # i => txs'[j] = txs[j]
  BY <1>1, <1>2, OneTxEvolves
<1>4. faults' \in 0 .. MaxFaults
  BY <1>1, ConstantTypes DEF DepositInv, DepositTypeOK, ChainsTypeOK
<1>5. ChainsTypeOK' /\ PlacesBelowTip' /\ tip <= tip'
  BY <1>1, <1>3, <1>4, StateTypes
  DEF TxsEvolve, DepositInv, DepositTypeOK, ChainsTypeOK, PlacesBelowTip
<1>6. \A o \in Outputs : Confirmations(o)' = Confirmations(o)
  BY <1>1 DEF Confirmations
<1>7. ApprovedBuried'
  <2> DEFINE Deep(a) == /\ PaysTo[a.output] = a.deposit
                        /\ a.output \in undone \/ Confirmations(a.output) >= MinConfirmations
  <2>1. ASSUME NEW j \in DOMAIN txs, txs'[j].state = "approved" PROVE Deep(txs[j].auth)
    <3>1. CASE j = i
      BY <1>2, <1>3, <2>1, <3>1 DEF Endorses
    <3>2. CASE j # i
      BY <1>3, <2>1, <3>2 DEF DepositInv, ApprovedBuried
    <3> QED BY <3>1, <3>2
  <2>2. \A j \in DOMAIN txs : txs'[j].auth = txs[j].auth /\ txs[j].auth.output \in Outputs
    BY <1>3, StateTypes DEF TxsEvolve, TxEvolves
  <2> QED BY <1>1, <1>3, <2>1, <2>2 DEF TxsEvolve, ApprovedBuried, Confirmations
<1>8. MintsApproved'
  BY <1>1, <1>3, SameMints
<1>9. \A j \in DOMAIN txs : txs[j].kind = "mint" /\ txs'[j].state = "mined" =>
        minted'[txs[j].auth.deposit] = txs[j].auth.output
  BY <1>1, <1>2, <1>3 DEF DepositInv, MintFollowsRequest
<1> QED BY <1>1, <1>3, <1>5, <1>7, <1>8, <1>9, ChainFrame

LEMMA ChainStepKeeps == ASSUME DepositInv, ChainStep PROVE Keeps
  BY PayKeeps, ReorgKeeps, ReleaseKeeps, BitcoinBlockKeeps, WaitKeeps, MineKeeps, MintElsewhereKeeps,
     AnswerKeeps DEF ChainStep

-----------------------------------------------------------------------------
(* Steps of the API and of the worker that touch no row.                    *)

LEMMA SameRowsKeep ==
  ASSUME DepositInv, UNCHANGED <<now, tip, place, undone, taken, minted, txs, row>>,
         intents \subseteq intents', intents' \subseteq Deposits,
         faults' \in 0 .. MaxFaults, creating' \subseteq intents',
         \A d \in creating' : row[d].status = "absent",
         job' \in Job, todo' \subseteq Deposits, Listing', JobAtRow'
  PROVE  Keeps
<1>1. /\ now' = now /\ tip' = tip /\ place' = place /\ undone' = undone /\ taken' = taken
      /\ minted' = minted
      /\ txs' = txs /\ row' = row
  OBVIOUS
<1>2. DepositTypeOK'
  BY <1>1 DEF DepositInv, DepositTypeOK, ChainsTypeOK
<1>3. Creation'
  BY <1>1 DEF DepositInv, Creation
<1>4. PlacesBelowTip' /\ OutputSeen' /\ MintFollowsRequest'
  BY <1>1 DEF DepositInv, PlacesBelowTip, OutputSeen, MintFollowsRequest
<1>5. ApprovedBuried' /\ MintsApproved'
  BY <1>1 DEF DepositInv, ApprovedBuried, MintsApproved, Confirmations
<1>6. RowNeverAhead'
  BY <1>1 DEF DepositInv, RowNeverAhead, AuthorizationOf
<1>7. Frozen
  BY <1>1, SameRowFrozen DEF Frozen
<1> QED BY <1>2, <1>3, <1>4, <1>5, <1>6, <1>7 DEF Keeps, DepositInv

LEMMA FaultTypes == ASSUME DepositInv, Fault PROVE faults' \in 0 .. MaxFaults
  BY ConstantTypes DEF Fault, DepositInv, DepositTypeOK, ChainsTypeOK

LEMMA IdleType == Idle \in Job /\ Idle.at = "idle" /\ Idle.id = 0
  BY DEF Idle, Job

\* The call in flight and the listing survive what leaves them and the rows alone.
LEMMA SameJob ==
  ASSUME DepositInv, UNCHANGED <<tip, txs, row, job, todo>>
  PROVE  job' \in Job /\ todo' \subseteq Deposits /\ Listing' /\ JobAtRow'
<1>1. Listing' /\ JobAtRow'
  BY DEF DepositInv, Listing, JobAtRow, AuthorizationOf
<1> QED BY <1>1 DEF DepositInv, DepositTypeOK

\* Nothing in flight: no listing, no row to stand at.
LEMMA RestsIdle ==
  ASSUME DepositInv, Rest, todo' = {}
  PROVE  job' \in Job /\ todo' \subseteq Deposits /\ Listing' /\ JobAtRow'
  BY IdleType DEF Rest, Listing, JobAtRow

LEMMA CreateBeginsKeeps ==
  ASSUME DepositInv, NEW d \in Deposits, CreateBegins(d) PROVE Keeps
<1>1. /\ d \notin intents /\ intents' = intents \cup {d} /\ creating' = creating \cup {d}
      /\ UNCHANGED <<now, tip, place, undone, taken, minted, txs, faults, row, job, todo>>
  BY DEF CreateBegins, OnlyApi, Bitcoin
<1>2. /\ intents \subseteq Deposits /\ creating \subseteq intents /\ faults \in 0 .. MaxFaults
      /\ \A e \in creating : row[e].status = "absent"
      /\ row[d].status = "absent"
  BY <1>1 DEF DepositInv, DepositTypeOK, ChainsTypeOK, Creation
<1>3. job' \in Job /\ todo' \subseteq Deposits /\ Listing' /\ JobAtRow'
  BY <1>1, SameJob
<1> QED BY <1>1, <1>2, <1>3, SameRowsKeep

LEMMA CreateLostKeeps ==
  ASSUME DepositInv, NEW d \in Deposits, CreateLost(d) PROVE Keeps
<1>1. /\ creating' = creating \ {d} /\ Fault
      /\ UNCHANGED <<now, tip, place, undone, taken, intents, minted, txs, row, job, todo>>
  BY DEF CreateLost, OnlyApi, Bitcoin
<1>2. /\ intents \subseteq Deposits /\ creating \subseteq intents /\ faults' \in 0 .. MaxFaults
      /\ \A e \in creating : row[e].status = "absent"
  BY <1>1, FaultTypes DEF DepositInv, DepositTypeOK, ChainsTypeOK, Creation
<1>3. job' \in Job /\ todo' \subseteq Deposits /\ Listing' /\ JobAtRow'
  BY <1>1, SameJob
<1> QED BY <1>1, <1>2, <1>3, SameRowsKeep

\* What a step of the worker that touches neither rows nor chains keeps.
LEMMA OnlyJobKeeps ==
  ASSUME DepositInv, UNCHANGED <<now, tip, place, undone, taken, intents, minted, txs, row, creating>>,
         faults' \in 0 .. MaxFaults,
         job' \in Job, todo' \subseteq Deposits, Listing', JobAtRow'
  PROVE  Keeps
<1>1. /\ intents \subseteq Deposits /\ creating \subseteq intents
      /\ \A e \in creating : row[e].status = "absent"
  BY DEF DepositInv, DepositTypeOK, ChainsTypeOK, Creation
<1> QED BY <1>1, SameRowsKeep

LEMMA ObserveBeginsKeeps == ASSUME DepositInv, ObserveBegins PROVE Keeps
<1>1. /\ todo' = Observable /\ job' = [Idle EXCEPT !.at = "observe", !.id = tip]
      /\ UNCHANGED <<now, tip, place, undone, taken, intents, minted, txs, faults, row, creating>>
  BY DEF ObserveBegins, chainVars
<1>2. tip \in Nat /\ faults' \in 0 .. MaxFaults
  BY <1>1, ConstantTypes DEF DepositInv, DepositTypeOK, ChainsTypeOK
<1>3. job' = [at |-> "observe", deposit |-> "none", id |-> tip, deadline |-> 0]
  BY <1>1 DEF Idle
<1>4. job' \in Job /\ job'.at = "observe" /\ job'.id = tip
  BY <1>2, <1>3 DEF Job
<1>5. todo' \subseteq Deposits /\ Listing' /\ JobAtRow'
  BY <1>1, <1>2, <1>4 DEF Listing, JobAtRow, Observable
<1> QED BY <1>1, <1>2, <1>4, <1>5, OnlyJobKeeps

\* The rest of the listing after one deposit was looked at.
LEMMA LookedOn ==
  ASSUME DepositInv, NEW d \in todo, job.at = "observe", Looked(d), tip' = tip,
         \A e \in Deposits : e # d => row'[e] = row[e]
  PROVE  job' \in Job /\ todo' \subseteq Deposits /\ Listing' /\ JobAtRow'
<1>1. todo' = todo \ {d} /\ todo \subseteq Deposits /\ job \in Job /\ job.id <= tip
  BY DEF Looked, DepositInv, DepositTypeOK, Listing
<1>2. \A e \in todo' : row'[e].status \in {"intent_created", "btc_observed"}
  BY <1>1 DEF DepositInv, Listing
<1>3. job' = job \/ (job' = Idle /\ todo' = {})
  BY DEF Looked, Rest
<1>4. CASE job' = job
  BY <1>1, <1>2, <1>4 DEF Listing, JobAtRow
<1>5. CASE job' = Idle /\ todo' = {}
  BY <1>1, <1>5, IdleType DEF Listing, JobAtRow
<1> QED BY <1>3, <1>4, <1>5

LEMMA ObserveFailsKeeps ==
  ASSUME DepositInv, NEW d \in Deposits, ObserveFails(d) PROVE Keeps
<1>1. /\ job.at = "observe" /\ d \in todo /\ Fault /\ Looked(d)
      /\ UNCHANGED <<now, tip, place, undone, taken, intents, minted, txs, row, creating>>
  BY DEF ObserveFails, Bitcoin, Evm
<1>2. job' \in Job /\ todo' \subseteq Deposits /\ Listing' /\ JobAtRow'
  BY <1>1, LookedOn
<1> QED BY <1>1, <1>2, FaultTypes, OnlyJobKeeps

LEMMA FailsKeeps == ASSUME DepositInv, RequestFails \/ MintFails PROVE Keeps
<1>1. /\ job.at \in {"request", "mint"} /\ Rest
      /\ UNCHANGED <<now, tip, place, undone, taken, intents, minted, txs, faults, row, creating, todo>>
  BY DEF RequestFails, MintFails, OnlyRow, chainVars
<1>2. todo' = {} /\ faults' \in 0 .. MaxFaults
  BY <1>1 DEF DepositInv, Listing, DepositTypeOK, ChainsTypeOK
<1>3. job' \in Job /\ todo' \subseteq Deposits /\ Listing' /\ JobAtRow'
  BY <1>1, <1>2, RestsIdle
<1> QED BY <1>1, <1>2, <1>3, OnlyJobKeeps

LEMMA InterruptKeeps == ASSUME DepositInv, Interrupt PROVE Keeps
<1>1. /\ Fault /\ Rest /\ todo' = {}
      /\ UNCHANGED <<now, tip, place, undone, taken, intents, minted, txs, row, creating>>
  BY DEF Interrupt, Bitcoin, Evm
<1>2. job' \in Job /\ todo' \subseteq Deposits /\ Listing' /\ JobAtRow'
  BY <1>1, RestsIdle
<1> QED BY <1>1, <1>2, FaultTypes, OnlyJobKeeps

-----------------------------------------------------------------------------
(* Steps that send a transaction.                                           *)

LEMMA SendKeeps ==
  ASSUME DepositInv, NEW t \in Tx, t.state = "pending", txs' = Append(txs, t),
         t.kind = "mint" => /\ t.request \in DOMAIN txs /\ txs[t.request].kind = "request"
                            /\ txs[t.request].auth = t.auth,
         UNCHANGED <<now, tip, place, undone, taken, intents, minted, faults, row, creating, todo>>,
         job' \in Job, job'.at \in {"request", "mint"}, todo = {}, JobAtRow'
  PROVE  Keeps
<1>1. /\ now' = now /\ tip' = tip /\ place' = place /\ undone' = undone /\ taken' = taken
      /\ minted' = minted
      /\ intents' = intents /\ faults' = faults /\ row' = row /\ creating' = creating
      /\ todo' = {}
  OBVIOUS
<1>2. txs \in Seq(Tx) /\ Len(txs) \in Nat /\ DOMAIN txs = 1 .. Len(txs)
  BY StateTypes
<1>3. /\ txs' \in Seq(Tx) /\ Len(txs') = Len(txs) + 1 /\ txs'[Len(txs) + 1] = t
      /\ \A i \in 1 .. Len(txs) : txs'[i] = txs[i]
  BY <1>2, AppendProperties
<1>4. DOMAIN txs' = 1 .. Len(txs) + 1
  BY <1>3, LenProperties
<1>5. \A i \in DOMAIN txs : i \in DOMAIN txs' /\ txs'[i] = txs[i]
  BY <1>2, <1>3, <1>4
<1>6. \A i \in DOMAIN txs' : i \in DOMAIN txs \/ txs'[i] = t
  BY <1>2, <1>3, <1>4
<1>7. DepositTypeOK'
  BY <1>1, <1>3 DEF DepositInv, DepositTypeOK, ChainsTypeOK
<1>8. Creation' /\ PlacesBelowTip' /\ OutputSeen'
  BY <1>1 DEF DepositInv, Creation, PlacesBelowTip, OutputSeen
<1>9. Listing'
  BY <1>1 DEF Listing
<1>10. MintFollowsRequest'
  <2> SUFFICES ASSUME NEW i \in DOMAIN txs'
               PROVE  /\ txs'[i].state \in {"approved", "rejected"} => txs'[i].kind = "request"
                      /\ txs'[i].kind = "mint" =>
                           /\ txs'[i].request \in DOMAIN txs'
                           /\ txs'[txs'[i].request].kind = "request"
                           /\ txs'[txs'[i].request].auth = txs'[i].auth
                      /\ txs'[i].kind = "mint" /\ txs'[i].state = "mined" =>
                           minted[txs'[i].auth.deposit] = txs'[i].auth.output
    BY <1>1 DEF MintFollowsRequest
  <2>1. CASE i \in DOMAIN txs
    BY <1>5, <2>1 DEF DepositInv, MintFollowsRequest
  <2>2. CASE txs'[i] = t
    BY <1>5, <2>2
  <2> QED BY <1>6, <2>1, <2>2
<1>11. ApprovedBuried'
  BY <1>1, <1>5, <1>6 DEF DepositInv, ApprovedBuried, Confirmations
<1>12. MintsApproved'
  BY <1>1, <1>5 DEF DepositInv, MintsApproved
<1>13. RowNeverAhead'
  BY <1>1, <1>5 DEF DepositInv, RowNeverAhead, AuthorizationOf
<1>14. Frozen
  BY <1>1, SameRowFrozen DEF Frozen
<1> QED BY <1>7, <1>8, <1>9, <1>10, <1>11, <1>12, <1>13, <1>14 DEF Keeps, DepositInv

LEMMA AuthorizationType ==
  ASSUME DepositInv, NEW d \in Deposits, row[d].status \in Seen, NEW deadline \in Nat
  PROVE  AuthorizationOf(d, deadline) \in Authorization
  BY StateTypes DEF AuthorizationOf, Authorization, DepositInv, OutputSeen

LEMMA RequestBeginsKeeps ==
  ASSUME DepositInv, NEW d \in Deposits, RequestBegins(d) PROVE Keeps
<1> DEFINE deadline == now + AuthorizationTtl
           auth == AuthorizationOf(d, deadline)
           t == [kind |-> "request", auth |-> auth, request |-> 0, state |-> "pending"]
<1>1. /\ job = Idle /\ row[d].status = "btc_observed"
      /\ txs' = Append(txs, t)
      /\ job' = [at |-> "request", deposit |-> d, id |-> Len(txs'), deadline |-> deadline]
      /\ UNCHANGED <<now, tip, place, undone, taken, intents, minted, faults, row, creating, todo>>
  BY DEF RequestBegins, RequestEligible, Send, OnlySent, Bitcoin
<1>2. deadline \in Nat
  BY StateTypes, ConstantTypes
<1> HIDE DEF deadline
<1>3. auth \in Authorization
  BY <1>1, <1>2, AuthorizationType DEF Seen
<1>4. t \in Tx /\ t.state = "pending" /\ t.kind = "request" /\ t.auth = auth
  BY <1>3 DEF Tx
<1> HIDE DEF t
<1>5. /\ txs' \in Seq(Tx) /\ Len(txs') = Len(txs) + 1 /\ txs'[Len(txs')] = t /\ Len(txs') \in Nat
  BY <1>1, <1>4, StateTypes, AppendProperties
<1>6. Len(txs') \in DOMAIN txs'
  BY <1>5, StateTypes, LenProperties
<1>7. /\ job' \in Job /\ job'.at = "request" /\ job'.deposit = d /\ job'.id = Len(txs')
      /\ job'.deadline = deadline
  BY <1>1, <1>2, <1>5 DEF Job
<1>8. AuthorizationOf(d, deadline)' = auth
  BY <1>1 DEF AuthorizationOf, deadline
<1>9. JobAtRow'
  BY <1>1, <1>4, <1>5, <1>6, <1>7 DEF JobAtRow, AuthorizationOf
<1>10. todo = {}
  BY <1>1, IdleType DEF DepositInv, Listing
<1> QED BY <1>1, <1>4, <1>7, <1>9, <1>10, SendKeeps

LEMMA MintBeginsKeeps ==
  ASSUME DepositInv, NEW d \in Deposits, MintBegins(d) PROVE Keeps
<1> DEFINE auth == AuthorizationOf(d, row[d].deadline)
           t == [kind |-> "mint", auth |-> auth, request |-> row[d].request,
                 state |-> "pending"]
<1>1. /\ job = Idle /\ row[d].status = "mint_requested"
      /\ txs' = Append(txs, t)
      /\ job' = [at |-> "mint", deposit |-> d, id |-> Len(txs'), deadline |-> 0]
      /\ UNCHANGED <<now, tip, place, undone, taken, intents, minted, faults, row, creating, todo>>
  BY DEF MintBegins, Requested, Send, OnlySent, Bitcoin
<1>2. /\ row[d].request \in DOMAIN txs /\ txs[row[d].request].kind = "request"
      /\ txs[row[d].request].auth = auth
  BY <1>1 DEF DepositInv, RowNeverAhead
<1>3. auth \in Authorization /\ row[d].request \in Nat
  BY <1>1, AuthorizationType, StateTypes DEF Seen
<1>4. /\ t \in Tx /\ t.state = "pending" /\ t.kind = "mint" /\ t.auth = auth
      /\ t.request = row[d].request
  BY <1>3 DEF Tx
<1> HIDE DEF t
<1>5. /\ txs' \in Seq(Tx) /\ Len(txs') = Len(txs) + 1 /\ txs'[Len(txs')] = t /\ Len(txs') \in Nat
  BY <1>1, <1>4, StateTypes, AppendProperties
<1>6. Len(txs') \in DOMAIN txs'
  BY <1>5, StateTypes, LenProperties
<1>7. job' \in Job /\ job'.at = "mint" /\ job'.deposit = d /\ job'.id = Len(txs')
  BY <1>1, <1>5 DEF Job
<1>8. JobAtRow'
  BY <1>1, <1>4, <1>5, <1>6, <1>7 DEF JobAtRow, AuthorizationOf
<1>9. todo = {}
  BY <1>1, IdleType DEF DepositInv, Listing
<1> QED BY <1>1, <1>2, <1>4, <1>7, <1>8, <1>9, SendKeeps

-----------------------------------------------------------------------------
(* Steps that write one row.                                                *)

\* A step that writes the row of d alone keeps the invariant when the new row is
\* forward of the old one and not ahead of the chain.
LEMMA RowStepKeeps ==
  ASSUME DepositInv, NEW d \in Deposits, NEW q \in Row, row' = [row EXCEPT ![d] = q],
         UNCHANGED <<now, tip, place, undone, taken, intents, minted, txs, faults>>,
         d \in intents, creating' = creating \ {d},
         q.status \in Seen => q.output \in Outputs,
         job' \in Job, todo' \subseteq Deposits, Listing', JobAtRow',
         NeverAhead(d)', FrozenAt(d)
  PROVE  Keeps
<1>1. /\ now' = now /\ tip' = tip /\ place' = place /\ undone' = undone /\ taken' = taken
      /\ minted' = minted
      /\ txs' = txs /\ intents' = intents /\ faults' = faults
  OBVIOUS
<1>2. /\ row' \in Rows /\ row'[d] = q
      /\ \A e \in Deposits : e # d => row'[e] = row[e]
  BY StateTypes DEF Rows
<1>3. creating' \subseteq Deposits
  BY DEF DepositInv, DepositTypeOK
<1>4. DepositTypeOK'
  BY <1>1, <1>2, <1>3 DEF DepositInv, DepositTypeOK, ChainsTypeOK, Rows
<1>5. Creation'
  BY <1>1, <1>2 DEF DepositInv, Creation
<1>6. OutputSeen'
  BY <1>2 DEF DepositInv, OutputSeen
<1>7. PlacesBelowTip' /\ MintFollowsRequest'
  BY <1>1 DEF DepositInv, PlacesBelowTip, MintFollowsRequest
<1>8. ApprovedBuried' /\ MintsApproved'
  BY <1>1 DEF DepositInv, ApprovedBuried, MintsApproved, Confirmations
<1>9. RowNeverAhead'
  <2> SUFFICES ASSUME NEW e \in Deposits PROVE NeverAhead(e)'
    BY NeverAheadEverywhere DEF RowNeverAhead, NeverAhead
  <2>1. CASE e = d
    BY <2>1
  <2>2. CASE e # d
    BY <1>1, <1>2, <2>2, NeverAheadEverywhere DEF DepositInv, NeverAhead, AuthorizationOf
  <2> QED BY <2>1, <2>2
<1>10. Frozen
  <2> SUFFICES ASSUME NEW e \in Deposits PROVE FrozenAt(e)
    BY DEF Frozen
  <2> QED BY <1>2, SameRowFrozen
<1> QED BY <1>4, <1>5, <1>6, <1>7, <1>8, <1>9, <1>10 DEF Keeps, DepositInv

LEMMA CreateEndsKeeps ==
  ASSUME DepositInv, NEW d \in Deposits, CreateEnds(d) PROVE Keeps
<1> DEFINE q == [row[d] EXCEPT !.status = "intent_created"]
<1>1. /\ d \in creating /\ creating' = creating \ {d} /\ row' = [row EXCEPT ![d] = q]
      /\ UNCHANGED <<now, tip, place, undone, taken, intents, minted, txs, faults, job, todo>>
  BY DEF CreateEnds, OnlyApi, Bitcoin
<1>2. d \in intents /\ row[d].status = "absent" /\ row[d] \in Row /\ row \in Rows
  BY <1>1, StateTypes DEF DepositInv, Creation
<1>3. q \in Row /\ q.status = "intent_created"
  BY <1>2 DEF Row, Statuses
<1> HIDE DEF q
<1>4. row'[d] = q /\ \A e \in Deposits : e # d => row'[e] = row[e]
  BY <1>1, <1>2 DEF Rows
<1>5. NeverAhead(d)' /\ FrozenAt(d)
  BY <1>2, <1>3, <1>4 DEF NeverAhead, FrozenAt, StatusRank
<1>6. Listing'
  BY <1>1, <1>2, <1>4 DEF DepositInv, Listing, DepositTypeOK
<1>7. JobAtRow'
  <2>1. job.at \in {"request", "mint"} => job.deposit \in Deposits /\ job.deposit # d
    BY <1>2 DEF DepositInv, JobAtRow
  <2> QED BY <1>1, <1>4, <2>1 DEF DepositInv, JobAtRow, AuthorizationOf
<1> QED BY <1>1, <1>2, <1>3, <1>5, <1>6, <1>7, RowStepKeeps DEF DepositInv, DepositTypeOK, Seen

LEMMA NotCreating ==
  ASSUME DepositInv, NEW d \in Deposits, row[d].status # "absent"
  PROVE  d \in intents /\ creating = creating \ {d}
  BY DEF DepositInv, Creation

\* An observation may rewrite what is not yet asked about.
LEMMA ObserveKeeps ==
  ASSUME DepositInv, NEW d \in Deposits, Observe(d) PROVE Keeps
<1>1. /\ job.at = "observe" /\ d \in todo /\ Looked(d)
      /\ UNCHANGED <<now, tip, place, undone, taken, intents, minted, txs, faults, creating>>
  BY DEF Observe, chainVars
<1>2. CASE row' = row
  <2>1. job' \in Job /\ todo' \subseteq Deposits /\ Listing' /\ JobAtRow'
    BY <1>1, <1>2, LookedOn
  <2>2. faults' \in 0 .. MaxFaults
    BY <1>1 DEF DepositInv, DepositTypeOK, ChainsTypeOK
  <2> QED BY <1>1, <1>2, <2>1, <2>2, OnlyJobKeeps
<1>3. ASSUME NEW o \in Outputs,
             row' = [row EXCEPT ![d].status = "btc_observed", ![d].output = o,
                                ![d].confirmations = Confirmations(o),
                                ![d].observedHeight = job.id]
      PROVE  Keeps
  <2>1. PICK c \in 0 .. MaxTip : c = Confirmations(o)
    BY ConfirmationTypes
  <2>2. PICK h \in 0 .. MaxTip : h = job.id
    <3>1. job.id \in Nat /\ tip \in 0 .. MaxTip /\ job.id <= tip
      BY <1>1, StateTypes DEF DepositInv, Listing
    <3>2. job.id \in 0 .. MaxTip
      BY <3>1, ConstantTypes
    <3> QED BY <3>2
  <2>3. row[d].status \in {"intent_created", "btc_observed"} /\ row[d] \in Row /\ row \in Rows
    BY <1>1, StateTypes DEF DepositInv, Listing
  <2> DEFINE q == [row[d] EXCEPT !.status = "btc_observed", !.output = o,
                                 !.confirmations = c, !.observedHeight = h]
  <2>4. row' = [row EXCEPT ![d] = q]
    BY <1>3, <2>1, <2>2, <2>3 DEF Rows
  <2>5. q \in Row /\ q.status = "btc_observed" /\ q.output = o
    BY <2>3 DEF Row, Statuses
  <2> HIDE DEF q
  <2>6. row'[d] = q /\ \A e \in Deposits : e # d => row'[e] = row[e]
    BY <2>3, <2>4 DEF Rows
  <2>7. NeverAhead(d)'
    BY <2>5, <2>6 DEF NeverAhead
  <2>8. FrozenAt(d)
    BY <2>3, <2>5, <2>6 DEF FrozenAt, StatusRank
  <2>9. job' \in Job /\ todo' \subseteq Deposits /\ Listing' /\ JobAtRow'
    BY <1>1, <2>6, LookedOn
  <2> QED BY <1>1, <2>3, <2>4, <2>5, <2>7, <2>8, <2>9, NotCreating, RowStepKeeps
<1> QED BY <1>2, <1>3 DEF Observe, Candidates

\* A row ends: it failed before a request or at the DON.
LEMMA FailedKeeps ==
  ASSUME DepositInv, NEW d \in Deposits, row[d].status \in {"btc_observed", "mint_requested"},
         row' = [row EXCEPT ![d].status = "failed"], job = Idle, Rest,
         UNCHANGED <<now, tip, place, undone, taken, intents, minted, txs, faults, creating, todo>>
  PROVE  Keeps
<1> DEFINE q == [row[d] EXCEPT !.status = "failed"]
<1>1. row[d] \in Row /\ row \in Rows /\ row' = [row EXCEPT ![d] = q]
  BY StateTypes
<1>2. q \in Row /\ q.status = "failed" /\ q = [row[d] EXCEPT !.status = q.status]
  BY <1>1 DEF Row, Statuses
<1> HIDE DEF q
<1>3. row'[d] = q
  BY <1>1 DEF Rows
<1>4. NeverAhead(d)' /\ FrozenAt(d)
  BY <1>2, <1>3 DEF NeverAhead, FrozenAt, StatusRank
<1>5. todo' = {}
  BY IdleType DEF DepositInv, Listing
<1>6. job' \in Job /\ todo' \subseteq Deposits /\ Listing' /\ JobAtRow'
  BY <1>5, RestsIdle
<1> QED BY <1>1, <1>2, <1>4, <1>6, NotCreating, RowStepKeeps DEF Seen

LEMMA RequestExpiresKeeps ==
  ASSUME DepositInv, NEW d \in Deposits, RequestExpires(d) PROVE Keeps
  BY FailedKeeps DEF RequestExpires, RequestEligible, OnlyRow, chainVars

LEMMA SettleRejectedKeeps ==
  ASSUME DepositInv, NEW d \in Deposits, SettleRejected(d) PROVE Keeps
  BY FailedKeeps DEF SettleRejected, Requested, OnlyRow, chainVars

\* The receipt of a request: the row names it, with the deadline that was sent.
LEMMA RequestEndsKeeps == ASSUME DepositInv, RequestEnds PROVE Keeps
<1>1. /\ job.at = "request" /\ Rest
      /\ txs[job.id].state \in {"mined", "approved", "rejected"}
      /\ row' = [row EXCEPT ![job.deposit].status = "mint_requested",
                            ![job.deposit].request = job.id,
                            ![job.deposit].deadline = job.deadline]
      /\ UNCHANGED <<now, tip, place, undone, taken, intents, minted, txs, faults, creating, todo>>
  BY DEF RequestEnds, OnlyRow, chainVars
<1>2. PICK d \in Deposits : d = job.deposit
  BY <1>1 DEF DepositInv, JobAtRow
<1>3. PICK i \in DOMAIN txs : i = job.id
  BY <1>1 DEF DepositInv, JobAtRow
<1>4. PICK deadline \in Nat : deadline = job.deadline
  BY StateTypes
<1>5. /\ row[d].status = "btc_observed" /\ txs[i].kind = "request"
      /\ txs[i].auth = AuthorizationOf(d, deadline)
      /\ txs[i].state \in {"mined", "approved", "rejected"}
  BY <1>1, <1>2, <1>3, <1>4 DEF DepositInv, JobAtRow
<1>6. row[d] \in Row /\ row \in Rows /\ i \in Nat
  BY StateTypes
<1> DEFINE q == [row[d] EXCEPT !.status = "mint_requested", !.request = i,
                               !.deadline = deadline]
<1>7. row' = [row EXCEPT ![d] = q]
  BY <1>1, <1>2, <1>3, <1>4, <1>6 DEF Rows
<1>8. /\ q \in Row /\ q.status = "mint_requested" /\ q.request = i /\ q.deadline = deadline
      /\ q.output = row[d].output /\ q.confirmations = row[d].confirmations
      /\ q.observedHeight = row[d].observedHeight
  BY <1>6 DEF Row, Statuses
<1> HIDE DEF q
<1>9. row'[d] = q
  BY <1>6, <1>7 DEF Rows
<1>10. NeverAhead(d)'
  BY <1>1, <1>5, <1>8, <1>9 DEF NeverAhead, AuthorizationOf
<1>11. FrozenAt(d)
  BY <1>5, <1>8, <1>9 DEF FrozenAt, StatusRank
<1>12. todo' = {}
  BY <1>1 DEF DepositInv, Listing
<1>13. job' \in Job /\ todo' \subseteq Deposits /\ Listing' /\ JobAtRow'
  BY <1>1, <1>12, RestsIdle
<1>14. q.output \in Outputs
  BY <1>5, <1>8 DEF DepositInv, OutputSeen, Seen
<1> QED BY <1>1, <1>5, <1>7, <1>8, <1>10, <1>11, <1>13, <1>14, NotCreating, RowStepKeeps

\* The receipt of a mint.
LEMMA MintEndsKeeps == ASSUME DepositInv, MintEnds PROVE Keeps
<1>1. /\ job.at = "mint" /\ Rest /\ txs[job.id].state = "mined"
      /\ row' = [row EXCEPT ![job.deposit].status = "minted"]
      /\ UNCHANGED <<now, tip, place, undone, taken, intents, minted, txs, faults, creating, todo>>
  BY DEF MintEnds, OnlyRow, chainVars
<1>2. PICK d \in Deposits : d = job.deposit
  BY <1>1 DEF DepositInv, JobAtRow
<1>3. /\ row[d].status = "mint_requested" /\ job.id \in DOMAIN txs
      /\ txs[job.id].kind = "mint" /\ txs[job.id].auth = AuthorizationOf(d, row[d].deadline)
  BY <1>1, <1>2 DEF DepositInv, JobAtRow
<1>4. minted[d] = row[d].output
  BY <1>1, <1>3 DEF DepositInv, MintFollowsRequest, AuthorizationOf
<1> DEFINE q == [row[d] EXCEPT !.status = "minted"]
<1>5. row[d] \in Row /\ row \in Rows /\ row' = [row EXCEPT ![d] = q]
  BY <1>1, <1>2, StateTypes
<1>6. /\ q \in Row /\ q.status = "minted" /\ q = [row[d] EXCEPT !.status = q.status]
      /\ q.output = row[d].output
  BY <1>5 DEF Row, Statuses
<1> HIDE DEF q
<1>7. row'[d] = q
  BY <1>5 DEF Rows
<1>8. NeverAhead(d)' /\ FrozenAt(d)
  BY <1>1, <1>3, <1>4, <1>6, <1>7 DEF NeverAhead, FrozenAt, StatusRank
<1>9. todo' = {}
  BY <1>1 DEF DepositInv, Listing
<1>10. job' \in Job /\ todo' \subseteq Deposits /\ Listing' /\ JobAtRow'
  BY <1>1, <1>9, RestsIdle
<1>11. q.output \in Outputs
  BY <1>3, <1>6 DEF DepositInv, OutputSeen, Seen
<1> QED BY <1>1, <1>3, <1>5, <1>6, <1>8, <1>10, <1>11, NotCreating, RowStepKeeps

-----------------------------------------------------------------------------
(* The invariant, and what follows from it.                                 *)

LEMMA InitInv == ASSUME Init PROVE DepositInv
<1>1. /\ now = 0 /\ tip = 1 /\ place = [o \in Outputs |-> -1]
      /\ undone = {} /\ taken = {}
      /\ intents = {} /\ minted = [d \in Deposits |-> NoOutput] /\ txs = << >> /\ faults = 0
      /\ row = [d \in Deposits |-> NoRow] /\ creating = {} /\ job = Idle /\ todo = {}
  BY DEF Init, ChainsInit
<1>2. NoRow \in Row /\ NoRow.status = "absent"
  BY ConstantTypes DEF NoRow, Row, Statuses
<1>3. txs \in Seq(Tx) /\ DOMAIN txs = {}
  BY <1>1, EmptySeq
<1>4. DepositTypeOK
  BY <1>1, <1>2, <1>3, ConstantTypes, IdleType DEF DepositTypeOK, ChainsTypeOK
<1>5. Creation /\ PlacesBelowTip /\ Listing /\ OutputSeen
  BY <1>1, <1>2, IdleType DEF Creation, PlacesBelowTip, Listing, OutputSeen, Seen
<1>6. MintFollowsRequest /\ ApprovedBuried /\ MintsApproved /\ JobAtRow
  BY <1>1, <1>3, IdleType DEF MintFollowsRequest, ApprovedBuried, MintsApproved, JobAtRow
<1>7. RowNeverAhead
  BY <1>1, <1>2 DEF RowNeverAhead
<1> QED BY <1>4, <1>5, <1>6, <1>7 DEF DepositInv

LEMMA StutterKeeps == ASSUME DepositInv, UNCHANGED vars PROVE Keeps
<1>1. UNCHANGED <<now, tip, place, undone, taken, intents, minted, txs, faults, row, creating, job, todo>>
  BY DEF vars, chainVars
<1>2. faults' \in 0 .. MaxFaults /\ job' \in Job /\ todo' \subseteq Deposits
      /\ Listing' /\ JobAtRow'
  BY <1>1, SameJob DEF DepositInv, DepositTypeOK, ChainsTypeOK
<1> QED BY <1>1, <1>2, OnlyJobKeeps

LEMMA StepKeeps == ASSUME DepositInv, [Next]_vars PROVE Keeps
<1>1. CASE Next
  <2>1. CASE \E d \in Deposits : \/ CreateBegins(d) \/ CreateEnds(d) \/ CreateLost(d)
                                 \/ ObserveFails(d) \/ Begin(d)
    BY <2>1, CreateBeginsKeeps, CreateEndsKeeps, CreateLostKeeps, ObserveFailsKeeps,
       RequestExpiresKeeps, RequestBeginsKeeps, SettleRejectedKeeps, MintBeginsKeeps
    DEF Begin
  <2>2. CASE Continue
    BY <2>2, ObserveKeeps, RequestEndsKeeps, FailsKeeps, MintEndsKeeps DEF Continue
  <2>3. CASE ChainStep \/ ObserveBegins \/ Interrupt
    BY <2>3, ChainStepKeeps, ObserveBeginsKeeps, InterruptKeeps
  <2> QED BY <1>1, <2>1, <2>2, <2>3 DEF Next
<1>2. CASE UNCHANGED vars
  BY <1>2, StutterKeeps
<1> QED BY <1>1, <1>2

LEMMA InvHolds == Spec => []DepositInv
<1>1. DepositInv /\ [Next]_vars => DepositInv'
  BY StepKeeps DEF Keeps
<1> QED BY InitInv, <1>1, PTL DEF Spec

\* The rows, the intents, the worker's call and what it sent keep their types,
\* whatever the chains do between two awaits.
THEOREM DepositTypes == Spec => []DepositTypeOK
<1>1. DepositInv => DepositTypeOK
  BY DEF DepositInv
<1> QED BY InvHolds, <1>1, PTL

\* The status of a deposit row never runs ahead of the EVM chain: what it says was
\* requested was requested with the deadline the row holds, and what it says was
\* minted was minted for the output it names, whichever receipt was lost before.
THEOREM RowsFollowTheChain == Spec => []RowNeverAhead
<1>1. DepositInv => RowNeverAhead
  BY DEF DepositInv
<1> QED BY InvHolds, <1>1, PTL

\* Every mint has its bitcoin: an output to the deposit's own address, buried as
\* deep as the policy asks unless the chain was rewritten after the DON looked.
THEOREM MintsStayBuried == Spec => []MintsBuried
<1>1. ASSUME DepositInv PROVE MintsBuried
  <2> SUFFICES ASSUME NEW d \in Deposits, minted[d] # NoOutput
               PROVE  /\ PaysTo[minted[d]] = d
                      /\ \/ minted[d] \in undone
                         \/ Confirmations(minted[d]) >= MinConfirmations
    BY DEF MintsBuried
  <2>1. PICK i \in DOMAIN txs : /\ txs[i].state = "approved"
                                /\ txs[i].auth.deposit = d /\ txs[i].auth.output = minted[d]
    BY <1>1 DEF DepositInv, MintsApproved
  <2> QED BY <1>1, <2>1 DEF DepositInv, ApprovedBuried
<1> QED BY InvHolds, <1>1, PTL

\* A row only moves forward, and from the request on the output and the heights it
\* was requested with are fixed: no observation still under way rewrites them.
THEOREM ObservationsStayFrozen == Spec => ObservationFrozen
<1>1. DepositInv /\ [Next]_vars => [Frozen]_vars
  BY StepKeeps DEF Keeps
<1>2. Frozen => \A d \in Deposits :
                  /\ StatusRank(row[d].status) <= StatusRank(row'[d].status)
                  /\ row[d].status \in {"minted", "failed"} => row'[d] = row[d]
                  /\ row[d].status = "mint_requested" =>
                       row'[d] = [row[d] EXCEPT !.status = row'[d].status]
  BY DEF Frozen, FrozenAt
<1> QED BY InvHolds, <1>1, <1>2, PTL DEF Spec, ObservationFrozen

-----------------------------------------------------------------------------
(* The ledger.  The receipt of a request commits a deposit; the mints the   *)
(* worker sends use the commitment.                                         *)

\* A row that names a request is past observation, and keeps what it observed.
AskedRow(d) ==
  row[d].request # 0 =>
    /\ row[d].status \in {"mint_requested", "minted", "failed"}
    /\ row[d].output \in Outputs

AskedRows == \A d \in Deposits : AskedRow(d)

LEMMA NoAuthorizationIsNone == NoAuthorization \notin Authorization
<1>1. DOMAIN NoAuthorization = {"deposit"}
  BY DEF NoAuthorization
<1>2. \A a \in Authorization : "output" \in DOMAIN a
  BY DEF Authorization
<1> QED BY <1>1, <1>2

\* Only the receipt of a request writes the hash of one.
RequestsKept == \A d \in Deposits : row'[d].request = row[d].request

LEMMA SameRowsKept == ASSUME row' = row PROVE RequestsKept
  BY DEF RequestsKept

LEMMA StatusKept ==
  ASSUME DepositInv, NEW d \in Deposits, NEW status, row' = [row EXCEPT ![d].status = status]
  PROVE  RequestsKept
<1> DEFINE q == [row[d] EXCEPT !.status = status]
<1>1. row[d] \in Row /\ row \in Rows
  BY StateTypes
<1>2. row' = [row EXCEPT ![d] = q] /\ q.request = row[d].request
  BY <1>1 DEF Row
<1> HIDE DEF q
<1>3. row'[d] = q /\ \A e \in Deposits : e # d => row'[e] = row[e]
  BY <1>1, <1>2 DEF Rows
<1> QED BY <1>2, <1>3 DEF RequestsKept

LEMMA ObserveRequests ==
  ASSUME DepositInv, NEW d \in Deposits, Observe(d) PROVE RequestsKept
<1>1. CASE row' = row
  BY <1>1, SameRowsKept
<1>2. ASSUME NEW o \in Outputs,
             row' = [row EXCEPT ![d].status = "btc_observed", ![d].output = o,
                                ![d].confirmations = Confirmations(o),
                                ![d].observedHeight = job.id]
      PROVE  RequestsKept
  <2> DEFINE q == [row[d] EXCEPT !.status = "btc_observed", !.output = o,
                                 !.confirmations = Confirmations(o),
                                 !.observedHeight = job.id]
  <2>1. row[d] \in Row /\ row \in Rows
    BY StateTypes
  <2>2. row' = [row EXCEPT ![d] = q] /\ q.request = row[d].request
    BY <1>2, <2>1 DEF Rows, Row
  <2> HIDE DEF q
  <2>3. row'[d] = q /\ \A e \in Deposits : e # d => row'[e] = row[e]
    BY <2>1, <2>2 DEF Rows
  <2> QED BY <2>2, <2>3 DEF RequestsKept
<1> QED BY <1>1, <1>2 DEF Observe, Candidates

LEMMA MintEndsRequests == ASSUME DepositInv, MintEnds PROVE RequestsKept
<1>1. PICK d \in Deposits : d = job.deposit
  BY DEF MintEnds, DepositInv, JobAtRow
<1>2. row' = [row EXCEPT ![d].status = "minted"]
  BY <1>1 DEF MintEnds
<1> QED BY <1>2, StatusKept

LEMMA OthersKeepRequests ==
  ASSUME DepositInv, [Next]_vars, ~RequestEnds PROVE RequestsKept
<1>1. CASE ChainStep \/ ObserveBegins \/ Interrupt \/ UNCHANGED vars
  <2>1. row' = row
    BY <1>1 DEF ChainStep, ObserveBegins, Interrupt, vars
  <2> QED BY <2>1, SameRowsKept
<1>2. CASE Continue
  <2>1. CASE \E d \in Deposits : Observe(d)
    BY <2>1, ObserveRequests
  <2>2. CASE RequestFails \/ MintFails
    BY <2>2, SameRowsKept DEF RequestFails, MintFails
  <2>3. CASE MintEnds
    BY <2>3, MintEndsRequests
  <2> QED BY <1>2, <2>1, <2>2, <2>3 DEF Continue
<1>3. ASSUME NEW d \in Deposits, CreateBegins(d) \/ CreateLost(d) \/ ObserveFails(d)
      PROVE  RequestsKept
  <2>1. row' = row
    BY <1>3 DEF CreateBegins, CreateLost, ObserveFails
  <2> QED BY <2>1, SameRowsKept
<1>4. ASSUME NEW d \in Deposits, CreateEnds(d) PROVE RequestsKept
  BY <1>4, StatusKept DEF CreateEnds
<1>5. ASSUME NEW d \in Deposits, Begin(d) PROVE RequestsKept
  <2>1. CASE RequestExpires(d)
    BY <2>1, StatusKept DEF RequestExpires
  <2>2. CASE SettleRejected(d)
    BY <2>2, StatusKept DEF SettleRejected
  <2>3. CASE RequestBegins(d) \/ MintBegins(d)
    BY <2>3, SameRowsKept DEF RequestBegins, MintBegins
  <2> QED BY <1>5, <2>1, <2>2, <2>3 DEF Begin
<1> QED BY <1>1, <1>2, <1>3, <1>4, <1>5 DEF Next

\* The row the receipt of a request writes.
LEMMA RequestedRow ==
  ASSUME DepositInv, RequestEnds
  PROVE  \E d \in Deposits :
           /\ row[d].status = "btc_observed"
           /\ row'[d].status = "mint_requested" /\ row'[d].output = row[d].output
           /\ \A e \in Deposits : e # d => row'[e] = row[e]
<1>1. /\ job.at = "request"
      /\ row' = [row EXCEPT ![job.deposit].status = "mint_requested",
                            ![job.deposit].request = job.id,
                            ![job.deposit].deadline = job.deadline]
  BY DEF RequestEnds
<1>2. PICK d \in Deposits : d = job.deposit /\ row[d].status = "btc_observed"
  BY <1>1 DEF DepositInv, JobAtRow
<1> DEFINE q == [row[d] EXCEPT !.status = "mint_requested", !.request = job.id,
                               !.deadline = job.deadline]
<1>3. row[d] \in Row /\ row \in Rows
  BY StateTypes
<1>4. row' = [row EXCEPT ![d] = q]
  BY <1>1, <1>2, <1>3 DEF Rows
<1>5. q.status = "mint_requested" /\ q.output = row[d].output
  BY <1>3 DEF Row
<1> HIDE DEF q
<1>6. row'[d] = q /\ \A e \in Deposits : e # d => row'[e] = row[e]
  BY <1>3, <1>4 DEF Rows
<1> QED BY <1>2, <1>5, <1>6

\* A row that names a request is written no more, but for its status.
LEMMA AskedRowStays ==
  ASSUME DepositInv, DepositInv', Frozen, NEW d \in Deposits, AskedRow(d), row[d].request # 0
  PROVE  AskedRow(d)' /\ AskedAbout(d)' = AskedAbout(d)
<1>1. row[d].status \in {"mint_requested", "minted", "failed"} /\ row[d].output \in Outputs
  BY DEF AskedRow
<1>2. FrozenAt(d) /\ row[d] \in Row
  BY StateTypes DEF Frozen
<1>3. CASE row'[d] = row[d]
  BY <1>1, <1>3 DEF AskedRow, AskedAbout, AuthorizationOf
<1>4. CASE row[d].status = "mint_requested"
  <2>1. PICK status : status = row'[d].status
    OBVIOUS
  <2>2. row'[d] = [row[d] EXCEPT !.status = status]
    BY <1>2, <1>4, <2>1 DEF FrozenAt
  <2>3. /\ row'[d].output = row[d].output /\ row'[d].confirmations = row[d].confirmations
        /\ row'[d].observedHeight = row[d].observedHeight
        /\ row'[d].deadline = row[d].deadline /\ row'[d].request = row[d].request
    BY <1>2, <2>2 DEF Row
  <2>4. status \in Statuses
    <3>1. row' \in [Deposits -> Row]
      BY DEF DepositInv, DepositTypeOK
    <3> QED BY <2>1, <3>1 DEF Row
  <2>5. StatusRank(status) >= 3
    BY <1>2, <1>4, <2>1 DEF FrozenAt, StatusRank
  <2>6. status \in {"mint_requested", "minted", "failed"}
    BY <2>4, <2>5 DEF Statuses, StatusRank
  <2> QED BY <1>1, <2>1, <2>3, <2>6 DEF AskedRow, AskedAbout, AuthorizationOf
<1> QED BY <1>1, <1>2, <1>3, <1>4 DEF FrozenAt

LEMMA AskedRowsKeep ==
  ASSUME DepositInv, AskedRows, [Next]_vars
  PROVE  /\ AskedRows'
         /\ ~RequestEnds => \A d \in Deposits : AskedAbout(d)' = AskedAbout(d)
<1>1. DepositInv' /\ Frozen
  BY StepKeeps DEF Keeps
<1>2. ASSUME NEW d \in Deposits, row[d].request # 0
      PROVE  AskedRow(d)' /\ AskedAbout(d)' = AskedAbout(d)
  BY <1>1, <1>2, AskedRowStays DEF AskedRows
<1>3. ASSUME NEW d \in Deposits, row[d].request = 0, RequestsKept
      PROVE  AskedRow(d)' /\ AskedAbout(d)' = AskedAbout(d)
  <2>1. row'[d].request = 0
    BY <1>3 DEF RequestsKept
  <2> QED BY <1>3, <2>1 DEF AskedRow, AskedAbout
<1>4. ASSUME RequestEnds, NEW d \in Deposits, row[d].request = 0 PROVE AskedRow(d)'
  <2>1. PICK r \in Deposits :
          /\ row[r].status = "btc_observed"
          /\ row'[r].status = "mint_requested" /\ row'[r].output = row[r].output
          /\ \A e \in Deposits : e # r => row'[e] = row[e]
    BY <1>4, RequestedRow
  <2>2. CASE d = r
    BY <2>1, <2>2 DEF AskedRow, DepositInv, OutputSeen, Seen
  <2>3. CASE d # r
    BY <1>4, <2>1, <2>3 DEF AskedRow
  <2> QED BY <2>2, <2>3
<1>5. CASE RequestEnds
  BY <1>2, <1>4, <1>5 DEF AskedRows
<1>6. CASE ~RequestEnds
  BY <1>2, <1>3, <1>6, OthersKeepRequests DEF AskedRows
<1> QED BY <1>5, <1>6

LEMMA AskedHolds == Spec => []AskedRows
<1>1. Init => AskedRows
  BY DEF Init, NoRow, AskedRows, AskedRow
<1>2. DepositInv /\ AskedRows /\ [Next]_vars => AskedRows'
  BY AskedRowsKeep
<1> QED BY InvHolds, <1>1, <1>2, PTL DEF Spec

AskedTypes == \A d \in Deposits : AskedAbout(d) \in Authorization \cup {NoAuthorization}

LEMMA AskedType == DepositInv /\ AskedRows => AskedTypes
<1> SUFFICES ASSUME DepositInv, AskedRows, NEW d \in Deposits
             PROVE  AskedAbout(d) \in Authorization \cup {NoAuthorization}
  BY DEF AskedTypes
<1> QED BY StateTypes DEF AskedRows, AskedRow, AskedAbout, AuthorizationOf, Authorization

\* What the worker tried is as it was where no mint is sent.
LEMMA NothingTried == ASSUME DepositInv, TxsEvolve PROVE Tried' = Tried
  BY DEF Tried, TxsEvolve, TxEvolves

LEMMA SentElements ==
  ASSUME DepositInv, NEW t, txs' = Append(txs, t)
  PROVE  \E n \in Nat : /\ n \notin DOMAIN txs /\ DOMAIN txs' = DOMAIN txs \cup {n}
                        /\ txs'[n] = t /\ \A i \in DOMAIN txs : txs'[i] = txs[i]
<1>1. txs \in Seq(Tx) /\ Len(txs) \in Nat /\ DOMAIN txs = 1 .. Len(txs)
  BY StateTypes
<1>2. /\ DOMAIN txs' = 1 .. Len(txs) + 1 /\ txs'[Len(txs) + 1] = t
      /\ \A i \in DOMAIN txs : txs'[i] = txs[i]
  BY <1>1
<1>3. PICK n \in Nat : n = Len(txs) + 1
  BY <1>1
<1>4. n \notin DOMAIN txs /\ DOMAIN txs' = DOMAIN txs \cup {n} /\ txs'[n] = t
  BY <1>1, <1>2, <1>3
<1> QED BY <1>2, <1>4

LEMMA RequestTries ==
  ASSUME DepositInv, NEW d \in Deposits, RequestBegins(d) PROVE Tried' = Tried
<1> DEFINE t == [kind |-> "request", auth |-> AuthorizationOf(d, now + AuthorizationTtl),
                 request |-> 0, state |-> "pending"]
<1>1. txs' = Append(txs, t) /\ t.kind = "request"
  BY DEF RequestBegins, Send
<1> HIDE DEF t
<1>2. PICK n \in Nat : /\ DOMAIN txs' = DOMAIN txs \cup {n} /\ txs'[n] = t
                       /\ \A i \in DOMAIN txs : txs'[i] = txs[i]
  BY <1>1, SentElements
<1> QED BY <1>1, <1>2 DEF Tried

\* A mint is sent with what was asked.
LEMMA MintUses ==
  ASSUME DepositInv, NEW d \in Deposits, MintBegins(d)
  PROVE  Ledger!Use(d)
<1> DEFINE auth == AuthorizationOf(d, row[d].deadline)
           t == [kind |-> "mint", auth |-> auth, request |-> row[d].request,
                 state |-> "pending"]
<1>1. /\ row[d].status = "mint_requested" /\ row' = row
      /\ txs' = Append(txs, t) /\ t.kind = "mint" /\ t.auth = auth
  BY DEF MintBegins, Send, Requested
<1>2. row[d].request \in DOMAIN txs /\ auth \in Authorization /\ auth.deposit = d
  BY <1>1, NeverAheadEverywhere, AuthorizationType, StateTypes
  DEF DepositInv, NeverAhead, OutputSeen, Seen, AuthorizationOf
<1>3. AskedAbout(d) = auth
  <2>1. row[d].request # 0
    BY <1>2, StateTypes
  <2> QED BY <2>1 DEF AskedAbout
<1>4. auth # NoAuthorization
  BY <1>2, NoAuthorizationIsNone
<1> HIDE DEF auth, t
<1>5. PICK n \in Nat : /\ DOMAIN txs' = DOMAIN txs \cup {n} /\ txs'[n] = t
                       /\ \A i \in DOMAIN txs : txs'[i] = txs[i]
  BY <1>1, SentElements
<1>6. Tried' = Tried \cup {<<d, auth>>}
  BY <1>1, <1>2, <1>5 DEF Tried
<1>7. \A e \in Deposits : AskedAbout(e)' = AskedAbout(e)
  BY <1>1 DEF AskedAbout, AuthorizationOf
<1> QED BY <1>3, <1>4, <1>6, <1>7 DEF Ledger!Use

LEMMA OthersTry ==
  ASSUME DepositInv, [Next]_vars, \A d \in Deposits : ~MintBegins(d) PROVE Tried' = Tried
<1>1. CASE txs' = txs
  BY <1>1, SameTxsEvolve, NothingTried
<1>2. CASE ChainStep
  <2>1. ASSUME NEW i \in DOMAIN txs, Mine(i) PROVE TxsEvolve
    BY <2>1, OneTxEvolves DEF Mine
  <2>2. ASSUME NEW i \in DOMAIN txs, Answer(i) PROVE TxsEvolve
    BY <2>2, OneTxEvolves DEF Answer
  <2>3. txs' = txs \/ \E i \in DOMAIN txs : Mine(i) \/ Answer(i)
    BY <1>2 DEF ChainStep, Pay, ReorgOutput, Take, GiveBack, BitcoinBlock, Wait, MintElsewhere, Evm
  <2> QED BY <1>1, <2>1, <2>2, <2>3, NothingTried
<1>3. CASE ObserveBegins \/ Interrupt \/ UNCHANGED vars
  BY <1>1, <1>3 DEF ObserveBegins, Interrupt, vars, chainVars, Evm
<1>4. CASE Continue
  BY <1>1, <1>4 DEF Continue, Observe, RequestEnds, RequestFails, MintEnds, MintFails,
                    OnlyRow, chainVars
<1>5. ASSUME NEW d \in Deposits, \/ CreateBegins(d) \/ CreateEnds(d) \/ CreateLost(d)
                                 \/ ObserveFails(d) \/ RequestExpires(d) \/ SettleRejected(d)
      PROVE  Tried' = Tried
  BY <1>1, <1>5 DEF CreateBegins, CreateEnds, CreateLost, OnlyApi, ObserveFails, Evm,
                    RequestExpires, SettleRejected, OnlyRow, chainVars
<1> QED BY <1>2, <1>3, <1>4, <1>5, RequestTries DEF Next, Begin

\* The receipt of a request commits its deposit.
LEMMA RequestCommits ==
  ASSUME DepositInv, DepositInv', AskedRows, AskedRows', RequestEnds
  PROVE  Ledger!Next
<1>1. PICK d \in Deposits :
        /\ row[d].status = "btc_observed"
        /\ row'[d].status = "mint_requested" /\ row'[d].output = row[d].output
        /\ \A e \in Deposits : e # d => row'[e] = row[e]
  BY RequestedRow
<1>2. AskedAbout(d) = NoAuthorization
  BY <1>1 DEF AskedRows, AskedRow, AskedAbout
<1>3. \A e \in Deposits : e # d => AskedAbout(e)' = AskedAbout(e)
  BY <1>1 DEF AskedAbout, AuthorizationOf
<1>4. \A e \in Deposits : AskedAbout(e)' \in Authorization \cup {NoAuthorization}
  <2>1. AskedTypes'
    BY AskedType, PTL
  <2> QED BY <2>1 DEF AskedTypes
<1>5. Tried' = Tried
  <2>1. txs' = txs
    BY DEF RequestEnds, OnlyRow, chainVars
  <2> QED BY <2>1, SameTxsEvolve, NothingTried
<1>6. [e \in Deposits |-> AskedAbout(e)'] \in [Deposits -> Authorization \cup {NoAuthorization}]
  BY <1>4
<1>7. Ledger!Commit(d)
  BY <1>2, <1>3, <1>5, <1>6 DEF Ledger!Commit
<1> QED BY <1>7 DEF Ledger!Next

LEMMA LedgerStep ==
  DepositInv /\ DepositInv' /\ AskedRows /\ AskedRows' /\ [Next]_vars
    => [Ledger!Next]_Ledger!ledgerVars
<1> SUFFICES ASSUME DepositInv, DepositInv', AskedRows, AskedRows', [Next]_vars
             PROVE  [Ledger!Next]_Ledger!ledgerVars
  OBVIOUS
<1>1. CASE RequestEnds
  BY <1>1, RequestCommits
<1>2. CASE \E d \in Deposits : MintBegins(d)
  BY <1>2, MintUses DEF Ledger!Next
<1>3. CASE ~RequestEnds /\ \A d \in Deposits : ~MintBegins(d)
  <2>1. \A d \in Deposits : AskedAbout(d)' = AskedAbout(d)
    BY <1>3, AskedRowsKeep
  <2>2. Tried' = Tried
    BY <1>3, OthersTry
  <2> QED BY <2>1, <2>2 DEF Ledger!ledgerVars
<1> QED BY <1>1, <1>2, <1>3

LEMMA LedgerInit == Init => Ledger!Init
<1> SUFFICES ASSUME Init PROVE Ledger!Init
  OBVIOUS
<1>1. \A d \in Deposits : AskedAbout(d) = NoAuthorization
  BY DEF Init, NoRow, AskedAbout
<1>2. DOMAIN txs = {}
  BY DEF Init, ChainsInit
<1>3. Tried = {}
  BY <1>2 DEF Tried
<1> QED BY <1>1, <1>3 DEF Ledger!Init

\* The worker implements CommitmentLedger: once the store has the request of a
\* deposit its authorization stays, whatever is observed, retried or interrupted
\* later, and the worker mints with no other.
THEOREM MintsAreCommitted == Spec => ImplementsCommitment
<1> QED BY InvHolds, AskedHolds, LedgerInit, LedgerStep, PTL
        DEF Spec, ImplementsCommitment, Ledger!Spec

=============================================================================
