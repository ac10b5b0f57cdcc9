------------------------ MODULE RedeemWorker_proofs ------------------------
(***************************************************************************)
(* Proofs about the redeem half of the public worker, for any redeems and  *)
(* treasury coins, any limits and either custody controller, any number of *)
(* faults, and every moment at which the process may end.                  *)
(***************************************************************************)
EXTENDS RedeemWorker, SequenceTheorems, TLAPS

-----------------------------------------------------------------------------
(* The inductive invariant.                                                 *)

Committed == {"release_prepared", "release_requested", "redeem_submitted",
              "redeem_completed", "btc_broadcast"}

\* A row commits to a coin when it is prepared and takes its request when that
\* is mined; its transaction spends the coin it committed to.
RowInOrder(r) ==
  /\ row[r].status \in {"absent", "observed"} => row[r].plan = NoCoin
  /\ row[r].status \in Committed => row[r].plan \in Coins
  /\ row[r].status \in {"absent", "observed", "release_prepared"} => row[r].request = 0
  /\ row[r].tx \in {NoCoin, row[r].plan}

RowsInOrder == \A r \in Redeems : RowInOrder(r)

\* What the account sent for a redeem carries what its row committed to, and a
\* completion that was mined settled it.
TxsFromRows ==
  \A i \in DOMAIN txs :
    /\ txs[i].plan = row[txs[i].redeem].plan
    /\ txs[i].deadline = row[txs[i].redeem].deadline
    /\ txs[i].kind = "complete" /\ txs[i].state = "mined"
         => <<txs[i].redeem, txs[i].plan>> \in consumed

\* Whoever settled a redeem settled it for the coin its row committed to.
SettledAsPlanned ==
  /\ \A r \in Redeems, c \in Coins : <<r, c>> \in consumed => row[r].plan = c
  /\ \A r \in Redeems : escrow[r] = "CONSUMED" => <<r, row[r].plan>> \in consumed

\* While a call is in flight its row stands where the job left it.
JobAtRow ==
  /\ job.at \notin {"idle", "scan"} => job.redeem \in Redeems
  /\ job.at = "fund" => row[job.redeem].status = "observed"
  /\ job.at = "request" =>
       /\ row[job.redeem].status = "release_prepared"
       /\ job.id \in DOMAIN txs
       /\ txs[job.id].kind = "request" /\ txs[job.id].redeem = job.redeem
  /\ job.at = "submit" =>
       row[job.redeem].status = "release_requested" /\ job.id = row[job.redeem].request
  /\ job.at = "wait" =>
       row[job.redeem].status = "redeem_submitted" /\ job.id = row[job.redeem].completion
  /\ job.at = "send" =>
       row[job.redeem].status = "redeem_completed" /\ row[job.redeem].tx \in Coins

\* A scan in flight holds the logs of the burns that still have no row.
ScanCovers ==
  /\ cursor <= head
  /\ job.at = "scan" =>
       /\ cursor < job.id /\ job.id <= head
       /\ \A r \in Redeems : burnedIn[r] \in cursor + 1 .. job.id =>
            row[r].status # "absent" \/ \E f \in 0 .. 1 : <<r, f>> \in logs

\* The coin of a row stays locked until the node that holds the lock restarts.
PlansLocked ==
  ~walletRestarted => \A r \in Redeems : row[r].plan # NoCoin => row[r].plan \in reserved

WorkerInv ==
  /\ WorkerTypeOK
  /\ RowsInOrder /\ TxsFromRows /\ SettledAsPlanned /\ JobAtRow /\ ScanCovers
  /\ PlansLocked
  /\ RowBehindChain /\ PaidAsSettled /\ NoBurnSkipped /\ CoinsReserved

-----------------------------------------------------------------------------
(* Types.                                                                   *)

LEMMA ConstantTypes ==
  /\ NoCoin \notin Coins /\ Nobody \notin Redeems
  /\ RedeemDeadline \in [Redeems -> Nat] /\ MaxBlock \in Nat /\ MaxFaults \in Nat
  /\ MaxTime \in Nat /\ FinalityBlocks \in Nat /\ AuthorizationTtl \in Nat
  /\ ScanBatchSize \in Nat \ {0}
  BY StoreAssumption, ChainsAssumption, WorkerAssumption, MaxTimeAssumption

\* The transactions of the account, one by one.
LEMMA TxsElements ==
  ASSUME txs \in Seq(Tx)
  PROVE  /\ Len(txs) \in Nat /\ DOMAIN txs = 1 .. Len(txs)
         /\ \A i \in DOMAIN txs : txs[i] \in Tx
  BY LenProperties, ElementOfSeq

\* Only the state of a transaction changes.
LEMMA StateOfTx ==
  ASSUME NEW t \in Tx,
         NEW state \in {"pending", "dropped", "reverted", "mined", "approved", "rejected"}
  PROVE  /\ [t EXCEPT !.state = state] \in Tx
         /\ [t EXCEPT !.state = state].kind = t.kind
         /\ [t EXCEPT !.state = state].redeem = t.redeem
         /\ [t EXCEPT !.state = state].plan = t.plan
         /\ [t EXCEPT !.state = state].deadline = t.deadline
         /\ [t EXCEPT !.state = state].request = t.request
         /\ [t EXCEPT !.state = state].state = state
  BY DEF Tx

\* What the chains may do to a transaction already sent.
TxEvolves(t, u) ==
  /\ u \in Tx
  /\ u.kind = t.kind /\ u.redeem = t.redeem /\ u.plan = t.plan
  /\ u.deadline = t.deadline /\ u.request = t.request
  /\ t.kind = "request" /\ t.state \in {"mined", "approved", "rejected"} =>
       u.state \in {"mined", "approved", "rejected"}
  /\ t.kind = "complete" /\ u.state = "mined" =>
       t.state = "mined" \/ <<t.redeem, t.plan>> \in consumed'

TxsEvolve ==
  /\ txs' \in Seq(Tx) /\ DOMAIN txs' = DOMAIN txs
  /\ \A i \in DOMAIN txs : TxEvolves(txs[i], txs'[i])

LEMMA SameTxsEvolve == ASSUME txs \in Seq(Tx), UNCHANGED txs PROVE TxsEvolve
  BY TxsElements DEF TxsEvolve, TxEvolves

LEMMA OneTxEvolves ==
  ASSUME txs \in Seq(Tx), NEW i \in DOMAIN txs,
         NEW state \in {"pending", "dropped", "reverted", "mined", "approved", "rejected"},
         txs' = [txs EXCEPT ![i].state = state],
         TxEvolves(txs[i], [txs[i] EXCEPT !.state = state])
  PROVE  TxsEvolve
<1> DEFINE u == [txs[i] EXCEPT !.state = state]
<1>1. i \in 1 .. Len(txs) /\ u \in Tx
  BY TxsElements, StateOfTx
<1>2. txs' = [txs EXCEPT ![i] = u]
  OBVIOUS
<1>3. /\ txs' \in Seq(Tx) /\ Len(txs') = Len(txs)
      /\ \A j \in 1 .. Len(txs) : txs'[j] = IF j = i THEN u ELSE txs[j]
  BY <1>1, <1>2, ExceptSeq
<1>4. DOMAIN txs' = DOMAIN txs
  BY <1>3, TxsElements, LenProperties
<1> QED BY <1>3, <1>4, TxsElements DEF TxsEvolve, TxEvolves

LEMMA TxsEvolvePointwise ==
  ASSUME txs \in Seq(Tx), txs' = [i \in DOMAIN txs |-> txs'[i]],
         \A i \in DOMAIN txs : TxEvolves(txs[i], txs'[i])
  PROVE  TxsEvolve
<1>1. DOMAIN txs = 1 .. Len(txs) /\ Len(txs) \in Nat /\ DOMAIN txs' = DOMAIN txs
  BY TxsElements
<1>2. \A i \in 1 .. Len(txs) : txs'[i] \in Tx
  BY <1>1 DEF TxEvolves
<1>3. txs' \in [1 .. Len(txs) -> Tx]
  BY <1>1, <1>2
<1>4. txs' \in Seq(Tx)
  BY <1>1, <1>3, SeqDef
<1> QED BY <1>1, <1>4 DEF TxsEvolve

\* What a step of the chains leaves to the worker: what was settled stays known,
\* and only a transaction's redeem and plan are settled; payments are the worker's.
ChainsProgress ==
  /\ consumed' = consumed \/ \E i \in DOMAIN txs :
                               consumed' = consumed \cup {<<txs[i].redeem, txs[i].plan>>}
  /\ \A r \in Redeems : escrow'[r] = "CONSUMED" =>
       escrow[r] = "CONSUMED" \/ \E c \in Coins : <<r, c>> \in consumed'
  /\ published' = published
  /\ head' >= head /\ \A r \in Redeems : burnedIn'[r] = burnedIn[r] \/ burnedIn'[r] > head
  /\ ~walletRestarted' => ~walletRestarted /\ reserved' = reserved

LEMMA MineProgress ==
  ASSUME ChainsTypeOK, NEW i \in DOMAIN txs, Mine(i)
  PROVE  ChainsTypeOK' /\ TxsEvolve /\ ChainsProgress
<1>0. /\ txs \in Seq(Tx) /\ txs[i] \in Tx /\ txs[i].redeem \in Redeems /\ txs[i].plan \in Coins
      /\ txs[i].state = "pending"
  BY TxsElements DEF ChainsTypeOK, Mine, Tx
<1>u. UNCHANGED <<now, head, burnedIn, fork, published, confirmed, reserved,
                  walletRestarted, faults>>
  BY DEF Mine, Burns, Bitcoin
<1>1. CASE /\ txs' = [txs EXCEPT ![i].state = "mined"] /\ txs[i].kind = "request"
           /\ UNCHANGED <<escrow, consumed>>
  <2>1. TxEvolves(txs[i], [txs[i] EXCEPT !.state = "mined"])
    BY <1>0, <1>1, StateOfTx DEF TxEvolves
  <2>2. TxsEvolve
    BY <1>0, <1>1, <2>1, OneTxEvolves
  <2>3. ChainsTypeOK'
    BY <1>1, <1>u, <2>2 DEF ChainsTypeOK, TxsEvolve
  <2> QED BY <1>1, <1>u, <2>2, <2>3 DEF ChainsTypeOK, ChainsProgress
<1>2. CASE /\ txs' = [txs EXCEPT ![i].state = "mined"] /\ txs[i].kind = "complete"
           /\ escrow' = [escrow EXCEPT ![txs[i].redeem] = "CONSUMED"]
           /\ consumed' = consumed \cup {<<txs[i].redeem, txs[i].plan>>}
  <2>1. TxEvolves(txs[i], [txs[i] EXCEPT !.state = "mined"])
    BY <1>0, <1>2, StateOfTx DEF TxEvolves
  <2>2. TxsEvolve
    BY <1>0, <1>2, <2>1, OneTxEvolves
  <2>3. escrow' \in [Redeems -> EscrowStates] /\ consumed' \subseteq Redeems \X Coins
    BY <1>0, <1>2 DEF ChainsTypeOK, EscrowStates
  <2>4. \A r \in Redeems : escrow'[r] = "CONSUMED" =>
          escrow[r] = "CONSUMED" \/ \E c \in Coins : <<r, c>> \in consumed'
    BY <1>0, <1>2 DEF ChainsTypeOK
  <2>5. ChainsTypeOK'
    BY <1>u, <2>2, <2>3 DEF ChainsTypeOK, TxsEvolve
  <2>6. \E j \in DOMAIN txs : consumed' = consumed \cup {<<txs[j].redeem, txs[j].plan>>}
    BY <1>2
  <2>7. head' >= head
    BY <1>u DEF ChainsTypeOK
  <2> QED BY <1>u, <2>2, <2>4, <2>5, <2>6, <2>7 DEF ChainsProgress
<1>3. CASE /\ txs' = [txs EXCEPT ![i].state = "reverted"] /\ UNCHANGED <<escrow, consumed>>
  <2>1. TxEvolves(txs[i], [txs[i] EXCEPT !.state = "reverted"])
    BY <1>0, <1>3, StateOfTx DEF TxEvolves
  <2>2. TxsEvolve
    BY <1>0, <1>3, <2>1, OneTxEvolves
  <2>3. ChainsTypeOK'
    BY <1>3, <1>u, <2>2 DEF ChainsTypeOK, TxsEvolve
  <2> QED BY <1>3, <1>u, <2>2, <2>3 DEF ChainsTypeOK, ChainsProgress
<1> QED BY <1>1, <1>2, <1>3 DEF Mine

LEMMA LosePendingProgress ==
  ASSUME ChainsTypeOK, NEW i \in DOMAIN txs, LosePending(i)
  PROVE  ChainsTypeOK' /\ TxsEvolve /\ ChainsProgress
<1>1. txs \in Seq(Tx) /\ \A j \in DOMAIN txs : txs[j] \in Tx
  BY TxsElements DEF ChainsTypeOK
<1>2. txs' = [j \in DOMAIN txs |-> txs'[j]]
  BY DEF LosePending
<1>3. ASSUME NEW j \in DOMAIN txs PROVE TxEvolves(txs[j], txs'[j])
  <2>1. txs'[j] = txs[j] \/ (txs[j].state = "pending" /\ txs'[j] = [txs[j] EXCEPT !.state = "dropped"])
    BY <1>3 DEF LosePending
  <2>2. txs[j] \in Tx
    BY <1>1, <1>3
  <2>3. CASE txs'[j] = txs[j]
    BY <2>2, <2>3 DEF TxEvolves
  <2>4. CASE txs[j].state = "pending" /\ txs'[j] = [txs[j] EXCEPT !.state = "dropped"]
    <3>1. /\ txs'[j] \in Tx /\ txs'[j].state = "dropped"
          /\ txs'[j].kind = txs[j].kind /\ txs'[j].redeem = txs[j].redeem
          /\ txs'[j].plan = txs[j].plan /\ txs'[j].deadline = txs[j].deadline
          /\ txs'[j].request = txs[j].request
      BY <2>2, <2>4 DEF Tx
    <3> QED BY <2>4, <3>1 DEF TxEvolves
  <2> QED BY <2>1, <2>3, <2>4
<1>4. TxsEvolve
  BY <1>1, <1>2, <1>3, TxsEvolvePointwise
<1>5. faults' \in 0 .. MaxFaults
  BY ConstantTypes DEF LosePending, Fault, ChainsTypeOK
<1>6. UNCHANGED <<now, head, burnedIn, fork, escrow, consumed, published, confirmed, reserved,
                  walletRestarted>>
  BY DEF LosePending, Burns, Bitcoin
<1>7. ChainsTypeOK'
  BY <1>4, <1>5, <1>6 DEF ChainsTypeOK, TxsEvolve
<1> QED BY <1>4, <1>6, <1>7 DEF ChainsTypeOK, ChainsProgress

LEMMA AnswerProgress ==
  ASSUME ChainsTypeOK, NEW i \in DOMAIN txs, Answer(i)
  PROVE  ChainsTypeOK' /\ TxsEvolve /\ ChainsProgress
<1>1. txs \in Seq(Tx) /\ txs[i] \in Tx
  BY TxsElements DEF ChainsTypeOK
<1>2. PICK verdict \in {"approved", "rejected"} : txs' = [txs EXCEPT ![i].state = verdict]
  BY DEF Answer
<1>3. TxEvolves(txs[i], [txs[i] EXCEPT !.state = verdict])
  <2> DEFINE u == [txs[i] EXCEPT !.state = verdict]
  <2>1. /\ u \in Tx /\ u.state = verdict /\ u.kind = txs[i].kind /\ u.redeem = txs[i].redeem
        /\ u.plan = txs[i].plan /\ u.deadline = txs[i].deadline
        /\ u.request = txs[i].request
    BY <1>1, <1>2 DEF Tx
  <2>2. txs[i].kind = "request"
    BY DEF Answer
  <2> HIDE DEF u
  <2>3. TxEvolves(txs[i], u)
    BY <1>2, <2>1, <2>2 DEF TxEvolves
  <2> QED BY <2>3 DEF u
<1>4. TxsEvolve
  BY <1>1, <1>2, <1>3, OneTxEvolves
<1>5. UNCHANGED <<now, head, burnedIn, fork, escrow, consumed, published, confirmed, reserved,
                  walletRestarted, faults>>
  BY DEF Answer, Burns, Bitcoin
<1>6. ChainsTypeOK'
  BY <1>4, <1>5 DEF ChainsTypeOK, TxsEvolve
<1> QED BY <1>4, <1>5, <1>6 DEF ChainsTypeOK, ChainsProgress

LEMMA UndoProgress ==
  ASSUME ChainsTypeOK, NEW r \in Redeems, UndoCompletion(r)
  PROVE  ChainsTypeOK' /\ TxsEvolve /\ ChainsProgress
<1> DEFINE own == {i \in DOMAIN txs : /\ txs[i].redeem = r /\ txs[i].kind = "complete"
                                       /\ txs[i].state = "mined"}
<1>1. txs \in Seq(Tx) /\ \A j \in DOMAIN txs : txs[j] \in Tx
  BY TxsElements DEF ChainsTypeOK
<1>2. /\ txs' = [i \in DOMAIN txs |-> IF i \in own THEN [txs[i] EXCEPT !.state = "pending"]
                                                     ELSE txs[i]]
      /\ escrow' = [escrow EXCEPT ![r] = "BURNED"] /\ Fault
      /\ UNCHANGED <<now, Burns, consumed, Bitcoin>>
  BY DEF UndoCompletion
<1>3. ASSUME NEW j \in DOMAIN txs PROVE TxEvolves(txs[j], txs'[j])
  <2>1. \/ txs'[j] = txs[j]
        \/ txs[j].kind = "complete" /\ txs'[j] = [txs[j] EXCEPT !.state = "pending"]
    BY <1>2, <1>3
  <2>2. txs[j] \in Tx
    BY <1>1, <1>3
  <2>3. CASE txs'[j] = txs[j]
    BY <2>2, <2>3 DEF TxEvolves
  <2>4. CASE txs[j].kind = "complete" /\ txs'[j] = [txs[j] EXCEPT !.state = "pending"]
    <3>1. /\ txs'[j] \in Tx /\ txs'[j].state = "pending"
          /\ txs'[j].kind = txs[j].kind /\ txs'[j].redeem = txs[j].redeem
          /\ txs'[j].plan = txs[j].plan /\ txs'[j].deadline = txs[j].deadline
          /\ txs'[j].request = txs[j].request
      BY <2>2, <2>4 DEF Tx
    <3> QED BY <2>4, <3>1 DEF TxEvolves
  <2> QED BY <2>1, <2>3, <2>4
<1>4. TxsEvolve
  BY <1>1, <1>2, <1>3, TxsEvolvePointwise
<1>5. faults' \in 0 .. MaxFaults
  BY <1>2, ConstantTypes DEF Fault, ChainsTypeOK
<1> HIDE DEF own
<1>6. escrow' \in [Redeems -> EscrowStates]
  BY <1>2 DEF ChainsTypeOK, EscrowStates
<1>7. \A q \in Redeems : escrow'[q] = "CONSUMED" => escrow[q] = "CONSUMED"
  BY <1>2 DEF ChainsTypeOK
<1>8. UNCHANGED <<now, head, burnedIn, fork, consumed, published, confirmed, reserved,
                  walletRestarted>>
  BY <1>2 DEF Burns, Bitcoin
<1>9. ChainsTypeOK'
  BY <1>4, <1>5, <1>6, <1>8 DEF ChainsTypeOK, TxsEvolve
<1> QED BY <1>4, <1>7, <1>8, <1>9 DEF ChainsTypeOK, ChainsProgress

LEMMA ElsewhereProgress ==
  ASSUME ChainsTypeOK, NEW i \in DOMAIN txs, CompleteElsewhere(i)
  PROVE  ChainsTypeOK' /\ TxsEvolve /\ ChainsProgress
<1>1. txs \in Seq(Tx) /\ txs[i].redeem \in Redeems /\ txs[i].plan \in Coins
  BY TxsElements DEF ChainsTypeOK, Tx
<1>2. TxsEvolve
  BY <1>1, SameTxsEvolve DEF CompleteElsewhere
<1>3. /\ escrow' = [escrow EXCEPT ![txs[i].redeem] = "CONSUMED"]
      /\ consumed' = consumed \cup {<<txs[i].redeem, txs[i].plan>>}
      /\ UNCHANGED <<now, Burns, txs, Bitcoin, faults>>
  BY DEF CompleteElsewhere
<1>4. escrow' \in [Redeems -> EscrowStates] /\ consumed' \subseteq Redeems \X Coins
  BY <1>1, <1>3 DEF ChainsTypeOK, EscrowStates
<1>5. \A r \in Redeems : escrow'[r] = "CONSUMED" =>
        escrow[r] = "CONSUMED" \/ \E c \in Coins : <<r, c>> \in consumed'
  BY <1>1, <1>3 DEF ChainsTypeOK
<1>6. UNCHANGED <<now, head, burnedIn, fork, txs, published, confirmed, reserved,
                  walletRestarted, faults>>
  BY <1>3 DEF Burns, Bitcoin
<1>7. ChainsTypeOK'
  BY <1>4, <1>6 DEF ChainsTypeOK
<1>8. \E j \in DOMAIN txs : consumed' = consumed \cup {<<txs[j].redeem, txs[j].plan>>}
  BY <1>3
<1>9. head' >= head
  BY <1>6 DEF ChainsTypeOK
<1> QED BY <1>2, <1>5, <1>6, <1>7, <1>8, <1>9 DEF ChainsProgress

LEMMA NextBlockProgress ==
  ASSUME ChainsTypeOK, NextBlock PROVE ChainsTypeOK' /\ TxsEvolve /\ ChainsProgress
<1>1. head \in Nat /\ head + 1 \in 0 .. MaxBlock /\ head' = head + 1
  BY ConstantTypes DEF NextBlock, ChainsTypeOK
<1>2. PICK burns \in SUBSET {r \in Redeems : escrow[r] = "NONE"} :
        /\ burnedIn' = [r \in Redeems |-> IF r \in burns THEN head' ELSE burnedIn[r]]
        /\ escrow' = [r \in Redeems |-> IF r \in burns THEN "BURNED" ELSE escrow[r]]
  BY DEF NextBlock
<1>3. burnedIn' \in [Redeems -> 0 .. MaxBlock] /\ escrow' \in [Redeems -> EscrowStates]
  BY <1>1, <1>2 DEF ChainsTypeOK, EscrowStates
<1>4. \A r \in Redeems : /\ burnedIn'[r] = burnedIn[r] \/ burnedIn'[r] > head
                         /\ escrow'[r] = "CONSUMED" => escrow[r] = "CONSUMED"
  BY <1>1, <1>2
<1>5. TxsEvolve
  BY SameTxsEvolve DEF NextBlock, ChainsTypeOK
<1>6. UNCHANGED <<now, fork, txs, consumed, published, confirmed, reserved,
                  walletRestarted, faults>>
  BY DEF NextBlock, Bitcoin
<1>7. ChainsTypeOK'
  BY <1>1, <1>3, <1>6 DEF ChainsTypeOK
<1> QED BY <1>1, <1>4, <1>5, <1>6, <1>7 DEF ChainsTypeOK, ChainsProgress

LEMMA ChainStepProgress ==
  ASSUME ChainsTypeOK, ChainStep PROVE ChainsTypeOK' /\ TxsEvolve /\ ChainsProgress
<1>1. CASE NextBlock
  BY <1>1, NextBlockProgress
<1>2. CASE WalletRestart \/ Wait
  <2>1. UNCHANGED <<head, burnedIn, fork, escrow, txs, consumed, published, confirmed>>
    BY <1>2 DEF WalletRestart, Wait, Burns, Bitcoin
  <2>2. /\ now' \in 0 .. MaxTime /\ faults' \in 0 .. MaxFaults
        /\ \/ reserved' = {} /\ walletRestarted' = TRUE
           \/ UNCHANGED <<reserved, walletRestarted>>
    <3>1. CASE WalletRestart
      BY <1>2, <3>1, ConstantTypes DEF ChainsTypeOK, WalletRestart, Fault
    <3>2. CASE Wait
      BY <1>2, <3>2, ConstantTypes DEF ChainsTypeOK, Wait, Tick, Bitcoin
    <3> QED BY <1>2, <3>1, <3>2
  <2>3. TxsEvolve
    BY <2>1, SameTxsEvolve DEF ChainsTypeOK
  <2>4. ChainsTypeOK'
    BY <2>1, <2>2 DEF ChainsTypeOK
  <2> QED BY <2>1, <2>2, <2>3, <2>4 DEF ChainsTypeOK, ChainsProgress
<1>3. ASSUME NEW r \in Redeems, ReorgBurn(r) \/ Cancel(r)
      PROVE ChainsTypeOK' /\ TxsEvolve /\ ChainsProgress
  <2>1. UNCHANGED <<now, head, burnedIn, txs, consumed, published, confirmed, reserved,
                    walletRestarted>>
    BY <1>3 DEF ReorgBurn, Cancel, Burns, Bitcoin
  <2>2. /\ fork' \in [Redeems -> 0 .. 1] /\ faults' \in 0 .. MaxFaults
        /\ escrow' \in [Redeems -> EscrowStates]
        /\ \A q \in Redeems : escrow'[q] = "CONSUMED" => escrow[q] = "CONSUMED"
    <3>1. CASE ReorgBurn(r)
      BY <1>3, <3>1, ConstantTypes DEF ChainsTypeOK, ReorgBurn, Fault
    <3>2. CASE Cancel(r)
      BY <1>3, <3>2, ConstantTypes DEF ChainsTypeOK, Cancel, EscrowStates, Burns
    <3> QED BY <1>3, <3>1, <3>2
  <2>3. TxsEvolve
    BY <2>1, SameTxsEvolve DEF ChainsTypeOK
  <2>4. ChainsTypeOK'
    BY <2>1, <2>2 DEF ChainsTypeOK
  <2> QED BY <2>1, <2>2, <2>3, <2>4 DEF ChainsTypeOK, ChainsProgress
<1>4. ASSUME NEW r \in Redeems, UndoCompletion(r)
      PROVE ChainsTypeOK' /\ TxsEvolve /\ ChainsProgress
  BY <1>4, UndoProgress
<1>5. ASSUME NEW i \in DOMAIN txs,
             Mine(i) \/ LosePending(i) \/ Answer(i) \/ CompleteElsewhere(i)
      PROVE ChainsTypeOK' /\ TxsEvolve /\ ChainsProgress
  BY <1>5, MineProgress, LosePendingProgress, AnswerProgress, ElsewhereProgress
<1>6. ASSUME NEW c \in Coins, Confirm(c) PROVE ChainsTypeOK' /\ TxsEvolve /\ ChainsProgress
  <2>1. TxsEvolve
    BY <1>6, SameTxsEvolve DEF ChainsTypeOK, Confirm
  <2>2. /\ UNCHANGED <<now, head, burnedIn, fork, escrow, txs, consumed, published, reserved,
                       walletRestarted, faults>>
        /\ confirmed' \subseteq Coins
    BY <1>6 DEF Confirm, Burns, ChainsTypeOK
  <2>3. ChainsTypeOK'
    BY <2>2 DEF ChainsTypeOK
  <2> QED BY <2>1, <2>2, <2>3 DEF ChainsTypeOK, ChainsProgress
<1> QED BY <1>1, <1>2, <1>3, <1>4, <1>5, <1>6 DEF ChainStep

-----------------------------------------------------------------------------
(* The statements of the store.                                             *)

Rows == [Redeems -> Row]
OthersSame(r) == \A s \in Redeems : s # r => row'[s] = row[s]

LEMMA UpsertRow ==
  ASSUME row \in Rows, NEW r \in Redeems, NEW h \in Nat, UpsertRedeemObserved(r, h)
  PROVE  /\ row' \in Rows /\ OthersSame(r)
         /\ row'[r].status = IF row[r].status = "absent" THEN "observed" ELSE row[r].status
         /\ row'[r].plan = row[r].plan /\ row'[r].deadline = row[r].deadline
         /\ row'[r].request = row[r].request /\ row'[r].completion = row[r].completion
         /\ row'[r].tx = row[r].tx
<1> DEFINE q == [row[r] EXCEPT !.blockHash = h,
                   !.status = IF row[r].status = "absent" THEN "observed" ELSE row[r].status]
<1>1. row' = [row EXCEPT ![r] = q]
  BY DEF UpsertRedeemObserved, Rows, Row
<1>2. /\ q \in Row /\ q.status = IF row[r].status = "absent" THEN "observed" ELSE row[r].status
      /\ q.plan = row[r].plan /\ q.deadline = row[r].deadline
      /\ q.request = row[r].request /\ q.completion = row[r].completion /\ q.tx = row[r].tx
  BY DEF Rows, Row, Statuses
<1> HIDE DEF q
<1> QED BY <1>1, <1>2 DEF Rows, OthersSame

LEMMA PreparedRow ==
  ASSUME row \in Rows, NEW r \in Redeems, NEW plan \in Coins, NEW deadline \in Nat,
         NEW tx \in Coins \cup {NoCoin}, MarkRedeemPrepared(r, plan, deadline, tx)
  PROVE  /\ row' \in Rows /\ OthersSame(r)
         /\ row'[r].status = "release_prepared" /\ row'[r].plan = plan
         /\ row'[r].deadline = deadline /\ row'[r].tx = tx
         /\ row'[r].request = row[r].request /\ row'[r].completion = row[r].completion
<1> DEFINE q == [row[r] EXCEPT !.status = "release_prepared", !.plan = plan,
                               !.deadline = deadline, !.tx = tx]
<1>1. row' = [row EXCEPT ![r] = q]
  BY DEF MarkRedeemPrepared, Rows, Row
<1>2. /\ q \in Row /\ q.status = "release_prepared" /\ q.plan = plan
      /\ q.deadline = deadline /\ q.tx = tx
      /\ q.request = row[r].request /\ q.completion = row[r].completion
  BY DEF Rows, Row, Statuses
<1> HIDE DEF q
<1> QED BY <1>1, <1>2 DEF Rows, OthersSame

LEMMA RequestedRow ==
  ASSUME row \in Rows, NEW r \in Redeems, NEW request \in Nat, MarkReleaseRequested(r, request)
  PROVE  /\ row' \in Rows /\ OthersSame(r)
         /\ row'[r].status = "release_requested" /\ row'[r].request = request
         /\ row'[r].plan = row[r].plan /\ row'[r].deadline = row[r].deadline
         /\ row'[r].completion = row[r].completion /\ row'[r].tx = row[r].tx
<1> DEFINE q == [row[r] EXCEPT !.status = "release_requested", !.request = request]
<1>1. row' = [row EXCEPT ![r] = q]
  BY DEF MarkReleaseRequested, Rows, Row
<1>2. /\ q \in Row /\ q.status = "release_requested" /\ q.request = request
      /\ q.plan = row[r].plan /\ q.deadline = row[r].deadline
      /\ q.completion = row[r].completion /\ q.tx = row[r].tx
  BY DEF Rows, Row, Statuses
<1> HIDE DEF q
<1> QED BY <1>1, <1>2 DEF Rows, OthersSame

LEMMA SubmittedRow ==
  ASSUME row \in Rows, NEW r \in Redeems, NEW completion \in Nat,
         MarkRedeemSubmitted(r, completion)
  PROVE  /\ row' \in Rows /\ OthersSame(r)
         /\ row'[r].status = "redeem_submitted" /\ row'[r].completion = completion
         /\ row'[r].plan = row[r].plan /\ row'[r].deadline = row[r].deadline
         /\ row'[r].request = row[r].request /\ row'[r].tx = row[r].tx
<1> DEFINE q == [row[r] EXCEPT !.status = "redeem_submitted", !.completion = completion]
<1>1. row' = [row EXCEPT ![r] = q]
  BY DEF MarkRedeemSubmitted, Rows, Row
<1>2. /\ q \in Row /\ q.status = "redeem_submitted" /\ q.completion = completion
      /\ q.plan = row[r].plan /\ q.deadline = row[r].deadline
      /\ q.request = row[r].request /\ q.tx = row[r].tx
  BY DEF Rows, Row, Statuses
<1> HIDE DEF q
<1> QED BY <1>1, <1>2 DEF Rows, OthersSame

LEMMA CompletedRow ==
  ASSUME row \in Rows, NEW r \in Redeems, NEW completion \in Nat,
         MarkRedeemCompleted(r, completion)
  PROVE  /\ row' \in Rows /\ OthersSame(r)
         /\ row'[r].status = "redeem_completed"
         /\ row'[r].plan = row[r].plan /\ row'[r].deadline = row[r].deadline
         /\ row'[r].request = row[r].request /\ row'[r].tx = row[r].tx
<1> DEFINE q == [row[r] EXCEPT !.status = "redeem_completed", !.completion = completion]
<1>1. row' = [row EXCEPT ![r] = q]
  BY DEF MarkRedeemCompleted, Rows, Row
<1>2. /\ q \in Row /\ q.status = "redeem_completed" /\ q.completion = completion
      /\ q.plan = row[r].plan /\ q.deadline = row[r].deadline
      /\ q.request = row[r].request /\ q.tx = row[r].tx
  BY DEF Rows, Row, Statuses
<1> HIDE DEF q
<1> QED BY <1>1, <1>2 DEF Rows, OthersSame

LEMMA FinalizedRow ==
  ASSUME row \in Rows, NEW r \in Redeems, NEW tx \in Coins, MarkBitcoinFinalized(r, tx)
  PROVE  /\ row' \in Rows /\ OthersSame(r)
         /\ row'[r].status = row[r].status /\ row'[r].tx = tx
         /\ row'[r].plan = row[r].plan /\ row'[r].deadline = row[r].deadline
         /\ row'[r].request = row[r].request /\ row'[r].completion = row[r].completion
<1> DEFINE q == [row[r] EXCEPT !.tx = tx]
<1>1. row' = [row EXCEPT ![r] = q]
  BY DEF MarkBitcoinFinalized, Rows, Row
<1>2. /\ q \in Row /\ q.tx = tx
      /\ q.status = row[r].status /\ q.plan = row[r].plan /\ q.deadline = row[r].deadline
      /\ q.request = row[r].request /\ q.completion = row[r].completion
  BY DEF Rows, Row, Statuses
<1> HIDE DEF q
<1> QED BY <1>1, <1>2 DEF Rows, OthersSame

LEMMA BroadcastRow ==
  ASSUME row \in Rows, NEW r \in Redeems, NEW tx \in Coins, MarkBitcoinBroadcast(r, tx)
  PROVE  /\ row' \in Rows /\ OthersSame(r)
         /\ row'[r].status = "btc_broadcast" /\ row'[r].tx = tx
         /\ row'[r].plan = row[r].plan /\ row'[r].deadline = row[r].deadline
         /\ row'[r].request = row[r].request
<1> DEFINE q == [row[r] EXCEPT !.status = "btc_broadcast", !.tx = tx]
<1>1. row' = [row EXCEPT ![r] = q]
  BY DEF MarkBitcoinBroadcast, Rows, Row
<1>2. /\ q \in Row /\ q.status = "btc_broadcast" /\ q.tx = tx
      /\ q.plan = row[r].plan /\ q.deadline = row[r].deadline /\ q.request = row[r].request
  BY DEF Rows, Row, Statuses
<1> HIDE DEF q
<1> QED BY <1>1, <1>2 DEF Rows, OthersSame

LEMMA FailedRow ==
  ASSUME row \in Rows, NEW r \in Redeems, MarkRedeemFailed(r)
  PROVE  /\ row' \in Rows /\ OthersSame(r) /\ row'[r].status = "failed"
         /\ row'[r].plan = row[r].plan /\ row'[r].deadline = row[r].deadline
         /\ row'[r].request = row[r].request /\ row'[r].tx = row[r].tx
<1> DEFINE q == [row[r] EXCEPT !.status = "failed"]
<1>1. row' = [row EXCEPT ![r] = q]
  BY DEF MarkRedeemFailed, Rows, Row
<1>2. /\ q \in Row /\ q.status = "failed"
      /\ q.plan = row[r].plan /\ q.deadline = row[r].deadline
      /\ q.request = row[r].request /\ q.tx = row[r].tx
  BY DEF Rows, Row, Statuses
<1> HIDE DEF q
<1> QED BY <1>1, <1>2 DEF Rows, OthersSame

-----------------------------------------------------------------------------
(* What every step keeps.                                                   *)

\* The body of ForwardOnly.
ForwardAt(r) ==
  /\ Rank(row[r].status) <= Rank(row'[r].status)
  /\ row[r].status \in {"failed", "btc_broadcast"} => row'[r].status = row[r].status
  /\ row[r].plan # NoCoin => row'[r].plan = row[r].plan /\ row'[r].deadline = row[r].deadline
  /\ row[r].request # 0 => row'[r].request = row[r].request
  /\ row[r].tx # NoCoin => row'[r].tx = row[r].tx

Forward == \A r \in Redeems : ForwardAt(r)

\* The body of RowBehindChain.
BehindChain(r) ==
  /\ row[r].status \in {"release_requested", "redeem_submitted"} =>
       LET i == row[r].request IN
         /\ i \in DOMAIN txs /\ txs[i].kind = "request" /\ txs[i].redeem = r
         /\ txs[i].plan = row[r].plan /\ txs[i].deadline = row[r].deadline
         /\ txs[i].state \in {"mined", "approved", "rejected"}
  /\ row[r].status = "redeem_submitted" =>
       LET i == row[r].completion IN
         /\ i \in DOMAIN txs /\ txs[i].kind = "complete" /\ txs[i].redeem = r
         /\ txs[i].plan = row[r].plan /\ txs[i].request = row[r].request
  /\ row[r].status \in Done => <<r, row[r].plan>> \in consumed
  /\ row[r].status = "btc_broadcast" => published[row[r].plan] = r

LEMMA BehindEverywhere == RowBehindChain <=> \A r \in Redeems : BehindChain(r)
  BY DEF RowBehindChain, BehindChain

\* A row that stays, on chains that stay, is behind them as before.
LEMMA StaysBehind ==
  ASSUME NEW r \in Redeems, RowBehindChain, row'[r] = row[r],
         UNCHANGED <<txs, consumed, published>>
  PROVE  BehindChain(r)'
<1>1. BehindChain(r)
  BY BehindEverywhere
<1>2. /\ row'[r].status = row[r].status /\ row'[r].request = row[r].request
      /\ row'[r].completion = row[r].completion
      /\ row'[r].plan = row[r].plan /\ row'[r].deadline = row[r].deadline
  OBVIOUS
<1>3. ASSUME row'[r].status \in {"release_requested", "redeem_submitted"}
      PROVE  LET i == row'[r].request IN
               /\ i \in DOMAIN txs /\ txs[i].kind = "request" /\ txs[i].redeem = r
               /\ txs[i].plan = row'[r].plan /\ txs[i].deadline = row'[r].deadline
               /\ txs[i].state \in {"mined", "approved", "rejected"}
  BY <1>1, <1>2, <1>3 DEF BehindChain
<1>4. ASSUME row'[r].status = "redeem_submitted"
      PROVE  LET i == row'[r].completion IN
               /\ i \in DOMAIN txs /\ txs[i].kind = "complete" /\ txs[i].redeem = r
               /\ txs[i].plan = row'[r].plan /\ txs[i].request = row'[r].request
  BY <1>1, <1>2, <1>4 DEF BehindChain
<1>5. /\ row'[r].status \in Done => <<r, row'[r].plan>> \in consumed
      /\ row'[r].status = "btc_broadcast" => published[row'[r].plan] = r
  BY <1>1, <1>2 DEF BehindChain
<1> QED BY <1>3, <1>4, <1>5 DEF BehindChain

\* No promise is made, settled or paid.
Quiet == /\ \A r \in Redeems : row'[r].plan = row[r].plan
         /\ UNCHANGED <<consumed, published>>

Keeps == WorkerInv' /\ Forward /\ Quiet

LEMMA Ranks == \A s \in Statuses : Rank(s) \in 0 .. 6
  BY DEF Statuses, Rank

LEMMA RowTypes ==
  ASSUME WorkerInv
  PROVE  /\ row \in Rows
         /\ \A r \in Redeems : /\ row[r] \in Row /\ row[r].status \in Statuses
                               /\ row[r].plan \in Coins \cup {NoCoin}
                               /\ row[r].deadline \in Nat /\ row[r].request \in Nat
                               /\ row[r].completion \in Nat
                               /\ row[r].tx \in Coins \cup {NoCoin}
         /\ cursor \in Nat /\ head \in Nat /\ now \in Nat
         /\ job \in Job /\ job.id \in Nat /\ job.redeem \in Redeems \cup {Nobody}
         /\ txs \in Seq(Tx) /\ Len(txs) \in Nat /\ DOMAIN txs = 1 .. Len(txs)
         /\ \A i \in DOMAIN txs : txs[i] \in Tx /\ txs[i].redeem \in Redeems /\ txs[i].plan \in Coins
<1>1. /\ row \in Rows /\ \A r \in Redeems : row[r] \in Row
      /\ cursor \in Nat /\ head \in Nat /\ now \in 0 .. MaxTime /\ job \in Job /\ txs \in Seq(Tx)
  BY DEF WorkerInv, WorkerTypeOK, StoreTypeOK, ChainsTypeOK, Rows
<1>2. now \in Nat /\ job.id \in Nat /\ job.redeem \in Redeems \cup {Nobody}
  BY <1>1, ConstantTypes DEF Job
<1>3. \A r \in Redeems : /\ row[r].status \in Statuses /\ row[r].plan \in Coins \cup {NoCoin}
                         /\ row[r].deadline \in Nat /\ row[r].request \in Nat
                         /\ row[r].completion \in Nat /\ row[r].tx \in Coins \cup {NoCoin}
  BY <1>1 DEF Row
<1>4. \A i \in DOMAIN txs : txs[i] \in Tx /\ txs[i].redeem \in Redeems /\ txs[i].plan \in Coins
  BY <1>1, TxsElements DEF Tx
<1> QED BY <1>1, <1>2, <1>3, <1>4, TxsElements

\* Rows and settlement stay, and so does what was said of them.
LEMMA SameRows ==
  ASSUME WorkerInv, UNCHANGED <<row, txs, consumed, escrow, published>>,
         ~walletRestarted' => ~walletRestarted /\ reserved \subseteq reserved'
  PROVE  /\ RowsInOrder' /\ TxsFromRows' /\ SettledAsPlanned' /\ PlansLocked'
         /\ RowBehindChain' /\ PaidAsSettled' /\ CoinsReserved' /\ Forward /\ Quiet
<1>1. RowsInOrder' /\ TxsFromRows' /\ SettledAsPlanned'
  BY DEF WorkerInv, RowsInOrder, RowInOrder, TxsFromRows, SettledAsPlanned
<1>2. RowBehindChain'
  BY DEF WorkerInv, RowBehindChain
<1>3. PaidAsSettled' /\ CoinsReserved'
  BY DEF WorkerInv, PaidAsSettled, CoinsReserved
<1>4. PlansLocked'
  BY DEF WorkerInv, PlansLocked
<1>5. Forward /\ Quiet
  BY RowTypes, Ranks DEF Forward, ForwardAt, Quiet
<1> QED BY <1>1, <1>2, <1>3, <1>4, <1>5

\* The job goes to rest, or to a stage named for a row that stands where the
\* stage expects it.
LEMMA SameBurns ==
  ASSUME WorkerInv, UNCHANGED <<cursor, head, burnedIn>>, job'.at # "scan",
         \A r \in Redeems : row[r].status # "absent" => row'[r].status # "absent"
  PROVE  ScanCovers' /\ NoBurnSkipped'
  BY DEF WorkerInv, ScanCovers, NoBurnSkipped

LEMMA AtRest == ASSUME Rest PROVE job' = Idle /\ job' \in Job /\ job'.at = "idle" /\ JobAtRow'
  BY DEF Rest, Idle, Job, JobAtRow

LEMMA Awaiting ==
  ASSUME NEW at \in {"scan", "fund", "request", "submit", "wait", "send"},
         NEW r \in Redeems \cup {Nobody}, NEW id \in Nat, Await(at, r, id)
  PROVE  job' \in Job /\ job'.at = at /\ job'.redeem = r /\ job'.id = id
  BY DEF Await, Job

LEMMA ChainsSame == ASSUME ChainsTypeOK, UNCHANGED chainVars PROVE ChainsTypeOK'
  BY DEF ChainsTypeOK, chainVars

-----------------------------------------------------------------------------
(* The steps that leave rows and settlement alone.                          *)

LEMMA OnlyJobKeeps ==
  ASSUME WorkerInv, OnlyJob, job' \in Job, job'.at # "scan", JobAtRow' PROVE Keeps
<1>1. UNCHANGED chainVars /\ UNCHANGED <<row, cursor, logs>>
  BY DEF OnlyJob
<1>2. /\ UNCHANGED <<row, txs, consumed, escrow, published, reserved, walletRestarted, head,
                     burnedIn, cursor>>
  BY <1>1 DEF chainVars
<1>3. WorkerTypeOK'
  BY <1>1, ChainsSame DEF WorkerInv, WorkerTypeOK, StoreTypeOK
<1>4. ScanCovers' /\ NoBurnSkipped'
  BY <1>2, SameBurns
<1> QED BY <1>2, <1>3, <1>4, SameRows DEF WorkerInv, Keeps

LEMMA FailsKeep ==
  ASSUME WorkerInv, FundFails \/ RequestFails \/ SubmitFails \/ WaitFails \/ BroadcastFails
  PROVE  Keeps
<1>1. OnlyJob /\ Rest
  BY DEF FundFails, RequestFails, SubmitFails, WaitFails, BroadcastFails
<1> QED BY <1>1, AtRest, OnlyJobKeeps

LEMMA BeginsKeep ==
  ASSUME WorkerInv, NEW r \in Redeems, PrepareBegins(r) \/ SettleBegins(r) PROVE Keeps
<1>1. CASE PrepareBegins(r)
  <2>1. /\ OnlyJob /\ Await("fund", r, now) /\ row[r].status = "observed" /\ row' = row
    BY <1>1 DEF PrepareBegins, PreparationEligible, OnlyJob
  <2>2. job' \in Job /\ job'.at = "fund" /\ job'.redeem = r
    BY <2>1, Awaiting, RowTypes
  <2>3. JobAtRow'
    BY <2>1, <2>2 DEF JobAtRow
  <2> QED BY <2>1, <2>2, <2>3, OnlyJobKeeps
<1>2. CASE SettleBegins(r)
  <2>1. /\ OnlyJob /\ Await("submit", r, row[r].request) /\ row[r].status = "release_requested"
        /\ row' = row
    BY <1>2 DEF SettleBegins, Requested, OnlyJob
  <2>2. job' \in Job /\ job'.at = "submit" /\ job'.redeem = r /\ job'.id = row[r].request
    BY <2>1, Awaiting, RowTypes
  <2>3. JobAtRow'
    BY <2>1, <2>2 DEF JobAtRow
  <2> QED BY <2>1, <2>2, <2>3, OnlyJobKeeps
<1> QED BY <1>1, <1>2

LEMMA ScanBeginsKeeps ==
  ASSUME WorkerInv, ScanBegins PROVE Keeps
<1>1. /\ job = Idle /\ cursor + 1 <= head - FinalityBlocks
      /\ logs' = {<<r, fork[r]>> : r \in {s \in Redeems : burnedIn[s] \in cursor + 1 .. ScanLimit}}
      /\ Await("scan", Nobody, ScanLimit)
      /\ UNCHANGED chainVars /\ UNCHANGED storeVars
  BY DEF ScanBegins, ReadLogs
<1>2. ScanLimit \in Nat /\ cursor < ScanLimit /\ ScanLimit <= head
  BY <1>1, RowTypes, ConstantTypes DEF ScanLimit
<1>3. job' \in Job /\ job'.at = "scan" /\ job'.id = ScanLimit
  BY <1>1, <1>2, Awaiting
<1>4. /\ UNCHANGED <<row, txs, consumed, escrow, published, reserved, walletRestarted, head,
                     burnedIn, fork, cursor>>
  BY <1>1 DEF chainVars, storeVars
<1>5. fork \in [Redeems -> 0 .. 1]
  BY DEF WorkerInv, WorkerTypeOK, ChainsTypeOK
<1>6. logs' \subseteq Redeems \X (0 .. 1)
  BY <1>1, <1>5
<1>7. WorkerTypeOK'
  BY <1>1, <1>3, <1>4, <1>6, ChainsSame DEF WorkerInv, WorkerTypeOK, StoreTypeOK
<1>8. ScanCovers'
  <2>1. ASSUME NEW r \in Redeems, burnedIn'[r] \in cursor' + 1 .. job'.id
        PROVE \E f \in 0 .. 1 : <<r, f>> \in logs'
    BY <1>1, <1>3, <1>4, <1>5, <2>1
  <2> QED BY <1>2, <1>3, <1>4, <2>1 DEF ScanCovers, WorkerInv
<1>9. JobAtRow'
  BY <1>3 DEF JobAtRow
<1>10. NoBurnSkipped'
  BY <1>4 DEF WorkerInv, NoBurnSkipped
<1> QED BY <1>4, <1>7, <1>8, <1>9, <1>10, SameRows DEF WorkerInv, Keeps

LEMMA ScanEndsKeeps ==
  ASSUME WorkerInv, ScanEnds PROVE Keeps
<1>1. /\ job.at = "scan" /\ logs = {} /\ cursor' = job.id /\ Rest
      /\ UNCHANGED chainVars /\ UNCHANGED <<logs, row>>
  BY DEF ScanEnds, SetCursor, OnlyStore
<1>2. UNCHANGED <<row, txs, consumed, escrow, published, reserved, walletRestarted, head, burnedIn>>
  BY <1>1 DEF chainVars
<1>3. WorkerTypeOK'
  BY <1>1, AtRest, ChainsSame, RowTypes DEF WorkerInv, WorkerTypeOK, StoreTypeOK
<1>4. NoBurnSkipped'
  <2> SUFFICES ASSUME NEW r \in Redeems, burnedIn[r] \in 1 .. job.id
               PROVE  row[r].status # "absent"
    BY <1>1, <1>2 DEF NoBurnSkipped
  <2>1. CASE burnedIn[r] \in 1 .. cursor
    BY <2>1 DEF WorkerInv, NoBurnSkipped
  <2>2. CASE burnedIn[r] \in cursor + 1 .. job.id
    BY <1>1, <2>2 DEF WorkerInv, ScanCovers
  <2> QED BY <2>1, <2>2, RowTypes
<1>5. ScanCovers'
  BY <1>1, <1>2, AtRest DEF WorkerInv, ScanCovers
<1> QED BY <1>1, <1>2, <1>3, <1>4, <1>5, AtRest, SameRows DEF WorkerInv, Keeps

LEMMA FundLostKeeps ==
  ASSUME WorkerInv, FundLost PROVE Keeps
<1>1. PICK c \in FreeCoins : reserved' = reserved \cup {c}
  BY DEF FundLost
<1>2. /\ Fault /\ Rest
      /\ UNCHANGED <<now, head, burnedIn, fork, escrow, txs, consumed, published, confirmed,
                     walletRestarted, row, cursor, logs>>
  BY DEF FundLost, Burns, storeVars
<1>3. ChainsTypeOK'
  BY <1>1, <1>2, ConstantTypes DEF WorkerInv, WorkerTypeOK, ChainsTypeOK, Fault, FreeCoins
<1>4. WorkerTypeOK'
  BY <1>2, <1>3, AtRest DEF WorkerInv, WorkerTypeOK, StoreTypeOK
<1>5. ScanCovers' /\ NoBurnSkipped'
  BY <1>2, AtRest, SameBurns
<1> QED BY <1>1, <1>2, <1>4, <1>5, AtRest, SameRows DEF WorkerInv, Keeps

LEMMA InterruptKeeps ==
  ASSUME WorkerInv, Interrupt PROVE Keeps
<1>1. /\ Fault /\ Rest /\ logs' = {}
      /\ UNCHANGED <<now, head, burnedIn, fork, escrow, txs, consumed, published, confirmed,
                     reserved, walletRestarted, row, cursor>>
  BY DEF Interrupt, Burns, Bitcoin, storeVars
<1>2. WorkerTypeOK'
  BY <1>1, AtRest, ConstantTypes
     DEF WorkerInv, WorkerTypeOK, StoreTypeOK, ChainsTypeOK, Fault
<1>3. ScanCovers' /\ NoBurnSkipped'
  BY <1>1, AtRest, SameBurns
<1> QED BY <1>1, <1>2, <1>3, AtRest, SameRows DEF WorkerInv, Keeps

-----------------------------------------------------------------------------
(* The steps that write one row and keep its plan.                          *)

LEMMA MarkKeeps ==
  ASSUME WorkerInv, NEW r \in Redeems, row' \in Rows, OthersSame(r),
         row'[r].plan = row[r].plan, row'[r].deadline = row[r].deadline,
         row'[r].status # "absent", RowInOrder(r)', BehindChain(r)', ForwardAt(r),
         UNCHANGED chainVars, UNCHANGED <<cursor, logs>>,
         job' \in Job, job'.at # "scan", JobAtRow'
  PROVE  Keeps
<1>1. UNCHANGED <<head, burnedIn, escrow, txs, consumed, published, reserved, walletRestarted>>
  BY DEF chainVars
<1>2. \A s \in Redeems : row'[s].plan = row[s].plan /\ row'[s].deadline = row[s].deadline
  BY DEF OthersSame
<1>3. WorkerTypeOK'
  BY ChainsSame DEF WorkerInv, WorkerTypeOK, StoreTypeOK, Rows
<1>4. RowsInOrder'
  <2>1. ASSUME NEW s \in Redeems, s # r PROVE RowInOrder(s)'
    BY <2>1 DEF WorkerInv, RowsInOrder, RowInOrder, OthersSame
  <2> QED BY <2>1 DEF RowsInOrder
<1>5. TxsFromRows'
  BY <1>1, <1>2, RowTypes DEF WorkerInv, TxsFromRows
<1>6. SettledAsPlanned' /\ PaidAsSettled'
  <2>1. \A c \in Coins : published[c] \in Redeems \cup {Nobody}
    BY DEF WorkerInv, WorkerTypeOK, ChainsTypeOK
  <2> QED BY <1>1, <1>2, <2>1 DEF WorkerInv, SettledAsPlanned, PaidAsSettled
<1>7. PlansLocked' /\ CoinsReserved'
  BY <1>1, <1>2 DEF WorkerInv, PlansLocked, CoinsReserved
<1>8. ScanCovers' /\ NoBurnSkipped'
  <2>1. \A s \in Redeems : row[s].status # "absent" => row'[s].status # "absent"
    BY DEF OthersSame
  <2> QED BY <1>1, <2>1, SameBurns
<1>9. RowBehindChain'
  <2>1. ASSUME NEW s \in Redeems, s # r PROVE BehindChain(s)'
    <3>1. row'[s] = row[s]
      BY <2>1 DEF OthersSame
    <3> QED BY <1>1, <3>1, StaysBehind DEF WorkerInv
  <2>2. \A s \in Redeems : BehindChain(s)'
    BY <2>1
  <2> QED BY <2>2 DEF RowBehindChain, BehindChain
<1>10. Forward
  <2>1. ASSUME NEW s \in Redeems, s # r PROVE ForwardAt(s)
    <3>1. row'[s] = row[s]
      BY <2>1 DEF OthersSame
    <3>2. Rank(row[s].status) \in Int
      <4>1. row[s].status \in Statuses
        BY RowTypes
      <4> QED BY <4>1, Ranks
    <3> QED BY <3>1, <3>2 DEF ForwardAt
  <2> QED BY <2>1 DEF Forward
<1>11. Quiet
  BY <1>1, <1>2 DEF Quiet
<1> QED BY <1>3, <1>4, <1>5, <1>6, <1>7, <1>8, <1>9, <1>10, <1>11 DEF WorkerInv, Keeps

LEMMA GivesUpKeeps ==
  ASSUME WorkerInv, NEW r \in Redeems, job = Idle, MarkRedeemFailed(r), Rest, OnlyRow,
         row[r].status \in {"observed", "release_prepared", "release_requested", "redeem_submitted"}
  PROVE  Keeps
<1>1. /\ row' \in Rows /\ OthersSame(r) /\ row'[r].status = "failed"
      /\ row'[r].plan = row[r].plan /\ row'[r].deadline = row[r].deadline
      /\ row'[r].request = row[r].request /\ row'[r].tx = row[r].tx
  BY FailedRow, RowTypes
<1>2. RowInOrder(r)'
  BY <1>1 DEF WorkerInv, RowsInOrder, RowInOrder, Committed
<1>3. BehindChain(r)'
  BY <1>1 DEF BehindChain, Done
<1>4. ForwardAt(r)
  BY <1>1 DEF ForwardAt, Rank
<1> QED BY <1>1, <1>2, <1>3, <1>4, AtRest, MarkKeeps DEF OnlyRow, OnlyStore

LEMMA CompletesKeeps ==
  ASSUME WorkerInv, NEW r \in Redeems, NEW completion \in Nat,
         MarkRedeemCompleted(r, completion), Rest, OnlyRow,
         row[r].status \in {"release_requested", "redeem_submitted"},
         <<r, row[r].plan>> \in consumed
  PROVE  Keeps
<1>1. /\ row' \in Rows /\ OthersSame(r) /\ row'[r].status = "redeem_completed"
      /\ row'[r].plan = row[r].plan /\ row'[r].deadline = row[r].deadline
      /\ row'[r].request = row[r].request /\ row'[r].tx = row[r].tx
  BY CompletedRow, RowTypes
<1>2. RowInOrder(r)'
  BY <1>1 DEF WorkerInv, RowsInOrder, RowInOrder, Committed
<1>3. consumed' = consumed
  BY DEF OnlyRow, OnlyStore, chainVars
<1>4. BehindChain(r)'
  BY <1>1, <1>3 DEF BehindChain, Done
<1>5. ForwardAt(r)
  BY <1>1 DEF ForwardAt, Rank
<1> QED BY <1>1, <1>2, <1>4, <1>5, AtRest, MarkKeeps DEF OnlyRow, OnlyStore

\* A completion of this redeem that was mined settled it for the row's plan.
LEMMA MinedMeansSettled ==
  ASSUME WorkerInv, NEW r \in Redeems, row[r].status = "redeem_submitted",
         txs[row[r].completion].state = "mined"
  PROVE  <<r, row[r].plan>> \in consumed
<1>1. BehindChain(r)
  BY BehindEverywhere DEF WorkerInv
<1>2. PICK i \in DOMAIN txs : /\ i = row[r].completion /\ txs[i].kind = "complete"
                              /\ txs[i].redeem = r /\ txs[i].plan = row[r].plan
  BY <1>1 DEF BehindChain
<1> QED BY <1>2 DEF WorkerInv, TxsFromRows

LEMMA MarksKeep ==
  ASSUME WorkerInv, NEW r \in Redeems,
         \/ PrepareRejects(r) \/ RequestExpires(r)
         \/ SettleExpires(r) \/ SettleRejected(r) \/ SettleConsumed(r) \/ SettleReceipt(r)
  PROVE  Keeps
<1>1. CASE PrepareRejects(r)
  BY <1>1, GivesUpKeeps DEF PrepareRejects, PreparationEligible
<1>2. CASE RequestExpires(r)
  BY <1>2, GivesUpKeeps DEF RequestExpires
<1>3. CASE SettleExpires(r)
  BY <1>3, GivesUpKeeps DEF SettleExpires, Requested
<1>4. CASE SettleRejected(r)
  BY <1>4, GivesUpKeeps DEF SettleRejected, Requested
<1>5. CASE SettleConsumed(r)
  <2>1. /\ row[r].status = "release_requested" /\ escrow[r] = "CONSUMED"
        /\ MarkRedeemCompleted(r, 0) /\ Rest /\ OnlyRow
    BY <1>5 DEF SettleConsumed, Requested
  <2>2. <<r, row[r].plan>> \in consumed
    BY <2>1 DEF WorkerInv, SettledAsPlanned
  <2> QED BY <2>1, <2>2, CompletesKeeps
<1>6. CASE SettleReceipt(r)
  <2>1. job = Idle /\ row[r].status = "redeem_submitted" /\ Rest /\ OnlyRow
    BY <1>6 DEF SettleReceipt
  <2>2. CASE txs[row[r].completion].state = "mined" /\ MarkRedeemCompleted(r, row[r].completion)
    BY <2>1, <2>2, MinedMeansSettled, CompletesKeeps, RowTypes
  <2>3. CASE MarkRedeemFailed(r)
    BY <2>1, <2>3, GivesUpKeeps
  <2> QED BY <1>6, <2>2, <2>3 DEF SettleReceipt
<1> QED BY <1>1, <1>2, <1>3, <1>4, <1>5, <1>6

LEMMA WaitEndsKeeps ==
  ASSUME WorkerInv, WaitEnds PROVE Keeps
<1>1. PICK r \in Redeems : r = job.redeem
  BY DEF WorkerInv, JobAtRow, WaitEnds
<1>2. row[r].status = "redeem_submitted" /\ row[r].completion = job.id
  BY <1>1 DEF WorkerInv, JobAtRow, WaitEnds
<1>3. <<r, row[r].plan>> \in consumed
  BY <1>2, MinedMeansSettled DEF WaitEnds
<1> QED BY <1>1, <1>2, <1>3, CompletesKeeps, RowTypes DEF WaitEnds

LEMMA RequestEndsKeeps ==
  ASSUME WorkerInv, RequestEnds PROVE Keeps
<1>1. PICK r \in Redeems : r = job.redeem
  BY DEF WorkerInv, JobAtRow, RequestEnds
<1>2. PICK i \in DOMAIN txs : i = job.id
  BY DEF WorkerInv, JobAtRow, RequestEnds
<1>3. /\ row[r].status = "release_prepared" /\ txs[i].kind = "request" /\ txs[i].redeem = r
      /\ txs[i].state \in {"mined", "approved", "rejected"} /\ MarkReleaseRequested(r, i)
      /\ Rest /\ UNCHANGED chainVars /\ UNCHANGED <<cursor, logs>>
  BY <1>1, <1>2 DEF WorkerInv, JobAtRow, RequestEnds, OnlyRow, OnlyStore
<1>4. txs[i].plan = row[r].plan /\ txs[i].deadline = row[r].deadline
  BY <1>3 DEF WorkerInv, TxsFromRows
<1>5. i \in Nat
  BY RowTypes
<1>6. /\ row' \in Rows /\ OthersSame(r)
      /\ row'[r].status = "release_requested" /\ row'[r].request = i
      /\ row'[r].plan = row[r].plan /\ row'[r].deadline = row[r].deadline
      /\ row'[r].completion = row[r].completion /\ row'[r].tx = row[r].tx
  BY <1>3, <1>5, RequestedRow, RowTypes
<1>7. RowInOrder(r)
  BY DEF WorkerInv, RowsInOrder
<1>8. RowInOrder(r)'
  BY <1>3, <1>6, <1>7 DEF RowInOrder, Committed
<1>9. txs' = txs
  BY <1>3 DEF chainVars
<1>10. BehindChain(r)'
  BY <1>3, <1>4, <1>6, <1>9 DEF BehindChain, Done
<1>11. ForwardAt(r)
  BY <1>3, <1>6, <1>7 DEF ForwardAt, Rank, RowInOrder
<1> QED BY <1>3, <1>6, <1>8, <1>10, <1>11, AtRest, MarkKeeps

LEMMA BroadcastBeginsKeeps ==
  ASSUME WorkerInv, NEW r \in Redeems, BroadcastBegins(r) PROVE Keeps
<1>1. /\ row[r].status = "redeem_completed" /\ Await("send", r, 0)
      /\ UNCHANGED chainVars /\ UNCHANGED <<cursor, logs>>
  BY DEF BroadcastBegins, BroadcastEligible, OnlyRow, OnlyStore
<1>2. job' \in Job /\ job'.at = "send" /\ job'.redeem = r
  BY <1>1, Awaiting
<1>3. RowInOrder(r) /\ row[r].plan \in Coins
  BY <1>1 DEF WorkerInv, RowsInOrder, RowInOrder, Committed
<1>4. CASE row[r].tx = NoCoin
  <2>1. MarkBitcoinFinalized(r, row[r].plan)
    BY <1>4 DEF BroadcastBegins
  <2>2. /\ row' \in Rows /\ OthersSame(r)
        /\ row'[r].status = row[r].status /\ row'[r].tx = row[r].plan
        /\ row'[r].plan = row[r].plan /\ row'[r].deadline = row[r].deadline
        /\ row'[r].request = row[r].request
    BY <1>3, <2>1, FinalizedRow, RowTypes
  <2>3. RowInOrder(r)'
    BY <1>1, <1>3, <2>2 DEF RowInOrder
  <2>4. BehindChain(r)
    BY BehindEverywhere DEF WorkerInv
  <2>5. consumed' = consumed
    BY <1>1 DEF chainVars
  <2>6. BehindChain(r)'
    BY <1>1, <2>2, <2>4, <2>5 DEF BehindChain, Done
  <2>7. ForwardAt(r)
    BY <1>1, <1>4, <2>2 DEF ForwardAt, Rank
  <2>8. JobAtRow'
    BY <1>1, <1>2, <1>3, <2>2 DEF JobAtRow
  <2> QED BY <1>1, <1>2, <2>2, <2>3, <2>6, <2>7, <2>8, MarkKeeps
<1>5. CASE row[r].tx # NoCoin
  <2>1. OnlyJob
    BY <1>1, <1>5 DEF BroadcastBegins, OnlyJob
  <2>2. row[r].tx \in Coins
    BY <1>5, RowTypes
  <2>3. row' = row
    BY <2>1 DEF OnlyJob
  <2>4. JobAtRow'
    BY <1>1, <1>2, <2>2, <2>3 DEF JobAtRow
  <2> QED BY <1>2, <2>1, <2>4, OnlyJobKeeps
<1> QED BY <1>4, <1>5

LEMMA ScanUpsertsKeeps ==
  ASSUME WorkerInv, ScanUpserts PROVE Keeps
<1>1. PICK log \in logs : UpsertRedeemObserved(log[1], log[2]) /\ logs' = logs \ {log}
  BY DEF ScanUpserts
<1>2. logs \subseteq Redeems \X (0 .. 1)
  BY DEF WorkerInv, WorkerTypeOK
<1>3. PICK r \in Redeems, f \in 0 .. 1 : log = <<r, f>>
  BY <1>1, <1>2
<1>4. /\ job.at = "scan" /\ UNCHANGED chainVars /\ UNCHANGED <<cursor, job>>
      /\ UpsertRedeemObserved(r, f)
  BY <1>1, <1>3 DEF ScanUpserts
<1>5. /\ row' \in Rows /\ OthersSame(r)
      /\ row'[r].status = IF row[r].status = "absent" THEN "observed" ELSE row[r].status
      /\ row'[r].plan = row[r].plan /\ row'[r].deadline = row[r].deadline
      /\ row'[r].request = row[r].request /\ row'[r].completion = row[r].completion
      /\ row'[r].tx = row[r].tx
  BY <1>4, UpsertRow, RowTypes
<1>6. UNCHANGED <<head, burnedIn, escrow, txs, consumed, published, reserved, walletRestarted>>
  BY <1>4 DEF chainVars
<1>7. \A s \in Redeems : row'[s].plan = row[s].plan /\ row'[s].deadline = row[s].deadline
  BY <1>5 DEF OthersSame
<1>8. WorkerTypeOK'
  BY <1>1, <1>4, <1>5, ChainsSame DEF WorkerInv, WorkerTypeOK, StoreTypeOK, Rows
<1>9. RowsInOrder'
  <2>1. ASSUME NEW s \in Redeems PROVE RowInOrder(s)'
    <3>1. RowInOrder(s)
      BY DEF WorkerInv, RowsInOrder
    <3>2. CASE s = r
      BY <1>5, <3>1, <3>2 DEF RowInOrder, Committed
    <3>3. CASE s # r
      BY <1>5, <3>1, <3>3 DEF RowInOrder, OthersSame
    <3> QED BY <3>2, <3>3
  <2> QED BY <2>1 DEF RowsInOrder
<1>10. TxsFromRows'
  BY <1>6, <1>7, RowTypes DEF WorkerInv, TxsFromRows
<1>11. SettledAsPlanned' /\ PaidAsSettled'
  <2>1. \A c \in Coins : published[c] \in Redeems \cup {Nobody}
    BY DEF WorkerInv, WorkerTypeOK, ChainsTypeOK
  <2> QED BY <1>6, <1>7, <2>1 DEF WorkerInv, SettledAsPlanned, PaidAsSettled
<1>12. PlansLocked' /\ CoinsReserved'
  BY <1>6, <1>7 DEF WorkerInv, PlansLocked, CoinsReserved
<1>13. RowBehindChain'
  <2>1. ASSUME NEW s \in Redeems PROVE BehindChain(s)'
    <3>1. BehindChain(s)
      BY BehindEverywhere DEF WorkerInv
    <3>2. CASE s = r
      BY <1>5, <1>6, <3>1, <3>2 DEF BehindChain, Done
    <3>3. CASE s # r
      BY <1>5, <1>6, <3>1, <3>3 DEF BehindChain, OthersSame
    <3> QED BY <3>2, <3>3
  <2> QED BY <2>1 DEF RowBehindChain, BehindChain
<1>14. \A s \in Redeems : row[s].status # "absent" => row'[s].status # "absent"
  BY <1>5 DEF OthersSame
<1>15. row'[r].status # "absent"
  BY <1>5
<1>16. NoBurnSkipped'
  BY <1>4, <1>6, <1>14 DEF WorkerInv, NoBurnSkipped
<1>17. ScanCovers'
  <2>1. ASSUME NEW s \in Redeems, burnedIn[s] \in cursor + 1 .. job.id, row'[s].status = "absent"
        PROVE \E g \in 0 .. 1 : <<s, g>> \in logs'
    <3>1. s # r /\ row[s].status = "absent"
      BY <1>14, <1>15, <2>1
    <3>2. PICK g \in 0 .. 1 : <<s, g>> \in logs
      BY <1>4, <2>1, <3>1 DEF WorkerInv, ScanCovers
    <3> QED BY <1>1, <1>3, <3>1, <3>2
  <2> QED BY <1>4, <1>6, <2>1 DEF WorkerInv, ScanCovers
<1>18. JobAtRow'
  BY <1>4 DEF JobAtRow
<1>19. Forward
  <2>1. ASSUME NEW s \in Redeems PROVE ForwardAt(s)
    <3>1. Rank(row[s].status) \in Int
      BY RowTypes, Ranks
    <3>2. CASE s = r
      BY <1>5, <3>1, <3>2 DEF ForwardAt, Rank
    <3>3. CASE s # r
      BY <1>5, <3>1, <3>3 DEF ForwardAt, OthersSame
    <3> QED BY <3>2, <3>3
  <2> QED BY <2>1 DEF Forward
<1>20. Quiet
  BY <1>6, <1>7 DEF Quiet
<1> QED BY <1>8, <1>9, <1>10, <1>11, <1>12, <1>13, <1>16, <1>17, <1>18, <1>19, <1>20
        DEF WorkerInv, Keeps

-----------------------------------------------------------------------------
(* The steps that send a transaction.                                       *)

LEMMA Sent ==
  ASSUME WorkerInv, NEW r \in Redeems, row[r].plan \in Coins,
         NEW kind \in {"request", "complete"}, NEW request \in Nat, Send(kind, r, request)
  PROVE  /\ txs' \in Seq(Tx) /\ Len(txs') = Len(txs) + 1 /\ DOMAIN txs' = 1 .. Len(txs) + 1
         /\ \A i \in DOMAIN txs : i \in DOMAIN txs' /\ txs'[i] = txs[i]
         /\ LET t == txs'[Len(txs) + 1] IN
              /\ t.kind = kind /\ t.redeem = r /\ t.plan = row[r].plan
              /\ t.deadline = row[r].deadline /\ t.request = request /\ t.state = "pending"
<1> DEFINE t == [kind |-> kind, redeem |-> r, plan |-> row[r].plan,
                 deadline |-> row[r].deadline, request |-> request, state |-> "pending"]
<1>1. t \in Tx
  BY RowTypes DEF Tx
<1>2. txs' = Append(txs, t) /\ txs \in Seq(Tx) /\ Len(txs) \in Nat /\ DOMAIN txs = 1 .. Len(txs)
  BY RowTypes DEF Send
<1> HIDE DEF t
<1>3. /\ txs' \in Seq(Tx) /\ Len(txs') = Len(txs) + 1
      /\ \A i \in 1 .. Len(txs) : txs'[i] = txs[i]
      /\ txs'[Len(txs) + 1] = t
  BY <1>1, <1>2, AppendProperties
<1>4. DOMAIN txs' = 1 .. Len(txs) + 1
  BY <1>3, LenProperties
<1> QED BY <1>2, <1>3, <1>4 DEF t

LEMMA SendKeeps ==
  ASSUME WorkerInv, NEW r \in Redeems, row[r].plan \in Coins,
         NEW kind \in {"request", "complete"}, NEW request \in Nat, Send(kind, r, request),
         UNCHANGED <<now, Burns, escrow, consumed, Bitcoin, cursor, logs>>,
         faults' \in 0 .. MaxFaults,
         row' \in Rows, OthersSame(r),
         row'[r].plan = row[r].plan, row'[r].deadline = row[r].deadline,
         row'[r].status # "absent", RowInOrder(r)', BehindChain(r)', ForwardAt(r),
         job' \in Job, job'.at # "scan", JobAtRow'
  PROVE  Keeps
<1>1. UNCHANGED <<now, head, burnedIn, fork, escrow, consumed, published, confirmed, reserved,
                  walletRestarted, cursor, logs>>
  BY DEF Burns, Bitcoin
<1>2. \A s \in Redeems : row'[s].plan = row[s].plan /\ row'[s].deadline = row[s].deadline
  BY DEF OthersSame
<1>3. /\ txs' \in Seq(Tx) /\ DOMAIN txs = 1 .. Len(txs) /\ DOMAIN txs' = 1 .. Len(txs) + 1
      /\ Len(txs) \in Nat
      /\ \A i \in DOMAIN txs : i \in DOMAIN txs' /\ txs'[i] = txs[i]
  BY Sent, RowTypes
<1>4. LET t == txs'[Len(txs) + 1] IN
        /\ t.kind = kind /\ t.redeem = r /\ t.plan = row[r].plan
        /\ t.deadline = row[r].deadline /\ t.request = request /\ t.state = "pending"
  BY Sent
<1>5. WorkerTypeOK'
  BY <1>1, <1>3 DEF WorkerInv, WorkerTypeOK, ChainsTypeOK, StoreTypeOK, Rows
<1>6. RowsInOrder'
  <2>1. ASSUME NEW s \in Redeems, s # r PROVE RowInOrder(s)'
    BY <2>1 DEF WorkerInv, RowsInOrder, RowInOrder, OthersSame
  <2> QED BY <2>1 DEF RowsInOrder
<1>7. TxsFromRows'
  <2>1. ASSUME NEW i \in DOMAIN txs'
        PROVE /\ txs'[i].plan = row'[txs'[i].redeem].plan
              /\ txs'[i].deadline = row'[txs'[i].redeem].deadline
              /\ txs'[i].kind = "complete" /\ txs'[i].state = "mined"
                   => <<txs'[i].redeem, txs'[i].plan>> \in consumed'
    <3>1. CASE i \in DOMAIN txs
      BY <1>1, <1>2, <1>3, <3>1, RowTypes DEF WorkerInv, TxsFromRows
    <3>2. CASE i = Len(txs) + 1
      BY <1>2, <1>4, <3>2
    <3> QED BY <1>3, <3>1, <3>2
  <2> QED BY <2>1 DEF TxsFromRows
<1>8. SettledAsPlanned' /\ PaidAsSettled'
  <2>1. \A c \in Coins : published[c] \in Redeems \cup {Nobody}
    BY DEF WorkerInv, WorkerTypeOK, ChainsTypeOK
  <2> QED BY <1>1, <1>2, <2>1 DEF WorkerInv, SettledAsPlanned, PaidAsSettled
<1>9. PlansLocked' /\ CoinsReserved'
  BY <1>1, <1>2 DEF WorkerInv, PlansLocked, CoinsReserved
<1>10. ScanCovers' /\ NoBurnSkipped'
  <2>1. \A s \in Redeems : row[s].status # "absent" => row'[s].status # "absent"
    BY DEF OthersSame
  <2> QED BY <1>1, <2>1, SameBurns
<1>11. RowBehindChain'
  <2>1. ASSUME NEW s \in Redeems, s # r PROVE BehindChain(s)'
    <3>1. BehindChain(s) /\ row'[s] = row[s]
      BY <2>1, BehindEverywhere DEF WorkerInv, OthersSame
    <3> QED BY <1>1, <1>3, <3>1 DEF BehindChain
  <2>2. \A s \in Redeems : BehindChain(s)'
    BY <2>1
  <2> QED BY <2>2 DEF RowBehindChain, BehindChain
<1>12. Forward
  <2>1. ASSUME NEW s \in Redeems, s # r PROVE ForwardAt(s)
    <3>1. row'[s] = row[s]
      BY <2>1 DEF OthersSame
    <3>2. Rank(row[s].status) \in Int
      BY RowTypes, Ranks
    <3> QED BY <3>1, <3>2 DEF ForwardAt
  <2> QED BY <2>1 DEF Forward
<1>13. Quiet
  BY <1>1, <1>2 DEF Quiet
<1> QED BY <1>5, <1>6, <1>7, <1>8, <1>9, <1>10, <1>11, <1>12, <1>13 DEF WorkerInv, Keeps

LEMMA RequestBeginsKeeps ==
  ASSUME WorkerInv, NEW r \in Redeems, RequestBegins(r) PROVE Keeps
<1>1. /\ row[r].status = "release_prepared" /\ Send("request", r, 0)
      /\ Await("request", r, Len(txs')) /\ UNCHANGED <<row, faults>>
      /\ UNCHANGED <<now, Burns, escrow, consumed, Bitcoin, cursor, logs>>
  BY DEF RequestBegins, OnlySent
<1>2. RowInOrder(r) /\ row[r].plan \in Coins
  BY <1>1 DEF WorkerInv, RowsInOrder, RowInOrder, Committed
<1>3. /\ txs' \in Seq(Tx) /\ Len(txs') = Len(txs) + 1 /\ Len(txs) \in Nat
      /\ DOMAIN txs' = 1 .. Len(txs) + 1
      /\ txs'[Len(txs) + 1].kind = "request" /\ txs'[Len(txs) + 1].redeem = r
  BY <1>1, <1>2, Sent, RowTypes
<1>4. job' \in Job /\ job'.at = "request" /\ job'.redeem = r /\ job'.id = Len(txs) + 1
  BY <1>1, <1>3, Awaiting
<1>5. JobAtRow'
  BY <1>1, <1>3, <1>4 DEF JobAtRow
<1>6. RowInOrder(r)' /\ BehindChain(r)'
  BY <1>1, <1>2 DEF RowInOrder, BehindChain, Done
<1>7. row' \in Rows /\ OthersSame(r) /\ faults' \in 0 .. MaxFaults
  BY <1>1, RowTypes DEF OthersSame, WorkerInv, WorkerTypeOK, ChainsTypeOK
<1>8. ForwardAt(r)
  BY <1>1 DEF ForwardAt, Rank
<1> QED BY <1>1, <1>2, <1>4, <1>5, <1>6, <1>7, <1>8, SendKeeps

LEMMA SubmitKeeps ==
  ASSUME WorkerInv, Submit PROVE Keeps
<1>1. PICK r \in Redeems : r = job.redeem
  BY DEF WorkerInv, JobAtRow, Submit
<1>2. PICK q \in Nat : q = job.id
  BY RowTypes
<1>3. /\ row[r].status = "release_requested" /\ q = row[r].request
      /\ Send("complete", r, q) /\ MarkRedeemSubmitted(r, Len(txs')) /\ Await("wait", r, Len(txs'))
      /\ UNCHANGED faults /\ UNCHANGED <<now, Burns, escrow, consumed, Bitcoin, cursor, logs>>
  BY <1>1, <1>2 DEF WorkerInv, JobAtRow, Submit, OnlySent
<1>4. RowInOrder(r) /\ row[r].plan \in Coins
  BY <1>3 DEF WorkerInv, RowsInOrder, RowInOrder, Committed
<1>5. /\ txs' \in Seq(Tx) /\ Len(txs') = Len(txs) + 1 /\ Len(txs) \in Nat
      /\ DOMAIN txs' = 1 .. Len(txs) + 1
      /\ \A i \in DOMAIN txs : i \in DOMAIN txs' /\ txs'[i] = txs[i]
      /\ LET t == txs'[Len(txs) + 1] IN
           t.kind = "complete" /\ t.redeem = r /\ t.plan = row[r].plan /\ t.request = q
  BY <1>3, <1>4, Sent, RowTypes
<1>6. job' \in Job /\ job'.at = "wait" /\ job'.redeem = r /\ job'.id = Len(txs) + 1
  BY <1>3, <1>5, Awaiting
<1>7. /\ row' \in Rows /\ OthersSame(r)
      /\ row'[r].status = "redeem_submitted" /\ row'[r].completion = Len(txs) + 1
      /\ row'[r].plan = row[r].plan /\ row'[r].deadline = row[r].deadline
      /\ row'[r].request = row[r].request /\ row'[r].tx = row[r].tx
  BY <1>3, <1>5, SubmittedRow, RowTypes
<1>8. JobAtRow'
  BY <1>6, <1>7 DEF JobAtRow
<1>9. RowInOrder(r)'
  BY <1>4, <1>7 DEF RowInOrder, Committed
<1>10. BehindChain(r)
  BY BehindEverywhere DEF WorkerInv
<1>11. BehindChain(r)'
  <2>1. /\ q \in DOMAIN txs /\ txs[q].kind = "request" /\ txs[q].redeem = r
        /\ txs[q].plan = row[r].plan /\ txs[q].deadline = row[r].deadline
        /\ txs[q].state \in {"mined", "approved", "rejected"}
    BY <1>3, <1>10 DEF BehindChain
  <2>2. q \in DOMAIN txs' /\ txs'[q] = txs[q] /\ row'[r].request = q
    BY <1>3, <1>5, <1>7, <2>1
  <2> QED BY <1>3, <1>5, <1>7, <2>1, <2>2 DEF BehindChain, Done
<1>12. ForwardAt(r)
  BY <1>3, <1>7 DEF ForwardAt, Rank
<1>13. faults' \in 0 .. MaxFaults
  BY <1>3 DEF WorkerInv, WorkerTypeOK, ChainsTypeOK
<1> QED BY <1>3, <1>4, <1>6, <1>7, <1>8, <1>9, <1>11, <1>12, <1>13, SendKeeps

LEMMA SubmitLostKeeps ==
  ASSUME WorkerInv, SubmitLost PROVE Keeps
<1>1. PICK r \in Redeems : r = job.redeem
  BY DEF WorkerInv, JobAtRow, SubmitLost
<1>2. PICK q \in Nat : q = job.id
  BY RowTypes
<1>3. /\ row[r].status = "release_requested" /\ q = row[r].request
      /\ Send("complete", r, q) /\ Rest /\ UNCHANGED row /\ Fault
      /\ UNCHANGED <<now, Burns, escrow, consumed, Bitcoin, cursor, logs>>
  BY <1>1, <1>2 DEF WorkerInv, JobAtRow, SubmitLost, OnlySent
<1>4. RowInOrder(r) /\ row[r].plan \in Coins /\ BehindChain(r)
  BY <1>3, BehindEverywhere DEF WorkerInv, RowsInOrder, RowInOrder, Committed
<1>5. \A i \in DOMAIN txs : i \in DOMAIN txs' /\ txs'[i] = txs[i]
  BY <1>3, <1>4, Sent
<1>6. RowInOrder(r)' /\ BehindChain(r)'
  BY <1>3, <1>4, <1>5 DEF RowInOrder, BehindChain, Done
<1>7. row' \in Rows /\ OthersSame(r) /\ faults' \in 0 .. MaxFaults
  BY <1>3, RowTypes, ConstantTypes DEF OthersSame, WorkerInv, WorkerTypeOK, ChainsTypeOK, Fault
<1>8. ForwardAt(r)
  BY <1>3 DEF ForwardAt, Rank
<1> QED BY <1>3, <1>4, <1>6, <1>7, <1>8, AtRest, SendKeeps

-----------------------------------------------------------------------------
(* The steps that promise, settle and pay.                                  *)

\* Funding commits one row to a coin.
FundKeeps ==
  /\ WorkerInv' /\ Forward /\ UNCHANGED <<consumed, published>>
  /\ \E r \in Redeems, c \in Coins :
       /\ row[r].plan = NoCoin /\ row'[r].plan = c
       /\ \A s \in Redeems : s # r => row'[s].plan = row[s].plan

LEMMA FundPromises ==
  ASSUME WorkerInv, Fund PROVE FundKeeps
<1>1. PICK r \in Redeems : r = job.redeem
  BY DEF WorkerInv, JobAtRow, Fund
<1> DEFINE deadline == job.id + AuthorizationTtl
<1>2. PICK c \in FreeCoins :
        /\ reserved' = reserved \cup {c}
        /\ MarkRedeemPrepared(r, c, deadline,
                              IF CustodyController = "chainlink-don" THEN c ELSE NoCoin)
  BY <1>1 DEF Fund
<1>3. /\ row[r].status = "observed" /\ Rest
      /\ UNCHANGED <<now, head, burnedIn, fork, escrow, txs, consumed, published, confirmed,
                     walletRestarted, faults, cursor, logs>>
  BY <1>1 DEF WorkerInv, JobAtRow, Fund, Burns
<1>4. c \in Coins /\ c \notin reserved /\ c # NoCoin
  BY <1>2, ConstantTypes DEF FreeCoins
<1>5. PICK tx \in Coins \cup {NoCoin} : tx \in {c, NoCoin} /\ MarkRedeemPrepared(r, c, deadline, tx)
  BY <1>2, <1>4
<1>6. deadline \in Nat
  BY RowTypes, ConstantTypes
<1> HIDE DEF deadline
<1>7. /\ row' \in Rows /\ OthersSame(r) /\ row'[r].status = "release_prepared"
      /\ row'[r].plan = c /\ row'[r].tx = tx /\ row'[r].request = row[r].request
  BY <1>4, <1>5, <1>6, PreparedRow, RowTypes
<1>8. RowInOrder(r) /\ row[r].plan = NoCoin /\ row[r].request = 0 /\ row[r].tx = NoCoin
  BY <1>3 DEF WorkerInv, RowsInOrder, RowInOrder
<1>9. \A i \in DOMAIN txs : txs[i].redeem # r
  <2> SUFFICES ASSUME NEW i \in DOMAIN txs, txs[i].redeem = r PROVE FALSE
    OBVIOUS
  <2>1. txs[i].plan = row[txs[i].redeem].plan
    BY DEF WorkerInv, TxsFromRows
  <2>2. txs[i].plan \in Coins
    BY RowTypes
  <2> QED BY <1>8, <2>1, <2>2, ConstantTypes
<1>10. \A d \in Coins : <<r, d>> \notin consumed /\ published[d] # r
  BY <1>8, ConstantTypes DEF WorkerInv, SettledAsPlanned, PaidAsSettled
<1>11. escrow[r] # "CONSUMED"
  <2>1. consumed \subseteq Redeems \X Coins
    BY DEF WorkerInv, WorkerTypeOK, ChainsTypeOK
  <2>2. <<r, NoCoin>> \notin consumed
    BY <2>1, ConstantTypes
  <2> QED BY <1>8, <2>2 DEF WorkerInv, SettledAsPlanned
<1>12. WorkerTypeOK'
  BY <1>2, <1>3, <1>4, <1>7, AtRest
     DEF WorkerInv, WorkerTypeOK, ChainsTypeOK, StoreTypeOK, Rows
<1>13. RowsInOrder'
  <2>1. ASSUME NEW s \in Redeems, s # r PROVE RowInOrder(s)'
    BY <1>7, <2>1 DEF WorkerInv, RowsInOrder, RowInOrder, OthersSame
  <2>2. RowInOrder(r)'
    BY <1>4, <1>5, <1>7, <1>8 DEF RowInOrder
  <2> QED BY <2>1, <2>2 DEF RowsInOrder
<1>14. TxsFromRows'
  BY <1>3, <1>7, <1>9, RowTypes DEF WorkerInv, TxsFromRows, OthersSame
<1>15. SettledAsPlanned'
  BY <1>3, <1>7, <1>10, <1>11 DEF WorkerInv, SettledAsPlanned, OthersSame
<1>16. PaidAsSettled'
  <2>1. \A d \in Coins : published[d] \in Redeems \cup {Nobody}
    BY DEF WorkerInv, WorkerTypeOK, ChainsTypeOK
  <2> QED BY <1>3, <1>7, <1>10, <2>1 DEF WorkerInv, PaidAsSettled, OthersSame
<1>17. PlansLocked'
  BY <1>2, <1>3, <1>7 DEF WorkerInv, PlansLocked, OthersSame
<1>18. CoinsReserved'
  <2> SUFFICES ASSUME ~walletRestarted, NEW s \in Redeems, NEW u \in Redeems, s # u,
                      row'[s].plan # NoCoin
               PROVE  row'[s].plan # row'[u].plan
    BY <1>3 DEF CoinsReserved
  <2>1. \A w \in Redeems : w # r => row'[w].plan = row[w].plan
    BY <1>7 DEF OthersSame
  <2>2. \A w \in Redeems : row[w].plan # NoCoin => row[w].plan \in reserved
    BY DEF WorkerInv, PlansLocked
  <2>3. CASE s # r /\ u # r
    BY <2>1, <2>3 DEF WorkerInv, CoinsReserved
  <2>4. CASE s = r
    BY <1>4, <1>7, <2>1, <2>2, <2>4
  <2>5. CASE u = r
    BY <1>4, <1>7, <2>1, <2>2, <2>5
  <2> QED BY <2>3, <2>4, <2>5
<1>19. ScanCovers' /\ NoBurnSkipped'
  <2>1. \A s \in Redeems : row[s].status # "absent" => row'[s].status # "absent"
    BY <1>7 DEF OthersSame
  <2> QED BY <1>3, <2>1, AtRest, SameBurns
<1>20. RowBehindChain'
  <2>1. ASSUME NEW s \in Redeems, s # r PROVE BehindChain(s)'
    <3>1. row'[s] = row[s]
      BY <1>7, <2>1 DEF OthersSame
    <3> QED BY <1>3, <3>1, StaysBehind DEF WorkerInv
  <2>2. BehindChain(r)'
    BY <1>7 DEF BehindChain, Done
  <2>3. \A s \in Redeems : BehindChain(s)'
    BY <2>1, <2>2
  <2> QED BY <2>3 DEF RowBehindChain, BehindChain
<1>21. Forward
  <2>1. ASSUME NEW s \in Redeems, s # r PROVE ForwardAt(s)
    <3>1. row'[s] = row[s]
      BY <1>7, <2>1 DEF OthersSame
    <3>2. Rank(row[s].status) \in Int
      BY RowTypes, Ranks
    <3> QED BY <3>1, <3>2 DEF ForwardAt
  <2>2. ForwardAt(r)
    BY <1>3, <1>7, <1>8 DEF ForwardAt, Rank
  <2> QED BY <2>1, <2>2 DEF Forward
<1>22. WorkerInv'
  BY <1>12, <1>13, <1>14, <1>15, <1>16, <1>17, <1>18, <1>19, <1>20, AtRest, <1>3 DEF WorkerInv
<1>23. \A s \in Redeems : s # r => row'[s].plan = row[s].plan
  BY <1>7 DEF OthersSame
<1> QED BY <1>3, <1>4, <1>7, <1>8, <1>21, <1>22, <1>23 DEF FundKeeps

\* A broadcast pays a settled redeem, or repeats its payment.
PayKeeps ==
  /\ WorkerInv' /\ Forward /\ UNCHANGED consumed
  /\ \A s \in Redeems : row'[s].plan = row[s].plan
  /\ \E r \in Redeems :
       /\ row[r].plan \in Coins /\ <<r, row[r].plan>> \in consumed
       /\ published[row[r].plan] \in {Nobody, r}
       /\ published' = [published EXCEPT ![row[r].plan] = r]

LEMMA PaymentKeeps ==
  ASSUME WorkerInv, NEW r \in Redeems, row[r].status = "redeem_completed", row[r].tx \in Coins,
         Accepts(r), published' = [published EXCEPT ![row[r].tx] = r],
         row' \in Rows, OthersSame(r),
         row'[r].status \in {"redeem_completed", "btc_broadcast"}, row'[r].tx = row[r].tx,
         row'[r].plan = row[r].plan, row'[r].deadline = row[r].deadline,
         row'[r].request = row[r].request, Rest, faults' \in 0 .. MaxFaults,
         UNCHANGED <<now, head, burnedIn, fork, escrow, txs, consumed, confirmed, reserved,
                     walletRestarted, cursor, logs>>
  PROVE  PayKeeps
<1>1. RowInOrder(r) /\ BehindChain(r)
  BY BehindEverywhere DEF WorkerInv, RowsInOrder
<1>2. row[r].tx = row[r].plan /\ row[r].plan \in Coins
  BY <1>1, ConstantTypes DEF RowInOrder
<1>3. <<r, row[r].plan>> \in consumed
  BY <1>1 DEF BehindChain, Done
<1>4. /\ published[row[r].plan] \in {Nobody, r}
      /\ published' = [published EXCEPT ![row[r].plan] = r]
  BY <1>2 DEF Accepts
<1>5. \A c \in Coins : published[c] \in Redeems \cup {Nobody}
  BY DEF WorkerInv, WorkerTypeOK, ChainsTypeOK
<1>6. /\ published' \in [Coins -> Redeems \cup {Nobody}] /\ published'[row[r].plan] = r
      /\ \A c \in Coins : c # row[r].plan => published'[c] = published[c]
  BY <1>2, <1>4 DEF WorkerInv, WorkerTypeOK, ChainsTypeOK
<1>7. \A s \in Redeems : row'[s].plan = row[s].plan /\ row'[s].deadline = row[s].deadline
  BY DEF OthersSame
<1>8. WorkerTypeOK'
  BY <1>6, AtRest DEF WorkerInv, WorkerTypeOK, ChainsTypeOK, StoreTypeOK, Rows
<1>9. RowsInOrder'
  <2>1. ASSUME NEW s \in Redeems, s # r PROVE RowInOrder(s)'
    BY <2>1 DEF WorkerInv, RowsInOrder, RowInOrder, OthersSame
  <2>2. RowInOrder(r)'
    BY <1>2 DEF RowInOrder
  <2> QED BY <2>1, <2>2 DEF RowsInOrder
<1>10. TxsFromRows'
  BY <1>7, RowTypes DEF WorkerInv, TxsFromRows
<1>11. SettledAsPlanned'
  BY <1>7 DEF WorkerInv, SettledAsPlanned
<1>12. PaidAsSettled'
  <2> SUFFICES ASSUME NEW c \in Coins, NEW s \in Redeems, s = published'[c]
               PROVE  row[s].plan = c /\ <<s, c>> \in consumed
    BY <1>6, <1>7 DEF PaidAsSettled
  <2>1. CASE c = row[r].plan
    BY <1>3, <1>6, <2>1
  <2>2. CASE c # row[r].plan
    BY <1>5, <1>6, <2>2, ConstantTypes DEF WorkerInv, PaidAsSettled
  <2> QED BY <2>1, <2>2
<1>13. PlansLocked' /\ CoinsReserved'
  BY <1>7 DEF WorkerInv, PlansLocked, CoinsReserved
<1>14. ScanCovers' /\ NoBurnSkipped'
  <2>1. \A s \in Redeems : row[s].status # "absent" => row'[s].status # "absent"
    BY DEF OthersSame
  <2> QED BY <2>1, AtRest, SameBurns
<1>15. RowBehindChain'
  <2>1. ASSUME NEW s \in Redeems, s # r PROVE BehindChain(s)'
    <3>1. BehindChain(s) /\ row'[s] = row[s]
      BY <2>1, BehindEverywhere DEF WorkerInv, OthersSame
    <3>2. ASSUME row[s].status = "btc_broadcast" PROVE published'[row[s].plan] = s
      <4>1. published[row[s].plan] = s
        BY <3>1, <3>2 DEF BehindChain
      <4>2. row[s].plan \in Coins
        BY <3>2 DEF WorkerInv, RowsInOrder, RowInOrder, Committed
      <4>3. row[s].plan # row[r].plan
        BY <1>4, <2>1, <4>1, ConstantTypes
      <4> QED BY <1>6, <4>1, <4>2, <4>3
    <3> QED BY <3>1, <3>2 DEF BehindChain
  <2>2. BehindChain(r)'
    BY <1>3, <1>6 DEF BehindChain, Done
  <2>3. \A s \in Redeems : BehindChain(s)'
    BY <2>1, <2>2
  <2> QED BY <2>3 DEF RowBehindChain, BehindChain
<1>16. Forward
  <2>1. ASSUME NEW s \in Redeems, s # r PROVE ForwardAt(s)
    <3>1. row'[s] = row[s]
      BY <2>1 DEF OthersSame
    <3>2. Rank(row[s].status) \in Int
      BY RowTypes, Ranks
    <3> QED BY <3>1, <3>2 DEF ForwardAt
  <2>2. ForwardAt(r)
    BY DEF ForwardAt, Rank
  <2> QED BY <2>1, <2>2 DEF Forward
<1>17. WorkerInv'
  BY <1>8, <1>9, <1>10, <1>11, <1>12, <1>13, <1>14, <1>15, AtRest DEF WorkerInv
<1> QED BY <1>2, <1>3, <1>4, <1>7, <1>16, <1>17 DEF PayKeeps

LEMMA BroadcastPays ==
  ASSUME WorkerInv, Broadcast PROVE PayKeeps
<1>1. PICK r \in Redeems : r = job.redeem
  BY DEF WorkerInv, JobAtRow, Broadcast
<1>2. /\ row[r].status = "redeem_completed" /\ row[r].tx \in Coins /\ Accepts(r)
      /\ published' = [published EXCEPT ![row[r].tx] = r]
      /\ MarkBitcoinBroadcast(r, row[r].tx) /\ Rest
      /\ UNCHANGED <<now, head, burnedIn, fork, escrow, txs, consumed, confirmed, reserved,
                     walletRestarted, faults, cursor, logs>>
  BY <1>1 DEF WorkerInv, JobAtRow, Broadcast, Burns
<1>3. /\ row' \in Rows /\ OthersSame(r)
      /\ row'[r].status = "btc_broadcast" /\ row'[r].tx = row[r].tx
      /\ row'[r].plan = row[r].plan /\ row'[r].deadline = row[r].deadline
      /\ row'[r].request = row[r].request
  BY <1>2, BroadcastRow, RowTypes
<1>4. faults' \in 0 .. MaxFaults
  BY <1>2 DEF WorkerInv, WorkerTypeOK, ChainsTypeOK
<1> QED BY <1>2, <1>3, <1>4, PaymentKeeps

LEMMA BroadcastLostPays ==
  ASSUME WorkerInv, BroadcastLost PROVE PayKeeps
<1>1. PICK r \in Redeems : r = job.redeem
  BY DEF WorkerInv, JobAtRow, BroadcastLost
<1>2. /\ row[r].status = "redeem_completed" /\ row[r].tx \in Coins /\ Accepts(r) /\ Fault
      /\ published' = [published EXCEPT ![row[r].tx] = r] /\ Rest /\ row' = row
      /\ UNCHANGED <<now, head, burnedIn, fork, escrow, txs, consumed, confirmed, reserved,
                     walletRestarted, cursor, logs>>
  BY <1>1 DEF WorkerInv, JobAtRow, BroadcastLost, Burns, storeVars
<1>3. row' \in Rows /\ OthersSame(r) /\ faults' \in 0 .. MaxFaults
  BY <1>2, RowTypes, ConstantTypes DEF OthersSame, WorkerInv, WorkerTypeOK, ChainsTypeOK, Fault
<1> QED BY <1>2, <1>3, PaymentKeeps

\* The chains settle at most one redeem, for the coin of its row.
ChainKeeps ==
  /\ WorkerInv' /\ Forward /\ UNCHANGED published
  /\ \A s \in Redeems : row'[s].plan = row[s].plan
  /\ \/ UNCHANGED consumed
     \/ \E r \in Redeems : /\ row[r].plan \in Coins
                           /\ consumed' = consumed \cup {<<r, row[r].plan>>}

LEMMA ChainSettles ==
  ASSUME WorkerInv, ChainStep, UNCHANGED <<storeVars, workerVars>> PROVE ChainKeeps
<1>1. ChainsTypeOK' /\ TxsEvolve /\ ChainsProgress
  BY ChainStepProgress DEF WorkerInv, WorkerTypeOK
<1>2. UNCHANGED <<row, cursor, job, logs>>
  BY DEF storeVars, workerVars
<1>3. \/ consumed' = consumed
      \/ \E r \in Redeems : row[r].plan \in Coins /\ consumed' = consumed \cup {<<r, row[r].plan>>}
  <2> SUFFICES ASSUME NEW i \in DOMAIN txs,
                      consumed' = consumed \cup {<<txs[i].redeem, txs[i].plan>>}
               PROVE  \E r \in Redeems : /\ row[r].plan \in Coins
                                         /\ consumed' = consumed \cup {<<r, row[r].plan>>}
    BY <1>1 DEF ChainsProgress
  <2>1. txs[i].redeem \in Redeems /\ txs[i].plan \in Coins
    BY RowTypes
  <2>2. txs[i].plan = row[txs[i].redeem].plan
    BY DEF WorkerInv, TxsFromRows
  <2> QED BY <2>1, <2>2
<1>4. consumed \subseteq consumed'
  BY <1>3
<1>5. WorkerTypeOK'
  BY <1>1, <1>2 DEF WorkerInv, WorkerTypeOK, StoreTypeOK
<1>6. RowsInOrder'
  BY <1>2 DEF WorkerInv, RowsInOrder, RowInOrder
<1>7. DOMAIN txs' = DOMAIN txs /\ \A i \in DOMAIN txs : TxEvolves(txs[i], txs'[i])
  BY <1>1 DEF TxsEvolve
<1>8. TxsFromRows'
  <2> SUFFICES ASSUME NEW i \in DOMAIN txs
               PROVE  /\ txs'[i].plan = row[txs'[i].redeem].plan
                      /\ txs'[i].deadline = row[txs'[i].redeem].deadline
                      /\ txs'[i].kind = "complete" /\ txs'[i].state = "mined"
                           => <<txs'[i].redeem, txs'[i].plan>> \in consumed'
    BY <1>2, <1>7 DEF TxsFromRows
  <2>1. TxEvolves(txs[i], txs'[i])
    BY <1>7
  <2> QED BY <1>4, <2>1 DEF WorkerInv, TxsFromRows, TxEvolves
<1>9. \A r \in Redeems, c \in Coins : <<r, c>> \in consumed' => row[r].plan = c
  BY <1>3 DEF WorkerInv, SettledAsPlanned
<1>10. SettledAsPlanned'
  <2>1. ASSUME NEW r \in Redeems, escrow'[r] = "CONSUMED" PROVE <<r, row[r].plan>> \in consumed'
    <3>1. CASE escrow[r] = "CONSUMED"
      BY <1>4, <3>1 DEF WorkerInv, SettledAsPlanned
    <3>2. CASE \E c \in Coins : <<r, c>> \in consumed'
      BY <1>9, <3>2
    <3> QED BY <1>1, <2>1, <3>1, <3>2 DEF ChainsProgress
  <2> QED BY <1>2, <1>9, <2>1 DEF SettledAsPlanned
<1>11. JobAtRow'
  <2>1. \A i \in DOMAIN txs : txs'[i].kind = txs[i].kind /\ txs'[i].redeem = txs[i].redeem
    BY <1>7 DEF TxEvolves
  <2> QED BY <1>2, <1>7, <2>1 DEF WorkerInv, JobAtRow
<1>12. ScanCovers' /\ NoBurnSkipped'
  <2>1. /\ head' \in Nat /\ head' >= head
        /\ \A r \in Redeems : burnedIn'[r] = burnedIn[r] \/ burnedIn'[r] > head
        /\ \A r \in Redeems : burnedIn'[r] \in Nat
    BY <1>1, ConstantTypes DEF ChainsProgress, ChainsTypeOK
  <2>2. cursor \in Nat /\ head \in Nat /\ job.id \in Nat /\ cursor <= head
    BY RowTypes DEF WorkerInv, ScanCovers
  <2>3. NoBurnSkipped'
    <3> SUFFICES ASSUME NEW r \in Redeems, burnedIn'[r] \in 1 .. cursor
                 PROVE  row[r].status # "absent"
      BY <1>2 DEF NoBurnSkipped
    <3>1. burnedIn'[r] = burnedIn[r]
      BY <2>1, <2>2
    <3> QED BY <3>1 DEF WorkerInv, NoBurnSkipped
  <2>4. ASSUME job.at = "scan", NEW r \in Redeems, burnedIn'[r] \in cursor + 1 .. job.id
        PROVE  row[r].status # "absent" \/ \E f \in 0 .. 1 : <<r, f>> \in logs
    <3>1. job.id <= head
      BY <2>4 DEF WorkerInv, ScanCovers
    <3>2. burnedIn'[r] = burnedIn[r]
      BY <2>1, <2>2, <2>4, <3>1
    <3> QED BY <2>4, <3>2 DEF WorkerInv, ScanCovers
  <2>5. cursor <= head' /\ (job.at = "scan" => cursor < job.id /\ job.id <= head')
    BY <2>1, <2>2 DEF WorkerInv, ScanCovers
  <2>6. ScanCovers'
    BY <1>2, <2>4, <2>5 DEF ScanCovers
  <2> QED BY <2>3, <2>6
<1>13. PlansLocked' /\ CoinsReserved'
  BY <1>1, <1>2 DEF ChainsProgress, WorkerInv, PlansLocked, CoinsReserved
<1>14. RowBehindChain'
  <2>1. ASSUME NEW r \in Redeems PROVE BehindChain(r)'
    <3>1. BehindChain(r)
      BY BehindEverywhere DEF WorkerInv
    <3>2. published' = published
      BY <1>1 DEF ChainsProgress
    <3>3. ASSUME row[r].status \in {"release_requested", "redeem_submitted"}
          PROVE  LET i == row[r].request IN
                   /\ i \in DOMAIN txs /\ txs'[i].kind = "request" /\ txs'[i].redeem = r
                   /\ txs'[i].plan = row[r].plan /\ txs'[i].deadline = row[r].deadline
                   /\ txs'[i].state \in {"mined", "approved", "rejected"}
      <4>1. TxEvolves(txs[row[r].request], txs'[row[r].request])
        BY <1>7, <3>1, <3>3 DEF BehindChain
      <4> QED BY <3>1, <3>3, <4>1 DEF BehindChain, TxEvolves
    <3>4. ASSUME row[r].status = "redeem_submitted"
          PROVE  LET i == row[r].completion IN
                   /\ i \in DOMAIN txs /\ txs'[i].kind = "complete" /\ txs'[i].redeem = r
                   /\ txs'[i].plan = row[r].plan /\ txs'[i].request = row[r].request
      <4>1. TxEvolves(txs[row[r].completion], txs'[row[r].completion])
        BY <1>7, <3>1, <3>4 DEF BehindChain
      <4> QED BY <3>1, <3>4, <4>1 DEF BehindChain, TxEvolves
    <3>5. /\ row[r].status \in Done => <<r, row[r].plan>> \in consumed'
          /\ row[r].status = "btc_broadcast" => published'[row[r].plan] = r
      BY <1>4, <3>1, <3>2 DEF BehindChain
    <3> QED BY <1>2, <1>7, <3>3, <3>4, <3>5 DEF BehindChain
  <2> QED BY <2>1 DEF RowBehindChain, BehindChain
<1>15. PaidAsSettled' /\ published' = published
  BY <1>1, <1>2, <1>4 DEF ChainsProgress, WorkerInv, PaidAsSettled
<1>16. Forward
  <2>1. \A r \in Redeems : Rank(row[r].status) \in Int
    BY RowTypes, Ranks
  <2> QED BY <1>2, <2>1 DEF Forward, ForwardAt
<1>17. WorkerInv'
  BY <1>5, <1>6, <1>8, <1>10, <1>11, <1>12, <1>13, <1>14, <1>15 DEF WorkerInv
<1> QED BY <1>2, <1>3, <1>15, <1>16, <1>17 DEF ChainKeeps

-----------------------------------------------------------------------------
(* Every step.                                                              *)

LEMMA InitInv == Init => WorkerInv
<1> SUFFICES ASSUME Init PROVE WorkerInv
  OBVIOUS
<1>1. /\ now = 0 /\ head = 0 /\ burnedIn = [r \in Redeems |-> 0]
      /\ fork = [r \in Redeems |-> 0] /\ escrow = [r \in Redeems |-> "NONE"]
      /\ txs = << >> /\ consumed = {} /\ published = [c \in Coins |-> Nobody]
      /\ confirmed = {} /\ reserved = {} /\ walletRestarted = FALSE /\ faults = 0
      /\ row = [r \in Redeems |-> NoRow] /\ cursor = 0 /\ job = Idle /\ logs = {}
  BY DEF Init, ChainsInit, StoreInit
<1>2. NoRow \in Row /\ NoRow.status = "absent" /\ NoRow.plan = NoCoin /\ NoRow.request = 0
      /\ NoRow.tx = NoCoin
  BY DEF NoRow, Row, Statuses
<1>3. ChainsTypeOK
  <2>1. txs \in Seq(Tx)
    BY <1>1, EmptySeq
  <2>2. /\ now \in 0 .. MaxTime /\ head \in Nat /\ faults \in 0 .. MaxFaults
        /\ burnedIn \in [Redeems -> 0 .. MaxBlock] /\ fork \in [Redeems -> 0 .. 1]
    BY <1>1, ConstantTypes
  <2> QED BY <1>1, <2>1, <2>2 DEF ChainsTypeOK, EscrowStates
<1>4. Idle \in Job /\ Idle.at = "idle"
  BY DEF Idle, Job
<1>5. WorkerTypeOK
  BY <1>1, <1>2, <1>3, <1>4 DEF WorkerTypeOK, StoreTypeOK
<1>6. RowsInOrder /\ RowBehindChain
  BY <1>1, <1>2 DEF RowsInOrder, RowInOrder, Committed, RowBehindChain, Done
<1>7. TxsFromRows
  BY <1>1 DEF TxsFromRows
<1>8. SettledAsPlanned /\ PaidAsSettled /\ PlansLocked /\ CoinsReserved
  BY <1>1, <1>2, ConstantTypes DEF SettledAsPlanned, PaidAsSettled, PlansLocked, CoinsReserved
<1>9. JobAtRow /\ ScanCovers /\ NoBurnSkipped
  BY <1>1, <1>4 DEF JobAtRow, ScanCovers, NoBurnSkipped
<1> QED BY <1>5, <1>6, <1>7, <1>8, <1>9 DEF WorkerInv

LEMMA StutterKeeps ==
  ASSUME WorkerInv, UNCHANGED vars PROVE Keeps
<1>1. UNCHANGED chainVars /\ UNCHANGED <<row, cursor, job, logs>>
  BY DEF vars, storeVars, workerVars
<1>2. UNCHANGED <<row, txs, consumed, escrow, published, reserved, walletRestarted, head, burnedIn,
                  cursor, job, logs>>
  BY <1>1 DEF chainVars
<1>3. WorkerTypeOK'
  BY <1>1, ChainsSame DEF WorkerInv, WorkerTypeOK, StoreTypeOK
<1>4. JobAtRow' /\ ScanCovers' /\ NoBurnSkipped'
  BY <1>2 DEF WorkerInv, JobAtRow, ScanCovers, NoBurnSkipped
<1> QED BY <1>2, <1>3, <1>4, SameRows DEF WorkerInv, Keeps

LEMMA StepKeeps ==
  ASSUME WorkerInv, [Next]_vars PROVE Keeps \/ FundKeeps \/ PayKeeps \/ ChainKeeps
<1>1. CASE ChainStep /\ UNCHANGED <<storeVars, workerVars>>
  BY <1>1, ChainSettles
<1>2. CASE ScanBegins
  BY <1>2, ScanBeginsKeeps
<1>3. CASE Continue
  BY <1>3, ScanUpsertsKeeps, ScanEndsKeeps, FundPromises, FailsKeep, RequestEndsKeeps,
     SubmitKeeps, WaitEndsKeeps, BroadcastPays DEF Continue
<1>4. CASE Lost
  BY <1>4, FundLostKeeps, SubmitLostKeeps, BroadcastLostPays, InterruptKeeps DEF Lost
<1>5. ASSUME NEW r \in Redeems, Begin(r) PROVE Keeps
  BY <1>5, MarksKeep, BeginsKeep, RequestBeginsKeeps, BroadcastBeginsKeeps DEF Begin
<1>6. CASE UNCHANGED vars
  BY <1>6, StutterKeeps
<1> QED BY <1>1, <1>2, <1>3, <1>4, <1>5, <1>6 DEF Next

LEMMA StepInv == WorkerInv /\ [Next]_vars => WorkerInv' /\ Forward
  BY StepKeeps DEF Keeps, FundKeeps, PayKeeps, ChainKeeps

LEMMA WorkerInvariant == Spec => []WorkerInv
<1>1. WorkerInv /\ [Next]_vars => WorkerInv'
  BY StepInv
<1> QED BY InitInv, <1>1, PTL DEF Spec

\* The rows, the scan and the job in flight keep their types, whatever fails.
THEOREM WorkerTypes == Spec => []WorkerTypeOK
<1>1. WorkerInv => WorkerTypeOK
  BY DEF WorkerInv
<1> QED BY <1>1, WorkerInvariant, PTL

\* A burn at or below the scan's cursor has its row: scanRedeems stores the logs
\* one by one and moves the cursor last.
THEOREM BurnsAreRecorded == Spec => []NoBurnSkipped
<1>1. WorkerInv => NoBurnSkipped
  BY DEF WorkerInv
<1> QED BY <1>1, WorkerInvariant, PTL

\* What a row says was requested, submitted, completed or paid was, for the coin
\* the row holds, wherever the process was interrupted.
THEOREM RowsStayBehind == Spec => []RowBehindChain
<1>1. WorkerInv => RowBehindChain
  BY DEF WorkerInv
<1> QED BY <1>1, WorkerInvariant, PTL

\* A treasury coin is spent for a redeem only after the EVM chain settled that
\* redeem for that coin, and it is the coin its row committed to.
THEOREM PaymentsAreSettled == Spec => []PaidAsSettled
<1>1. WorkerInv => PaidAsSettled
  BY DEF WorkerInv
<1> QED BY <1>1, WorkerInvariant, PTL

\* Two rows never commit to one coin while the node that holds the locks runs.
THEOREM CoinsStayReserved == Spec => []CoinsReserved
<1>1. WorkerInv => CoinsReserved
  BY DEF WorkerInv
<1> QED BY <1>1, WorkerInvariant, PTL

\* A row only moves forward, and its authorization, request and transaction stay
\* as they were first stored.
THEOREM RowsMoveForward == Spec => ForwardOnly
<1>1. WorkerInv /\ [Next]_vars =>
        [\A r \in Redeems :
           /\ Rank(row[r].status) <= Rank(row'[r].status)
           /\ row[r].status \in {"failed", "btc_broadcast"} => row'[r].status = row[r].status
           /\ row[r].plan # NoCoin => /\ row'[r].plan = row[r].plan
                                      /\ row'[r].deadline = row[r].deadline
           /\ row[r].request # 0 => row'[r].request = row[r].request
           /\ row[r].tx # NoCoin => row'[r].tx = row[r].tx]_vars
  BY StepInv DEF Forward, ForwardAt
<1> QED BY <1>1, WorkerInvariant, PTL DEF Spec, ForwardOnly

-----------------------------------------------------------------------------
(* The refinement.                                                          *)

Agreed == [r \in Redeems |-> row[r].plan]

LEMMA QuietStutters ==
  ASSUME \A s \in Redeems : row'[s].plan = row[s].plan, UNCHANGED <<consumed, published>>
  PROVE  UNCHANGED Settlement!settlementVars
  BY DEF Settlement!settlementVars

LEMMA StepImplements ==
  ASSUME WorkerInv, [Next]_vars
  PROVE  [Settlement!Next]_Settlement!settlementVars
<1>1. CASE Keeps
  BY <1>1, QuietStutters DEF Keeps, Quiet
<1>2. CASE FundKeeps
  <2>1. PICK r \in Redeems, c \in Coins :
          /\ row[r].plan = NoCoin /\ row'[r].plan = c
          /\ \A s \in Redeems : s # r => row'[s].plan = row[s].plan
    BY <1>2 DEF FundKeeps
  <2>2. Agreed' = [Agreed EXCEPT ![r] = c] /\ Agreed[r] = NoCoin
    BY <2>1 DEF Agreed
  <2>3. Settlement!Agree(r, c)
    BY <1>2, <2>2 DEF Settlement!Agree, FundKeeps, Agreed
  <2> QED BY <2>3 DEF Settlement!Next
<1>3. CASE PayKeeps
  <2>1. PICK r \in Redeems :
          /\ row[r].plan \in Coins /\ <<r, row[r].plan>> \in consumed
          /\ published[row[r].plan] \in {Nobody, r}
          /\ published' = [published EXCEPT ![row[r].plan] = r]
    BY <1>3 DEF PayKeeps
  <2>2. Agreed' = Agreed /\ Agreed[r] = row[r].plan /\ consumed' = consumed
    BY <1>3 DEF PayKeeps, Agreed
  <2>3. CASE published[row[r].plan] = Nobody
    <3>1. Settlement!Pay(r)
      BY <2>1, <2>2, <2>3 DEF Settlement!Pay, Agreed
    <3> QED BY <3>1 DEF Settlement!Next
  <2>4. CASE published[row[r].plan] = r
    <3>1. published' = published
      BY <2>1, <2>4 DEF WorkerInv, WorkerTypeOK, ChainsTypeOK
    <3> QED BY <1>3, <2>2, <3>1, QuietStutters DEF PayKeeps
  <2> QED BY <2>1, <2>3, <2>4
<1>4. CASE ChainKeeps
  <2>1. CASE UNCHANGED consumed
    BY <1>4, <2>1, QuietStutters DEF ChainKeeps
  <2>2. ASSUME NEW r \in Redeems, row[r].plan \in Coins,
               consumed' = consumed \cup {<<r, row[r].plan>>}
        PROVE  Settlement!Next
    <3>1. Agreed' = Agreed /\ Agreed[r] = row[r].plan /\ Agreed[r] # NoCoin
      BY <1>4, <2>2, ConstantTypes DEF ChainKeeps, Agreed
    <3>2. Settlement!Settle(r)
      BY <1>4, <2>2, <3>1 DEF Settlement!Settle, ChainKeeps, Agreed
    <3> QED BY <3>2 DEF Settlement!Next
  <2> QED BY <1>4, <2>1, <2>2 DEF ChainKeeps
<1> QED BY <1>1, <1>2, <1>3, <1>4, StepKeeps

\* The worker implements RedeemSettlement: whoever completes a redeem settles
\* the plan its row agreed to, and a broadcast pays it, once.
THEOREM WorkerImplementsSettlement == Spec => ImplementsSettlement
<1>1. Init => Settlement!Init
  <2>1. \A r \in Redeems : NoRow.plan = NoCoin
    BY DEF NoRow
  <2> QED BY <2>1 DEF Init, ChainsInit, StoreInit, Settlement!Init
<1>2. WorkerInv /\ [Next]_vars => [Settlement!Next]_Settlement!settlementVars
  BY StepImplements
<1> QED BY <1>1, <1>2, WorkerInvariant, PTL DEF Spec, ImplementsSettlement, Settlement!Spec

=============================================================================
