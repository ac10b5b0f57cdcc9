----------------------- MODULE ReleaseService_proofs -----------------------
(***************************************************************************)
(* Proofs about the redeem service's processes over their shared table,    *)
(* for any redeems, depth of finality, batch size and spend plan, however  *)
(* their statements interleave, and whichever process ends between two.    *)
(***************************************************************************)
EXTENDS ReleaseService, SequenceTheorems, TLAPS

-----------------------------------------------------------------------------
(* The inductive invariant: the chain and the table.                        *)

\* A burn is in a block of the chain at a log position that exists; a redeem the
\* gateway does not know has none, and one it has consumed was settled.
BurnsInBlocks ==
  /\ Len(chain) <= MaxBlock
  /\ \A r \in Redeems :
       /\ burn[r].block <= Len(chain)
       /\ burn[r].block > 0 => burn[r].log > 0
       /\ escrow[r] = "NONE" => burn[r].block = 0
       /\ settledAs[r] # 0 => r \in settledEver

\* The watcher scans nothing that is not final.
CursorFinal == cursor = 0 \/ cursor <= Len(chain) - FinalityBlocks

\* A row is where its burn is, in a final block, unless a final block was replaced.
RowAtBurn(r) ==
  /\ row[r].status # "absent" => row[r].log > 0
  /\ row[r].auth # NoAuth => row[r].auth.log > 0
  /\ r \notin displaced /\ row[r].status # "absent" =>
       /\ row[r].block = burn[r].block /\ row[r].log = burn[r].log
       /\ row[r].block \in 1 .. Len(chain) - FinalityBlocks
       /\ row[r].hash = chain[row[r].block]
       /\ row[r].auth # NoAuth => row[r].auth.log = row[r].log

RowsAtBurns == \A r \in Redeems : RowAtBurn(r)

LEMMA FunctionIsSequence ==
  ASSUME NEW S, NEW n \in Nat, NEW f \in [1 .. n -> S]
  PROVE  f \in Seq(S)
<1>1. f \in UNION {[1 .. m -> S] : m \in Nat}
  OBVIOUS
<1> QED BY <1>1, SeqDef

\* A transaction a row or a list names is one about its redeem.
About(r, i) == i # 0 => i \in DOMAIN txs /\ txs[i].redeem = r

\* A row past observation holds its authorization, an attestation of nothing else,
\* and the hash of a transaction of its own; consumed, it was settled.
RowHolds(r) ==
  /\ row[r].auth # NoAuth <=> row[r].status \notin {"absent", "observed"}
  /\ row[r].att \in {NoAuth, row[r].auth}
  /\ About(r, row[r].relay)
  /\ row[r].status = "consumed" => r \in settledEver

RowsHold == \A r \in Redeems : RowHolds(r)

\* What was sent for a redeem carries its authorization; mined, it settled it.
TxHolds(i) ==
  /\ txs[i].auth = row[txs[i].redeem].auth /\ txs[i].att = txs[i].auth
  /\ txs[i].state = "mined" => txs[i].redeem \in settledEver

TxsHold == \A i \in DOMAIN txs : TxHolds(i)

-----------------------------------------------------------------------------
(* The inductive invariant: the processes, whose copies of rows are old but *)
(* hold the authorization the row still has.                                *)

CopyOf(e) ==
  /\ e \in Listed
  /\ e.row.auth # NoAuth /\ e.row.auth = row[e.redeem].auth
  /\ About(e.redeem, e.row.relay)

Items == Listed \cup {NoItem}

WatcherOK ==
  /\ watcher \in [at : {"idle", "scan", "authorize"}, latest : 0 .. MaxBlock,
                  time : 0 .. MaxTime, todo : SUBSET Redeems]
  /\ watcher.at = "scan" => /\ watcher.latest <= Len(chain)
                            /\ cursor + 1 <= watcher.latest - FinalityBlocks
  /\ \A r \in watcher.todo : row[r].status = "observed"

AttesterOK ==
  /\ attester \in [at : {"idle", "take", "sign"}, time : Nat, todo : SUBSET Listed, item : Items]
  /\ \A e \in attester.todo : CopyOf(e)
  /\ attester.item # NoItem => CopyOf(attester.item)
  /\ attester.at = "sign" => attester.item # NoItem

RelayerOK ==
  /\ relayer \in [at : {"idle", "take", "receipt", "pending", "check", "send", "sent", "wait"},
                  todo : SUBSET Listed, item : Items, tx : Nat]
  /\ \A e \in relayer.todo : CopyOf(e)
  /\ relayer.item # NoItem => CopyOf(relayer.item)
  /\ relayer.at \notin {"idle", "take"} => relayer.item # NoItem
  /\ relayer.at = "receipt" => relayer.item.row.relay # 0
  /\ relayer.at \in {"sent", "wait"} =>
       relayer.tx # 0 /\ About(relayer.item.redeem, relayer.tx)

IngestOK == ingest \in Items /\ (ingest # NoItem => CopyOf(ingest))

ReleaseInv ==
  /\ ChainTypeOK /\ StoreTypeOK
  /\ BurnsInBlocks /\ CursorFinal /\ RowsAtBurns /\ RowsHold /\ TxsHold
  /\ ScanMissesNoBurn
  /\ WatcherOK /\ AttesterOK /\ RelayerOK /\ IngestOK

-----------------------------------------------------------------------------
(* Types.                                                                   *)

LEMMA ConstantTypes ==
  /\ NoAuth \notin Authorization /\ FinalityBlocks \in Nat
  /\ \A r \in Redeems : LogIndexes[r] \subseteq Nat \ {0}
  /\ MaxBlock \in Nat /\ MaxOutside \in Nat /\ MaxTime \in Nat
  /\ BatchSize \in Nat \ {0} /\ AuthorizationTtl \in Nat
  BY NoAuthAssumption, ReleaseChainAssumption, MaxTimeAssumption, ServiceAssumption
  DEF Authorization

LEMMA RowFields ==
  ASSUME NEW q \in Row
  PROVE  /\ q.status \in Statuses /\ q.block \in Nat /\ q.hash \in Nat /\ q.log \in Nat
         /\ q.auth \in Authorization \cup {NoAuth} /\ q.att \in Authorization \cup {NoAuth}
         /\ q.relay \in Nat
  BY DEF Row

LEMMA TxsElements ==
  ASSUME txs \in Seq(Tx)
  PROVE  /\ Len(txs) \in Nat /\ DOMAIN txs = 1 .. Len(txs)
         /\ \A i \in DOMAIN txs :
              /\ txs[i] \in Tx /\ txs[i].redeem \in Redeems
              /\ txs[i].auth \in Authorization /\ txs[i].att \in Authorization
              /\ txs[i].state \in {"pending", "dropped", "reverted", "mined"}
<1>1. /\ Len(txs) \in Nat /\ DOMAIN txs = 1 .. Len(txs)
      /\ \A i \in DOMAIN txs : txs[i] \in Tx
  BY LenProperties, ElementOfSeq
<1>2. \A i \in DOMAIN txs :
        /\ txs[i].redeem \in Redeems
        /\ txs[i].auth \in Authorization /\ txs[i].att \in Authorization
        /\ txs[i].state \in {"pending", "dropped", "reverted", "mined"}
  BY <1>1 DEF Tx
<1> QED BY <1>1, <1>2

LEMMA ChainElements ==
  ASSUME chain \in Seq(Nat)
  PROVE  /\ Len(chain) \in Nat /\ DOMAIN chain = 1 .. Len(chain)
         /\ \A b \in DOMAIN chain : chain[b] \in Nat
  BY LenProperties, ElementOfSeq

LEMMA StateTypes ==
  ASSUME ReleaseInv
  PROVE  /\ row \in [Redeems -> Row] /\ cursor \in Nat /\ now \in 0 .. MaxTime
         /\ outside \in 0 .. MaxOutside
         /\ \A r \in Redeems : row[r] \in Row /\ burn[r] \in [block : Nat, log : Nat]
         /\ Len(chain) \in 0 .. MaxBlock /\ DOMAIN chain = 1 .. Len(chain)
         /\ chain \in Seq(Nat) /\ \A b \in DOMAIN chain : chain[b] \in Nat
         /\ txs \in Seq(Tx) /\ Len(txs) \in Nat /\ DOMAIN txs = 1 .. Len(txs)
         /\ \A i \in DOMAIN txs :
              /\ txs[i] \in Tx /\ txs[i].redeem \in Redeems
              /\ txs[i].auth \in Authorization /\ txs[i].att \in Authorization
<1>1. /\ row \in [Redeems -> Row] /\ cursor \in Nat /\ now \in 0 .. MaxTime
      /\ outside \in 0 .. MaxOutside /\ burn \in [Redeems -> [block : Nat, log : Nat]]
      /\ chain \in Seq(Nat) /\ txs \in Seq(Tx)
  BY DEF ReleaseInv, ChainTypeOK, StoreTypeOK
<1>2. Len(chain) \in 0 .. MaxBlock
  BY <1>1, ChainElements, ConstantTypes DEF ReleaseInv, BurnsInBlocks
<1> QED BY <1>1, <1>2, ChainElements, TxsElements

LEMMA BurnTypes ==
  ASSUME ReleaseInv, NEW r \in Redeems
  PROVE  /\ burn[r].block \in 0 .. Len(chain) /\ burn[r].log \in Nat
         /\ burn[r] = [block |-> burn[r].block, log |-> burn[r].log]
<1>1. burn[r] \in [block : Nat, log : Nat] /\ Len(chain) \in Nat
  BY StateTypes
<1>2. burn[r].block \in Nat /\ burn[r].log \in Nat
      /\ burn[r] = [block |-> burn[r].block, log |-> burn[r].log]
  BY <1>1
<1> QED BY <1>1, <1>2 DEF ReleaseInv, BurnsInBlocks

LEMMA ListedFields ==
  ASSUME NEW e \in Listed
  PROVE  /\ e.redeem \in Redeems /\ e.row \in Row /\ e # NoItem
         /\ e = [redeem |-> e.redeem, row |-> e.row]
<1>1. e.redeem \in Redeems /\ e.row \in Row /\ DOMAIN e = {"redeem", "row"}
      /\ e = [redeem |-> e.redeem, row |-> e.row]
  BY DEF Listed
<1>2. DOMAIN NoItem = {"redeem"}
  BY DEF NoItem
<1> QED BY <1>1, <1>2

-----------------------------------------------------------------------------
(* What every step keeps for the copies, and so for a process it leaves.    *)

Evolves ==
  /\ \A r \in Redeems : row[r].auth # NoAuth => row'[r].auth = row[r].auth
  /\ \A i \in DOMAIN txs : i \in DOMAIN txs' /\ txs'[i].redeem = txs[i].redeem

LEMMA CopyStays ==
  ASSUME ReleaseInv, Evolves, NEW e, CopyOf(e) PROVE CopyOf(e)'
  BY ListedFields DEF CopyOf, Evolves, About

LEMMA WatcherStays ==
  ASSUME ReleaseInv, UNCHANGED <<watcher, cursor>>, Len(chain) <= Len(chain'),
         Len(chain') \in Nat,
         \A r \in Redeems : row[r].status = "observed" => row'[r].status = "observed"
  PROVE  WatcherOK'
<1>1. WatcherOK /\ Len(chain) \in Nat
  BY StateTypes DEF ReleaseInv
<1>2. watcher.latest \in Nat
  BY <1>1, ConstantTypes DEF WatcherOK
<1>3. watcher.at = "scan" => watcher.latest <= Len(chain')
  BY <1>1, <1>2 DEF WatcherOK
<1> QED BY <1>1, <1>3 DEF WatcherOK

LEMMA AttesterStays ==
  ASSUME ReleaseInv, UNCHANGED attester, Evolves PROVE AttesterOK'
<1>1. AttesterOK
  BY DEF ReleaseInv
<1>2. \A e \in attester.todo : CopyOf(e)'
  BY <1>1, CopyStays DEF AttesterOK
<1>3. PICK item \in Items : item = attester.item
  BY <1>1 DEF AttesterOK
<1>4. item # NoItem => CopyOf(item)'
  BY <1>1, <1>3, CopyStays DEF AttesterOK
<1>5. attester' = attester
  OBVIOUS
<1>6. attester.item # NoItem => CopyOf(attester.item)'
  BY <1>3, <1>4, <1>5 DEF CopyOf, About
<1> QED BY <1>1, <1>2, <1>5, <1>6 DEF AttesterOK, CopyOf, About

LEMMA RelayerStays ==
  ASSUME ReleaseInv, UNCHANGED relayer, Evolves PROVE RelayerOK'
<1>1. RelayerOK
  BY DEF ReleaseInv
<1>2. \A e \in relayer.todo : CopyOf(e)'
  BY <1>1, CopyStays DEF RelayerOK
<1>3. PICK item \in Items : item = relayer.item
  BY <1>1 DEF RelayerOK
<1>4. item # NoItem => CopyOf(item)'
  BY <1>1, <1>3, CopyStays DEF RelayerOK
<1>5. relayer' = relayer
  OBVIOUS
<1>6. relayer.item # NoItem => CopyOf(relayer.item)'
  BY <1>3, <1>4, <1>5 DEF CopyOf, About
<1>7. relayer.at \in {"sent", "wait"} =>
        relayer.tx # 0 /\ About(relayer.item.redeem, relayer.tx)'
  BY <1>1, <1>5 DEF RelayerOK, About, Evolves
<1> QED BY <1>1, <1>2, <1>5, <1>6, <1>7 DEF RelayerOK, CopyOf, About

LEMMA IngestStays ==
  ASSUME ReleaseInv, UNCHANGED ingest, Evolves PROVE IngestOK'
<1>1. IngestOK
  BY DEF ReleaseInv
<1>2. PICK item \in Items : item = ingest
  BY <1>1 DEF IngestOK
<1>3. item # NoItem => CopyOf(item)'
  BY <1>1, <1>2, CopyStays DEF IngestOK
<1>4. ingest' = ingest
  OBVIOUS
<1> QED BY <1>1, <1>2, <1>3, <1>4 DEF IngestOK, CopyOf, About

-----------------------------------------------------------------------------
(* The chain.                                                               *)

\* Of a transaction already sent only the state moves.
TxsEvolve ==
  /\ txs' \in Seq(Tx) /\ DOMAIN txs' = DOMAIN txs
  /\ \A i \in DOMAIN txs : /\ txs'[i].redeem = txs[i].redeem
                           /\ txs'[i].auth = txs[i].auth /\ txs'[i].att = txs[i].att

LEMMA SameTxsEvolve == ASSUME ReleaseInv, txs' = txs PROVE TxsEvolve
  BY StateTypes DEF TxsEvolve

\* A step of the chain that undoes no settlement, keeps its height and leaves the
\* rows at their burns.
LEMMA ChainFrame ==
  ASSUME ReleaseInv, TxsEvolve, UNCHANGED <<row, cursor, watcher, attester, relayer, ingest>>,
         ChainTypeOK', BurnsInBlocks', RowsAtBurns', ScanMissesNoBurn',
         Len(chain) <= Len(chain'), settledEver \subseteq settledEver',
         \A i \in DOMAIN txs : txs'[i].state = "mined" => txs[i].redeem \in settledEver'
  PROVE  ReleaseInv'
<1>1. /\ row' = row /\ cursor' = cursor /\ watcher' = watcher /\ attester' = attester
      /\ relayer' = relayer /\ ingest' = ingest
  OBVIOUS
<1>2. Evolves
  BY <1>1 DEF Evolves, TxsEvolve
<1>3. Len(chain') \in Nat /\ Len(chain) \in Nat
  BY StateTypes, LenProperties DEF ChainTypeOK
<1>4. WatcherOK' /\ AttesterOK' /\ RelayerOK' /\ IngestOK'
  BY <1>1, <1>2, <1>3, WatcherStays, AttesterStays, RelayerStays, IngestStays
<1>5. CursorFinal'
  BY <1>1, <1>3, StateTypes, ConstantTypes DEF ReleaseInv, CursorFinal
<1>6. RowsHold'
  BY <1>1 DEF TxsEvolve, ReleaseInv, RowsHold, RowHolds, About
<1>7. TxsHold'
  BY <1>1 DEF TxsEvolve, ReleaseInv, TxsHold, TxHolds
<1>8. StoreTypeOK'
  BY <1>1 DEF ReleaseInv, StoreTypeOK
<1> QED BY <1>4, <1>5, <1>6, <1>7, <1>8 DEF ReleaseInv

\* Rows stay at their burns where blocks and burns stay.
LEMMA SameBurns ==
  ASSUME ReleaseInv, UNCHANGED <<chain, burn, displaced, row, cursor>>
  PROVE  RowsAtBurns' /\ ScanMissesNoBurn' /\ Len(chain) <= Len(chain')
<1>1. Len(chain) <= Len(chain')
  BY StateTypes
<1> QED BY <1>1 DEF ReleaseInv, RowsAtBurns, RowAtBurn, ScanMissesNoBurn

LEMMA OneTxEvolves ==
  ASSUME ReleaseInv, NEW i \in DOMAIN txs,
         NEW state \in {"pending", "dropped", "reverted", "mined"},
         txs' = [txs EXCEPT ![i].state = state]
  PROVE  /\ TxsEvolve /\ txs'[i].state = state
         /\ \A j \in DOMAIN txs : j # i => txs'[j] = txs[j]
<1> DEFINE u == [txs[i] EXCEPT !.state = state]
<1>1. i \in 1 .. Len(txs) /\ txs[i] \in Tx /\ txs \in Seq(Tx)
  BY StateTypes
<1>2. /\ u \in Tx /\ u.redeem = txs[i].redeem /\ u.auth = txs[i].auth /\ u.att = txs[i].att
      /\ u.state = state
  BY <1>1 DEF Tx
<1>3. txs' = [txs EXCEPT ![i] = u]
  OBVIOUS
<1> HIDE DEF u
<1>4. /\ txs' \in Seq(Tx) /\ Len(txs') = Len(txs)
      /\ \A j \in 1 .. Len(txs) : txs'[j] = IF j = i THEN u ELSE txs[j]
  BY <1>1, <1>2, <1>3, ExceptSeq
<1>5. DOMAIN txs' = DOMAIN txs /\ DOMAIN txs = 1 .. Len(txs)
  BY <1>4, StateTypes, LenProperties
<1> QED BY <1>1, <1>2, <1>4, <1>5 DEF TxsEvolve

\* The states of several transactions move at once.
LEMMA StatesEvolve ==
  ASSUME ReleaseInv, NEW moved \in SUBSET DOMAIN txs, NEW state \in {"pending", "dropped"},
         txs' = [i \in DOMAIN txs |-> IF i \in moved THEN [txs[i] EXCEPT !.state = state]
                                                     ELSE txs[i]]
  PROVE  /\ TxsEvolve
         /\ \A i \in DOMAIN txs : txs'[i].state = "mined" => txs[i].state = "mined"
<1>1. txs \in Seq(Tx) /\ Len(txs) \in Nat /\ DOMAIN txs = 1 .. Len(txs)
      /\ \A i \in DOMAIN txs : txs[i] \in Tx
  BY StateTypes
<1>2. \A i \in DOMAIN txs :
        /\ txs'[i] \in Tx /\ txs'[i].redeem = txs[i].redeem
        /\ txs'[i].auth = txs[i].auth /\ txs'[i].att = txs[i].att
        /\ txs'[i].state \in {txs[i].state, "pending", "dropped"}
  BY <1>1 DEF Tx
<1>3. txs' = [i \in 1 .. Len(txs) |-> txs'[i]] /\ DOMAIN txs' = DOMAIN txs
  BY <1>1
<1>4. txs' \in Seq(Tx)
  BY <1>1, <1>2, <1>3, SeqDef
<1> QED BY <1>2, <1>3, <1>4 DEF TxsEvolve

LEMMA OutsideTypes == ASSUME ReleaseInv, Outside PROVE outside' \in 0 .. MaxOutside
  BY StateTypes, ConstantTypes DEF Outside

LEMMA SettledBefore ==
  ASSUME ReleaseInv, NEW i \in DOMAIN txs, txs[i].state = "mined"
  PROVE  txs[i].redeem \in settledEver
  BY DEF ReleaseInv, TxsHold, TxHolds

Services == <<row, cursor, watcher, attester, relayer, ingest>>

LEMMA WaitKeeps == ASSUME ReleaseInv, Wait, UNCHANGED Services PROVE ReleaseInv'
<1>1. /\ UNCHANGED <<chain, burn, displaced, foreignSet, escrow, settledAs, settledEver, txs,
                    outside>>
      /\ UNCHANGED <<row, cursor, watcher, attester, relayer, ingest>>
      /\ now' \in 0 .. MaxTime
  BY StateTypes, ConstantTypes DEF Wait, BurnsAndSigners, Gateway, Tick, Services
<1>2. TxsEvolve
  BY <1>1, SameTxsEvolve
<1>3. ChainTypeOK' /\ BurnsInBlocks'
  BY <1>1 DEF ReleaseInv, ChainTypeOK, BurnsInBlocks
<1>4. \A i \in DOMAIN txs : txs'[i].state = "mined" => txs[i].redeem \in settledEver'
  BY <1>1, SettledBefore
<1> QED BY <1>1, <1>2, <1>3, <1>4, SameBurns, ChainFrame

\* A settlement, whoever brought it, of a burn the gateway holds.
LEMMA SettleKeeps ==
  ASSUME ReleaseInv, NEW r \in Redeems, NEW log \in Nat, Settle(r, log), TxsEvolve,
         \A i \in DOMAIN txs :
           txs'[i].state = "mined" => txs[i].state = "mined" \/ txs[i].redeem = r,
         UNCHANGED <<now, chain, burn, displaced, foreignSet>>, UNCHANGED Services,
         outside' \in 0 .. MaxOutside
  PROVE  ReleaseInv'
<1>1. UNCHANGED <<row, cursor, watcher, attester, relayer, ingest>>
  BY DEF Services
<1>2. /\ escrow' = [escrow EXCEPT ![r] = "CONSUMED"]
      /\ settledAs' = [settledAs EXCEPT ![r] = log] /\ settledEver' = settledEver \cup {r}
  BY DEF Settle
<1>3. /\ escrow \in [Redeems -> {"NONE", "BURNED", "CONSUMED", "CANCELLED"}]
      /\ settledAs \in [Redeems -> Nat] /\ settledEver \subseteq Redeems
  BY DEF ReleaseInv, ChainTypeOK
<1>4. /\ escrow' \in [Redeems -> {"NONE", "BURNED", "CONSUMED", "CANCELLED"}]
      /\ settledAs' \in [Redeems -> Nat] /\ settledEver' \subseteq Redeems
      /\ settledEver \subseteq settledEver'
  BY <1>2, <1>3
<1>5. ChainTypeOK'
  BY <1>4 DEF TxsEvolve, ReleaseInv, ChainTypeOK
<1>6. BurnsInBlocks'
  BY <1>2, <1>3 DEF ReleaseInv, BurnsInBlocks
<1>7. \A i \in DOMAIN txs : txs'[i].state = "mined" => txs[i].redeem \in settledEver'
  BY <1>2, SettledBefore
<1> QED BY <1>1, <1>4, <1>5, <1>6, <1>7, SameBurns, ChainFrame

\* A step that leaves blocks, burns and settlements alone.
LEMMA OnlyTxsKeep ==
  ASSUME ReleaseInv, TxsEvolve,
         \A i \in DOMAIN txs : txs'[i].state = "mined" => txs[i].state = "mined",
         UNCHANGED <<now, chain, burn, displaced, foreignSet, settledEver>>, UNCHANGED Services,
         escrow' \in [Redeems -> {"NONE", "BURNED", "CONSUMED", "CANCELLED"}],
         \A r \in Redeems : escrow'[r] = "NONE" => escrow[r] = "NONE",
         settledAs' \in [Redeems -> Nat],
         \A r \in Redeems : settledAs'[r] # 0 => settledAs[r] # 0,
         outside' \in 0 .. MaxOutside
  PROVE  ReleaseInv'
<1>1. UNCHANGED <<row, cursor, watcher, attester, relayer, ingest>>
  BY DEF Services
<1>2. ChainTypeOK' /\ BurnsInBlocks'
  BY DEF TxsEvolve, ReleaseInv, ChainTypeOK, BurnsInBlocks
<1>3. \A i \in DOMAIN txs : txs'[i].state = "mined" => txs[i].redeem \in settledEver'
  BY SettledBefore
<1> QED BY <1>1, <1>2, <1>3, SameBurns, ChainFrame

LEMMA MineKeeps ==
  ASSUME ReleaseInv, NEW i \in DOMAIN txs, Mine(i), UNCHANGED Services PROVE ReleaseInv'
<1>1. UNCHANGED <<now, chain, burn, displaced, foreignSet, outside>>
  BY DEF Mine, BurnsAndSigners
<1>2. outside' \in 0 .. MaxOutside
  BY <1>1, StateTypes
<1>3. CASE txs' = [txs EXCEPT ![i].state = "mined"] /\ Settle(txs[i].redeem, txs[i].auth.log)
  <2>1. PICK r \in Redeems : r = txs[i].redeem
    BY StateTypes
  <2>2. PICK log \in Nat : log = txs[i].auth.log
    BY StateTypes DEF Authorization
  <2>3. /\ TxsEvolve /\ txs'[i].state = "mined"
        /\ \A j \in DOMAIN txs : j # i => txs'[j] = txs[j]
    BY <1>3, OneTxEvolves
  <2>4. Settle(r, log)
    BY <1>3, <2>1, <2>2
  <2> QED BY <1>1, <1>2, <2>1, <2>3, <2>4, SettleKeeps
<1>4. CASE txs' = [txs EXCEPT ![i].state = "reverted"] /\ UNCHANGED Gateway
  <2>1. /\ TxsEvolve /\ txs'[i].state = "reverted"
        /\ \A j \in DOMAIN txs : j # i => txs'[j] = txs[j]
    BY <1>4, OneTxEvolves
  <2>2. UNCHANGED <<escrow, settledAs, settledEver>>
    BY <1>4 DEF Gateway
  <2>3. /\ escrow' \in [Redeems -> {"NONE", "BURNED", "CONSUMED", "CANCELLED"}]
        /\ settledAs' \in [Redeems -> Nat]
    BY <2>2 DEF ReleaseInv, ChainTypeOK
  <2> QED BY <1>1, <1>2, <2>1, <2>2, <2>3, OnlyTxsKeep
<1> QED BY <1>3, <1>4 DEF Mine

LEMMA LosePendingKeeps ==
  ASSUME ReleaseInv, NEW i \in DOMAIN txs, LosePending(i), UNCHANGED Services
  PROVE  ReleaseInv'
<1> DEFINE moved == {j \in DOMAIN txs : j >= i /\ txs[j].state = "pending"}
<1>1. txs' = [j \in DOMAIN txs |-> IF j \in moved THEN [txs[j] EXCEPT !.state = "dropped"]
                                                  ELSE txs[j]]
  BY DEF LosePending
<1>2. moved \in SUBSET DOMAIN txs
  OBVIOUS
<1> HIDE DEF moved
<1>3. /\ TxsEvolve
      /\ \A j \in DOMAIN txs : txs'[j].state = "mined" => txs[j].state = "mined"
  BY <1>1, <1>2, StatesEvolve
<1>4. UNCHANGED <<now, chain, burn, displaced, foreignSet, escrow, settledAs, settledEver>>
      /\ outside' \in 0 .. MaxOutside
  BY OutsideTypes DEF LosePending, BurnsAndSigners, Gateway
<1>5. /\ escrow' \in [Redeems -> {"NONE", "BURNED", "CONSUMED", "CANCELLED"}]
      /\ settledAs' \in [Redeems -> Nat]
  BY <1>4 DEF ReleaseInv, ChainTypeOK
<1> QED BY <1>3, <1>4, <1>5, OnlyTxsKeep

LEMMA CompleteElsewhereKeeps ==
  ASSUME ReleaseInv, NEW r \in Redeems, CompleteElsewhere(r), UNCHANGED Services
  PROVE  ReleaseInv'
<1>1. Settle(r, burn[r].log) /\ UNCHANGED <<now, chain, burn, displaced, foreignSet, txs>>
      /\ outside' \in 0 .. MaxOutside
  BY OutsideTypes DEF CompleteElsewhere, BurnsAndSigners
<1>2. PICK log \in Nat : log = burn[r].log
  BY BurnTypes
<1>3. Settle(r, log)
  BY <1>1, <1>2
<1>4. TxsEvolve
  BY <1>1, SameTxsEvolve
<1> QED BY <1>1, <1>3, <1>4, SettleKeeps

LEMMA CancelKeeps ==
  ASSUME ReleaseInv, NEW r \in Redeems, Cancel(r), UNCHANGED Services PROVE ReleaseInv'
<1>1. /\ UNCHANGED <<now, chain, burn, displaced, foreignSet, settledAs, settledEver, txs>>
      /\ escrow' = [escrow EXCEPT ![r] = "CANCELLED"] /\ outside' \in 0 .. MaxOutside
  BY OutsideTypes DEF Cancel, BurnsAndSigners
<1>2. /\ escrow \in [Redeems -> {"NONE", "BURNED", "CONSUMED", "CANCELLED"}]
      /\ settledAs \in [Redeems -> Nat]
  BY DEF ReleaseInv, ChainTypeOK
<1>3. /\ escrow' \in [Redeems -> {"NONE", "BURNED", "CONSUMED", "CANCELLED"}]
      /\ \A s \in Redeems : escrow'[s] = "NONE" => escrow[s] = "NONE"
  BY <1>1, <1>2
<1>4. TxsEvolve
  BY <1>1, SameTxsEvolve
<1> QED BY <1>1, <1>2, <1>3, <1>4, OnlyTxsKeep

\* A completion undone leaves the history of settlements: the row that says
\* consumed was right when it was written.
LEMMA UndoCompletionKeeps ==
  ASSUME ReleaseInv, NEW r \in Redeems, UndoCompletion(r), UNCHANGED Services
  PROVE  ReleaseInv'
<1> DEFINE own == {i \in DOMAIN txs : txs[i].redeem = r /\ txs[i].state = "mined"}
<1>1. /\ UNCHANGED <<now, chain, burn, displaced, foreignSet, settledEver>>
      /\ escrow' = [escrow EXCEPT ![r] = "BURNED"] /\ settledAs' = [settledAs EXCEPT ![r] = 0]
      /\ txs' = [i \in DOMAIN txs |-> IF i \in own THEN [txs[i] EXCEPT !.state = "pending"]
                                                   ELSE txs[i]]
      /\ outside' \in 0 .. MaxOutside
  BY OutsideTypes DEF UndoCompletion, BurnsAndSigners
<1>2. own \in SUBSET DOMAIN txs
  OBVIOUS
<1> HIDE DEF own
<1>3. /\ TxsEvolve
      /\ \A j \in DOMAIN txs : txs'[j].state = "mined" => txs[j].state = "mined"
  BY <1>1, <1>2, StatesEvolve
<1>4. /\ escrow \in [Redeems -> {"NONE", "BURNED", "CONSUMED", "CANCELLED"}]
      /\ settledAs \in [Redeems -> Nat]
  BY DEF ReleaseInv, ChainTypeOK
<1>5. /\ escrow' \in [Redeems -> {"NONE", "BURNED", "CONSUMED", "CANCELLED"}]
      /\ \A s \in Redeems : escrow'[s] = "NONE" => escrow[s] = "NONE"
      /\ settledAs' \in [Redeems -> Nat]
      /\ \A s \in Redeems : settledAs'[s] # 0 => settledAs[s] # 0
  BY <1>1, <1>4
<1> QED BY <1>1, <1>3, <1>5, OnlyTxsKeep

\* Where a row says its burn is, if no final block was replaced.
LEMMA RowBlocks ==
  ASSUME ReleaseInv, NEW r \in Redeems \ displaced, row[r].status # "absent"
  PROVE  /\ row[r].block \in DOMAIN chain /\ row[r].block = burn[r].block
         /\ row[r].block \in Nat /\ row[r].block > 0
         /\ row[r].block <= Len(chain) - FinalityBlocks
<1>1. /\ row[r].block \in 1 .. Len(chain) - FinalityBlocks /\ row[r].block = burn[r].block
  BY DEF ReleaseInv, RowsAtBurns, RowAtBurn
<1>2. Len(chain) \in Nat /\ DOMAIN chain = 1 .. Len(chain) /\ FinalityBlocks \in Nat
  BY StateTypes, ConstantTypes
<1>3. PICK b \in 1 .. Len(chain) - FinalityBlocks : b = row[r].block
  BY <1>1
<1>4. b \in 1 .. Len(chain) /\ b \in Nat /\ b > 0 /\ b <= Len(chain) - FinalityBlocks
  BY <1>2, <1>3
<1> QED BY <1>1, <1>2, <1>3, <1>4

\* A new block leaves the rows where they are; its burns are past the cursor.
LEMMA NextBlockKeeps ==
  ASSUME ReleaseInv, NextBlock, UNCHANGED Services PROVE ReleaseInv'
<1>1. /\ Len(chain) < MaxBlock /\ chain' = Append(chain, 0)
      /\ UNCHANGED <<now, settledAs, settledEver, foreignSet, displaced, txs, outside>>
      /\ UNCHANGED <<row, cursor, watcher, attester, relayer, ingest>>
  BY DEF NextBlock, Services
<1>2. PICK burns \in SUBSET {r \in Redeems : escrow[r] = "NONE"} :
        \E log \in Placements(burns, LogIndexes) :
          /\ burn' = [r \in Redeems |-> IF r \in burns
                                        THEN [block |-> Len(chain'), log |-> log[r]]
                                        ELSE burn[r]]
          /\ escrow' = [r \in Redeems |-> IF r \in burns THEN "BURNED" ELSE escrow[r]]
  BY DEF NextBlock
<1>3. PICK log \in Placements(burns, LogIndexes) :
        /\ burn' = [r \in Redeems |-> IF r \in burns
                                      THEN [block |-> Len(chain'), log |-> log[r]] ELSE burn[r]]
        /\ escrow' = [r \in Redeems |-> IF r \in burns THEN "BURNED" ELSE escrow[r]]
  BY <1>2
<1>4. /\ chain' \in Seq(Nat) /\ Len(chain') = Len(chain) + 1
      /\ \A b \in DOMAIN chain : chain'[b] = chain[b]
  <2>1. chain \in Seq(Nat) /\ Len(chain) \in Nat /\ DOMAIN chain = 1 .. Len(chain)
    BY StateTypes
  <2> QED BY <1>1, <2>1, AppendProperties
<1>5. Len(chain) \in Nat /\ Len(chain') \in 0 .. MaxBlock /\ Len(chain) <= Len(chain')
  BY <1>1, <1>4, StateTypes, ConstantTypes
<1>6. \A r \in burns : log[r] \in Nat /\ log[r] > 0
  BY <1>3, ConstantTypes DEF Placements
<1>7. \A r \in Redeems :
        /\ r \in burns => burn'[r].block = Len(chain') /\ burn'[r].log = log[r]
        /\ r \notin burns => burn'[r] = burn[r]
        /\ escrow'[r] = IF r \in burns THEN "BURNED" ELSE escrow[r]
  BY <1>3
<1>8. burn' \in [Redeems -> [block : Nat, log : Nat]]
  BY <1>3, <1>5, <1>6, StateTypes
<1>9. escrow' \in [Redeems -> {"NONE", "BURNED", "CONSUMED", "CANCELLED"}]
  BY <1>3 DEF ReleaseInv, ChainTypeOK
<1>10. ChainTypeOK'
  BY <1>1, <1>4, <1>8, <1>9 DEF ReleaseInv, ChainTypeOK
<1>11. BurnsInBlocks'
  <2> SUFFICES ASSUME NEW r \in Redeems
               PROVE  /\ burn'[r].block <= Len(chain')
                      /\ burn'[r].block > 0 => burn'[r].log > 0
                      /\ escrow'[r] = "NONE" => burn'[r].block = 0
                      /\ settledAs'[r] # 0 => r \in settledEver'
    BY <1>5 DEF BurnsInBlocks
  <2>1. CASE r \in burns
    BY <1>1, <1>5, <1>6, <1>7, <2>1 DEF ReleaseInv, BurnsInBlocks
  <2>2. CASE r \notin burns
    <3>1. burn[r].block \in Nat /\ burn[r].block <= Len(chain)
      BY BurnTypes, StateTypes DEF ReleaseInv, BurnsInBlocks
    <3>2. burn'[r] = burn[r] /\ burn[r].block <= Len(chain')
      BY <1>5, <1>7, <2>2, <3>1
    <3> QED BY <1>1, <1>7, <2>2, <3>2 DEF ReleaseInv, BurnsInBlocks
  <2> QED BY <2>1, <2>2
<1>12. \A r \in burns : burn[r].block = 0
  BY <1>3 DEF ReleaseInv, BurnsInBlocks
<1>13. RowsAtBurns'
  <2> SUFFICES ASSUME NEW r \in Redeems PROVE RowAtBurn(r)'
    BY DEF RowsAtBurns
  <2>1. RowAtBurn(r)
    BY DEF ReleaseInv, RowsAtBurns
  <2>2. CASE r \in displaced \/ row[r].status = "absent"
    BY <1>1, <2>1, <2>2 DEF RowAtBurn
  <2>3. CASE r \notin displaced /\ row[r].status # "absent"
    <3>1. /\ row[r].block \in DOMAIN chain /\ row[r].block = burn[r].block
          /\ row[r].block \in Nat /\ row[r].block > 0
          /\ row[r].block <= Len(chain) - FinalityBlocks
      BY <2>3, RowBlocks
    <3>2. burn'[r] = burn[r] /\ chain'[row[r].block] = chain[row[r].block]
      BY <1>4, <1>7, <1>12, <3>1
    <3>3. row[r].block \in 1 .. Len(chain') - FinalityBlocks
      BY <1>4, <1>5, <3>1, ConstantTypes
    <3> QED BY <1>1, <2>1, <2>3, <3>2, <3>3 DEF RowAtBurn
  <2> QED BY <2>2, <2>3
<1>14. ScanMissesNoBurn'
  <2> SUFFICES ASSUME NEW r \in Redeems \ displaced, burn'[r].block \in 1 .. cursor
               PROVE  /\ row[r].status # "absent"
                      /\ row[r].block = burn'[r].block /\ row[r].log = burn'[r].log
    BY <1>1 DEF ScanMissesNoBurn
  <2>1. cursor < Len(chain')
    BY <1>4, <1>5, StateTypes, ConstantTypes DEF ReleaseInv, CursorFinal
  <2>2. r \notin burns
    BY <1>5, <1>7, <2>1, StateTypes
  <2> QED BY <1>7, <2>2 DEF ReleaseInv, ScanMissesNoBurn
<1>15. TxsEvolve
  BY <1>1, SameTxsEvolve
<1>16. \A i \in DOMAIN txs : txs'[i].state = "mined" => txs[i].redeem \in settledEver'
  BY <1>1, SettledBefore
<1> QED BY <1>1, <1>5, <1>10, <1>11, <1>13, <1>14, <1>15, <1>16, ChainFrame

\* A reorganization moves only burns no row is about, or burns it displaces.
LEMMA ReorgKeeps ==
  ASSUME ReleaseInv, NEW k \in 1 .. MaxBlock, Reorg(k), UNCHANGED Services
  PROVE  ReleaseInv'
<1> DEFINE lost == {r \in Redeems : burn[r].block >= k}
           places == [r \in Redeems |-> [block : k .. Len(chain), log : LogIndexes[r]]
                                        \cup {Unburned}]
<1>1. /\ k \in DOMAIN chain /\ Outside
      /\ chain' = [b \in DOMAIN chain |-> IF b >= k THEN chain[b] + 1 ELSE chain[b]]
      /\ displaced' = IF k <= Len(chain) - FinalityBlocks THEN displaced \cup lost
                                                         ELSE displaced
      /\ UNCHANGED <<now, settledAs, settledEver, foreignSet, txs>>
      /\ UNCHANGED <<row, cursor, watcher, attester, relayer, ingest>>
  BY DEF Reorg, Services
<1>2. PICK place \in Placements(lost, places) :
        /\ burn' = [r \in Redeems |-> IF r \in lost THEN place[r] ELSE burn[r]]
        /\ escrow' = [r \in Redeems |-> IF r \in lost /\ place[r] = Unburned THEN "NONE"
                                        ELSE escrow[r]]
  BY DEF Reorg
<1>3. \A r \in lost : escrow[r] = "BURNED"
  BY DEF Reorg
<1>4. \A r \in lost : \/ place[r] = Unburned
                      \/ /\ place[r] \in [block : k .. Len(chain), log : LogIndexes[r]]
  BY DEF Placements
<1>5. /\ k \in Nat /\ k > 0 /\ k <= Len(chain) /\ Len(chain) \in 0 .. MaxBlock
      /\ chain \in Seq(Nat) /\ DOMAIN chain = 1 .. Len(chain)
      /\ \A b \in DOMAIN chain : chain[b] \in Nat
  BY <1>1, StateTypes
<1>6. \A r \in lost : /\ place[r].block \in Nat /\ place[r].log \in Nat
                      /\ place[r] \in [block : Nat, log : Nat]
                      /\ place[r] # Unburned =>
                           /\ place[r].block >= k /\ place[r].block <= Len(chain)
                           /\ place[r].log > 0
                      /\ place[r] = Unburned => place[r].block = 0
  <2> TAKE r \in lost
  <2>1. CASE place[r] = Unburned
    BY <2>1 DEF Unburned
  <2>2. CASE place[r] \in [block : k .. Len(chain), log : LogIndexes[r]]
    <3>1. place[r].block \in k .. Len(chain) /\ place[r].log \in LogIndexes[r]
          /\ place[r] = [block |-> place[r].block, log |-> place[r].log]
      BY <2>2
    <3>2. place[r].log \in Nat \ {0} /\ place[r].block \in Nat /\ place[r].block > 0
      BY <1>5, <3>1, ConstantTypes
    <3> QED BY <1>5, <3>1, <3>2 DEF Unburned
  <2> QED BY <1>4, <2>1, <2>2
<1>7. lost \subseteq Redeems /\ displaced \subseteq displaced'
      /\ \A r \in Redeems : r \notin lost => burn[r].block < k
  <2>1. \A r \in Redeems : burn[r].block \in Nat
    BY StateTypes, BurnTypes
  <2>2. \A r \in Redeems : r \notin lost => burn[r].block < k
    BY <1>5, <2>1
  <2> QED BY <1>1, <2>2
<1>8. \A r \in lost : r \notin displaced' => k > Len(chain) - FinalityBlocks
  BY <1>1, <1>5, ConstantTypes
<1> HIDE DEF lost, places
<1>9. /\ chain' \in Seq(Nat) /\ Len(chain') = Len(chain)
      /\ \A b \in DOMAIN chain : b < k => chain'[b] = chain[b]
  <2>1. \A b \in 1 .. Len(chain) : chain'[b] \in Nat /\ (b < k => chain'[b] = chain[b])
    BY <1>1, <1>5
  <2>2. chain' = [b \in 1 .. Len(chain) |-> chain'[b]]
    BY <1>1, <1>5
  <2>3. chain' \in Seq(Nat)
    <3>1. chain' \in [1 .. Len(chain) -> Nat]
      BY <2>1, <2>2
    <3>2. Len(chain) \in Nat
      BY <1>5
    <3> QED BY <3>1, <3>2, FunctionIsSequence
  <2> QED BY <1>1, <1>5, <2>1, <2>2, <2>3, LenProperties
<1>10. \A r \in Redeems :
         /\ burn'[r] = IF r \in lost THEN place[r] ELSE burn[r]
         /\ escrow'[r] = IF r \in lost /\ place[r] = Unburned THEN "NONE" ELSE escrow[r]
  BY <1>2
<1>11. burn' \in [Redeems -> [block : Nat, log : Nat]]
  BY <1>2, <1>6, StateTypes
<1>12. escrow' \in [Redeems -> {"NONE", "BURNED", "CONSUMED", "CANCELLED"}]
  BY <1>2 DEF ReleaseInv, ChainTypeOK
<1>13. displaced' \subseteq Redeems /\ outside' \in 0 .. MaxOutside
  BY <1>1, <1>7, OutsideTypes DEF ReleaseInv, ChainTypeOK
<1>14. ChainTypeOK'
  BY <1>1, <1>9, <1>11, <1>12, <1>13 DEF ReleaseInv, ChainTypeOK
<1>15. BurnsInBlocks'
  <2> SUFFICES ASSUME NEW r \in Redeems
               PROVE  /\ burn'[r].block <= Len(chain')
                      /\ burn'[r].block > 0 => burn'[r].log > 0
                      /\ escrow'[r] = "NONE" => burn'[r].block = 0
                      /\ settledAs'[r] # 0 => r \in settledEver'
    BY <1>5, <1>9 DEF BurnsInBlocks
  <2>1. CASE r \in lost
    BY <1>1, <1>3, <1>5, <1>6, <1>9, <1>10, <2>1 DEF ReleaseInv, BurnsInBlocks
  <2>2. CASE r \notin lost
    BY <1>1, <1>9, <1>10, <2>2 DEF ReleaseInv, BurnsInBlocks
  <2> QED BY <2>1, <2>2
<1>16. RowsAtBurns'
  <2> SUFFICES ASSUME NEW r \in Redeems PROVE RowAtBurn(r)'
    BY DEF RowsAtBurns
  <2>1. RowAtBurn(r)
    BY DEF ReleaseInv, RowsAtBurns
  <2>2. CASE r \in displaced' \/ row[r].status = "absent"
    BY <1>1, <2>1, <2>2 DEF RowAtBurn
  <2>3. CASE r \notin displaced' /\ row[r].status # "absent"
    <3>1. r \in Redeems \ displaced
      BY <1>7, <2>3
    <3>2. /\ row[r].block \in DOMAIN chain /\ row[r].block = burn[r].block
          /\ row[r].block \in Nat /\ row[r].block > 0
          /\ row[r].block <= Len(chain) - FinalityBlocks
      BY <2>3, <3>1, RowBlocks
    <3>3. r \notin lost
      <4>1. r \in lost => k <= burn[r].block
        BY DEF lost
      <4> QED BY <1>5, <1>8, <2>3, <3>2, <4>1, ConstantTypes
    <3>4. burn'[r] = burn[r] /\ chain'[row[r].block] = chain[row[r].block]
      BY <1>7, <1>9, <1>10, <3>2, <3>3
    <3> QED BY <1>1, <1>9, <2>1, <2>3, <3>1, <3>4 DEF RowAtBurn
  <2> QED BY <2>2, <2>3
<1>17. ScanMissesNoBurn'
  <2> SUFFICES ASSUME NEW r \in Redeems \ displaced', burn'[r].block \in 1 .. cursor
               PROVE  /\ row[r].status # "absent"
                      /\ row[r].block = burn'[r].block /\ row[r].log = burn'[r].log
    BY <1>1 DEF ScanMissesNoBurn
  <2>1. r \notin lost
    <3> SUFFICES ASSUME r \in lost PROVE FALSE
      OBVIOUS
    <3>1. burn'[r] = place[r] /\ k > Len(chain) - FinalityBlocks
      BY <1>8, <1>10
    <3>2. cursor # 0 /\ burn'[r].block \in Nat /\ burn'[r].block > 0 /\ burn'[r].block <= cursor
      BY StateTypes
    <3>3. cursor <= Len(chain) - FinalityBlocks
      BY <3>2 DEF ReleaseInv, CursorFinal
    <3>4. burn'[r].block >= k
      BY <1>6, <3>1, <3>2
    <3> QED BY <1>5, <3>1, <3>2, <3>3, <3>4, StateTypes, ConstantTypes
  <2>2. burn'[r] = burn[r] /\ r \notin displaced
    BY <1>7, <1>10, <2>1
  <2> QED BY <2>2 DEF ReleaseInv, ScanMissesNoBurn
<1>18. TxsEvolve
  BY <1>1, SameTxsEvolve
<1>19. \A i \in DOMAIN txs : txs'[i].state = "mined" => txs[i].redeem \in settledEver'
  BY <1>1, SettledBefore
<1>20. Len(chain) <= Len(chain') /\ settledEver \subseteq settledEver'
  BY <1>1, <1>5, <1>9
<1> QED BY <1>1, <1>14, <1>15, <1>16, <1>17, <1>18, <1>19, <1>20, ChainFrame

\* Another signer set changes what will be accepted, and nothing that was.
LEMMA SetSignerSetKeeps ==
  ASSUME ReleaseInv, SetSignerSet, UNCHANGED Services PROVE ReleaseInv'
<1>1. /\ UNCHANGED <<now, chain, burn, displaced, escrow, settledAs, settledEver, txs>>
      /\ UNCHANGED <<row, cursor, watcher, attester, relayer, ingest>>
      /\ foreignSet' \in BOOLEAN /\ outside' \in 0 .. MaxOutside
  BY OutsideTypes DEF SetSignerSet, Gateway, Services
<1>2. TxsEvolve
  BY <1>1, SameTxsEvolve
<1>3. ChainTypeOK' /\ BurnsInBlocks'
  BY <1>1 DEF ReleaseInv, ChainTypeOK, BurnsInBlocks
<1>4. \A i \in DOMAIN txs : txs'[i].state = "mined" => txs[i].redeem \in settledEver'
  BY <1>1, SettledBefore
<1> QED BY <1>1, <1>2, <1>3, <1>4, SameBurns, ChainFrame

LEMMA ChainStepKeeps ==
  ASSUME ReleaseInv, ChainStep, UNCHANGED <<storeVars, serviceVars>> PROVE ReleaseInv'
<1>1. UNCHANGED Services
  BY DEF storeVars, serviceVars, Services
<1> QED BY <1>1, NextBlockKeeps, SetSignerSetKeeps, WaitKeeps, ReorgKeeps, MineKeeps, LosePendingKeeps,
           CompleteElsewhereKeeps, CancelKeeps, UndoCompletionKeeps DEF ChainStep

-----------------------------------------------------------------------------
(* The table.                                                               *)

Table ==
  /\ ChainTypeOK /\ StoreTypeOK
  /\ BurnsInBlocks /\ CursorFinal /\ RowsAtBurns /\ RowsHold /\ TxsHold
  /\ ScanMissesNoBurn

\* A row the watcher has listed waits for the watcher.
ObservedStay == \A r \in Redeems : row[r].status = "observed" => row'[r].status = "observed"

Chain ==
  <<now, chain, burn, displaced, escrow, settledAs, settledEver, foreignSet, txs, outside>>

LEMMA SameTable ==
  ASSUME ReleaseInv, UNCHANGED <<now, chain, burn, displaced, foreignSet, escrow, settledAs,
                                settledEver, txs>>,
         UNCHANGED <<row, cursor>>, outside' \in 0 .. MaxOutside
  PROVE  Table' /\ Evolves /\ ObservedStay
<1>1. ChainTypeOK' /\ StoreTypeOK' /\ BurnsInBlocks' /\ CursorFinal'
  BY DEF ReleaseInv, ChainTypeOK, StoreTypeOK, BurnsInBlocks, CursorFinal
<1>2. RowsAtBurns' /\ ScanMissesNoBurn'
  BY DEF ReleaseInv, RowsAtBurns, RowAtBurn, ScanMissesNoBurn
<1>3. RowsHold' /\ TxsHold'
  BY DEF ReleaseInv, RowsHold, RowHolds, About, TxsHold, TxHolds
<1> QED BY <1>1, <1>2, <1>3 DEF Table, Evolves, ObservedStay

\* A statement of the attester, the relayer or the ingest: it writes the status, the
\* attestation and the hash of a row that is already authorized.
LEMMA MarkKeeps ==
  ASSUME ReleaseInv, NEW r \in Redeems, row[r].auth # NoAuth, NEW q \in Row,
         row' = [row EXCEPT ![r] = q],
         q.block = row[r].block, q.hash = row[r].hash, q.log = row[r].log,
         q.auth = row[r].auth, q.status \notin {"absent", "observed"},
         q.att \in {NoAuth, q.auth}, About(r, q.relay),
         q.status = "consumed" => r \in settledEver,
         UNCHANGED Chain, UNCHANGED cursor
  PROVE  Table' /\ Evolves /\ ObservedStay
<1>1. /\ now' = now /\ chain' = chain /\ burn' = burn /\ displaced' = displaced
      /\ escrow' = escrow /\ settledAs' = settledAs /\ settledEver' = settledEver
      /\ txs' = txs /\ foreignSet' = foreignSet /\ outside' = outside /\ cursor' = cursor
  BY DEF Chain
<1>2. /\ row' \in [Redeems -> Row] /\ row'[r] = q
      /\ \A s \in Redeems : s # r => row'[s] = row[s]
  BY StateTypes
<1>3. row[r].status \notin {"absent", "observed"}
  BY DEF ReleaseInv, RowsHold, RowHolds
<1>4. ChainTypeOK' /\ StoreTypeOK' /\ BurnsInBlocks' /\ CursorFinal'
  BY <1>1, <1>2 DEF ReleaseInv, ChainTypeOK, StoreTypeOK, BurnsInBlocks, CursorFinal
<1>5. RowsAtBurns'
  <2> SUFFICES ASSUME NEW s \in Redeems PROVE RowAtBurn(s)'
    BY DEF RowsAtBurns
  <2>1. CASE s = r
    BY <1>1, <1>2, <1>3, <2>1 DEF ReleaseInv, RowsAtBurns, RowAtBurn
  <2>2. CASE s # r
    BY <1>1, <1>2, <2>2 DEF ReleaseInv, RowsAtBurns, RowAtBurn
  <2> QED BY <2>1, <2>2
<1>6. ScanMissesNoBurn'
  BY <1>1, <1>2 DEF ReleaseInv, ScanMissesNoBurn
<1>7. RowsHold'
  <2> SUFFICES ASSUME NEW s \in Redeems PROVE RowHolds(s)'
    BY DEF RowsHold
  <2>1. CASE s = r
    BY <1>1, <1>2, <2>1 DEF RowHolds, About
  <2>2. CASE s # r
    BY <1>1, <1>2, <2>2 DEF ReleaseInv, RowsHold, RowHolds, About
  <2> QED BY <2>1, <2>2
<1>8. \A s \in Redeems : row'[s].auth = row[s].auth
  BY <1>2
<1>9. TxsHold'
  BY <1>1, <1>8, StateTypes DEF ReleaseInv, TxsHold, TxHolds
<1>10. Evolves
  BY <1>1, <1>8 DEF Evolves
<1>11. ObservedStay
  BY <1>2, <1>3 DEF ObservedStay
<1> QED BY <1>4, <1>5, <1>6, <1>7, <1>9, <1>10, <1>11 DEF Table

Marks == {"attestation_requested", "attested", "relayed", "consumed"}

LEMMA MarkedStatus ==
  ASSUME ReleaseInv, NEW r \in Redeems, row[r].auth # NoAuth, NEW status \in Marks,
         row' = [row EXCEPT ![r].status = status],
         status = "consumed" => r \in settledEver,
         UNCHANGED Chain, UNCHANGED cursor
  PROVE  Table' /\ Evolves /\ ObservedStay
<1> DEFINE q == [row[r] EXCEPT !.status = status]
<1>1. row[r] \in Row /\ row' = [row EXCEPT ![r] = q] /\ RowHolds(r)
  BY StateTypes DEF ReleaseInv, RowsHold
<1>2. /\ q \in Row /\ q.status = status /\ q.block = row[r].block /\ q.hash = row[r].hash
      /\ q.log = row[r].log /\ q.auth = row[r].auth /\ q.att = row[r].att
      /\ q.relay = row[r].relay
  BY <1>1 DEF Row, Marks, Statuses
<1> HIDE DEF q
<1> QED BY <1>1, <1>2, MarkKeeps DEF RowHolds, Marks

LEMMA MarkedAttested ==
  ASSUME ReleaseInv, NEW r \in Redeems, NEW auth, auth # NoAuth, auth = row[r].auth,
         MarkAttested(r, auth), UNCHANGED Chain, UNCHANGED cursor
  PROVE  Table' /\ Evolves /\ ObservedStay
<1> DEFINE q == [row[r] EXCEPT !.status = "attested", !.att = auth]
<1>1. row[r] \in Row /\ row \in [Redeems -> Row] /\ RowHolds(r) /\ auth \in Authorization \cup {NoAuth}
  BY StateTypes, RowFields DEF ReleaseInv, RowsHold
<1>2. row' = [row EXCEPT ![r] = q]
  BY <1>1 DEF MarkAttested
<1>3. /\ q \in Row /\ q.status = "attested" /\ q.block = row[r].block /\ q.hash = row[r].hash
      /\ q.log = row[r].log /\ q.auth = row[r].auth /\ q.att = auth
      /\ q.relay = row[r].relay
  BY <1>1 DEF Row, Statuses
<1> HIDE DEF q
<1> QED BY <1>1, <1>2, <1>3, MarkKeeps DEF RowHolds

\* MarkRelayed and MarkRelayFailed: the status and the hash of the transaction.
LEMMA MarkedRelay ==
  ASSUME ReleaseInv, NEW r \in Redeems, row[r].auth # NoAuth, NEW status \in {"relayed", "attested"},
         NEW tx \in Nat, About(r, tx),
         row' = [row EXCEPT ![r].status = status, ![r].relay = tx],
         UNCHANGED Chain, UNCHANGED cursor
  PROVE  Table' /\ Evolves /\ ObservedStay
<1> DEFINE q == [row[r] EXCEPT !.status = status, !.relay = tx]
<1>1. row[r] \in Row /\ row \in [Redeems -> Row] /\ RowHolds(r)
  BY StateTypes DEF ReleaseInv, RowsHold
<1>2. row' = [row EXCEPT ![r] = q]
  BY <1>1
<1>3. /\ q \in Row /\ q.status = status /\ q.block = row[r].block /\ q.hash = row[r].hash
      /\ q.log = row[r].log /\ q.auth = row[r].auth /\ q.att = row[r].att
      /\ q.relay = tx
  BY <1>1 DEF Row, Statuses
<1> HIDE DEF q
<1> QED BY <1>1, <1>2, <1>3, MarkKeeps DEF RowHolds

\* What a process lists is copied from rows that are authorized.
LEMMA ListCopies ==
  ASSUME ReleaseInv, NEW eligible \in SUBSET Redeems, \A r \in eligible : row[r].auth # NoAuth
  PROVE  List(eligible) \subseteq Listed /\ \A e \in List(eligible) : CopyOf(e)
<1> SUFFICES ASSUME NEW r \in eligible
             PROVE  /\ [redeem |-> r, row |-> row[r]] \in Listed
                    /\ CopyOf([redeem |-> r, row |-> row[r]])
  BY DEF List
<1>1. row[r] \in Row
  BY StateTypes
<1>2. PICK e : e = [redeem |-> r, row |-> row[r]]
  OBVIOUS
<1>3. e \in Listed /\ e.redeem = r /\ e.row = row[r]
  BY <1>1, <1>2 DEF Listed
<1>4. CopyOf(e)
  BY <1>3 DEF CopyOf, ReleaseInv, RowsHold, RowHolds
<1> QED BY <1>2, <1>3, <1>4

LEMMA ChainHeight == ASSUME ReleaseInv, chain' = chain
                     PROVE Len(chain) <= Len(chain') /\ Len(chain') \in Nat
  BY StateTypes

-----------------------------------------------------------------------------
(* The attester and the ingest.                                             *)

LEMMA AttesterMoves ==
  ASSUME ReleaseInv, Evolves, NEW at \in {"idle", "take", "sign"}, NEW time \in Nat,
         NEW todo \in SUBSET Listed, NEW item \in Items,
         attester' = [at |-> at, time |-> time, todo |-> todo, item |-> item],
         \A e \in todo : CopyOf(e), item # NoItem => CopyOf(item),
         at = "sign" => item # NoItem
  PROVE  AttesterOK'
<1>1. \A e \in todo : CopyOf(e)'
  BY CopyStays
<1>2. item # NoItem => CopyOf(item)'
  BY CopyStays
<1>3. /\ attester' \in [at : {"idle", "take", "sign"}, time : Nat, todo : SUBSET Listed, item : Items]
      /\ attester'.at = at /\ attester'.todo = todo /\ attester'.item = item
  OBVIOUS
<1> QED BY <1>1, <1>2, <1>3 DEF AttesterOK, CopyOf, About

LEMMA AttesterAlone ==
  ASSUME ReleaseInv, Table', Evolves, ObservedStay, AttesterOK', chain' = chain,
         UNCHANGED <<cursor, watcher, relayer, ingest>>
  PROVE  ReleaseInv'
<1>1. WatcherOK' /\ RelayerOK' /\ IngestOK'
  BY ChainHeight, WatcherStays, RelayerStays, IngestStays DEF ObservedStay
<1> QED BY <1>1 DEF Table, ReleaseInv

LEMMA AttesterRests ==
  ASSUME ReleaseInv, Evolves, attester' = AttesterIdle PROVE AttesterOK'
<1>1. attester' = [at |-> "idle", time |-> 0, todo |-> {}, item |-> NoItem]
  BY DEF AttesterIdle
<1>2. NoItem \in Items
  BY DEF Items
<1> QED BY <1>1, <1>2, AttesterMoves

LEMMA AttestListsKeeps == ASSUME ReleaseInv, AttestLists PROVE ReleaseInv'
<1>1. /\ attester' = [attester EXCEPT !.at = "take", !.time = now,
                                      !.todo = List(AttestationEligible)]
      /\ UNCHANGED <<now, chain, burn, displaced, foreignSet, escrow, settledAs, settledEver,
                    txs, outside>>
      /\ UNCHANGED <<row, cursor, watcher, relayer, ingest>>
  BY DEF AttestLists, Attesting, chainVars
<1>2. Table' /\ Evolves /\ ObservedStay
  BY <1>1, SameTable, StateTypes
<1>3. /\ List(AttestationEligible) \subseteq Listed
      /\ \A e \in List(AttestationEligible) : CopyOf(e)
  BY ListCopies DEF AttestationEligible
<1>4. PICK todo \in SUBSET Listed : todo = List(AttestationEligible)
  BY <1>3
<1>5. PICK time \in Nat : time = now
  BY StateTypes, ConstantTypes
<1>6. PICK item \in Items : item = attester.item
  BY DEF ReleaseInv, AttesterOK
<1>7. attester' = [at |-> "take", time |-> time, todo |-> todo, item |-> item]
  BY <1>1, <1>4, <1>5, <1>6 DEF ReleaseInv, AttesterOK
<1>8. item # NoItem => CopyOf(item)
  BY <1>6 DEF ReleaseInv, AttesterOK
<1>9. AttesterOK'
  BY <1>2, <1>3, <1>4, <1>7, <1>8, AttesterMoves
<1> QED BY <1>1, <1>2, <1>9, AttesterAlone

LEMMA AttestTakesKeeps ==
  ASSUME ReleaseInv, NEW e \in attester.todo, AttestTakes(e) PROVE ReleaseInv'
<1>1. /\ row' = [row EXCEPT ![e.redeem].status = "attestation_requested"]
      /\ \/ attester' = [attester EXCEPT !.at = "sign", !.item = e, !.todo = @ \ {e}]
         \/ attester' = AttesterIdle
      /\ UNCHANGED Chain /\ chain' = chain
      /\ UNCHANGED <<cursor, watcher, relayer, ingest>>
  BY DEF AttestTakes, MarkAttestationRequested, Attesting, chainVars, Chain
<1>2. /\ CopyOf(e) /\ e \in Listed /\ e.redeem \in Redeems /\ row[e.redeem].auth # NoAuth
  BY ListedFields DEF ReleaseInv, AttesterOK, CopyOf
<1>3. PICK r \in Redeems : r = e.redeem
  BY <1>2
<1>4. Table' /\ Evolves /\ ObservedStay
  BY <1>1, <1>2, <1>3, MarkedStatus DEF Marks
<1>5. CASE attester' = AttesterIdle
  BY <1>1, <1>4, <1>5, AttesterRests, AttesterAlone
<1>6. CASE attester' = [attester EXCEPT !.at = "sign", !.item = e, !.todo = @ \ {e}]
  <2>1. PICK todo \in SUBSET Listed : todo = attester.todo \ {e}
    BY DEF ReleaseInv, AttesterOK
  <2>2. PICK time \in Nat : time = attester.time
    BY DEF ReleaseInv, AttesterOK
  <2>3. attester' = [at |-> "sign", time |-> time, todo |-> todo, item |-> e]
    BY <1>6, <2>1, <2>2 DEF ReleaseInv, AttesterOK
  <2>4. \A f \in todo : CopyOf(f)
    BY <2>1 DEF ReleaseInv, AttesterOK
  <2>5. e \in Items /\ e # NoItem
    BY <1>2, ListedFields DEF Items
  <2>6. AttesterOK'
    BY <1>2, <1>4, <2>3, <2>4, <2>5, AttesterMoves
  <2> QED BY <1>1, <1>4, <2>6, AttesterAlone
<1> QED BY <1>1, <1>5, <1>6

LEMMA AttestSignsKeeps == ASSUME ReleaseInv, AttestSigns PROVE ReleaseInv'
<1>1. /\ attester.at = "sign" /\ MarkAttested(attester.item.redeem, attester.item.row.auth)
      /\ attester' = AttesterIdle \/ attester' = [attester EXCEPT !.at = "take", !.item = NoItem]
      /\ UNCHANGED Chain /\ chain' = chain
      /\ UNCHANGED <<cursor, watcher, relayer, ingest>>
  BY DEF AttestSigns, Attesting, chainVars, Chain
<1>2. PICK e \in Items : e = attester.item
  BY DEF ReleaseInv, AttesterOK
<1>3. CopyOf(e) /\ e \in Listed
  BY <1>1, <1>2 DEF ReleaseInv, AttesterOK, CopyOf
<1>4. PICK r \in Redeems : r = e.redeem
  BY <1>3, ListedFields
<1>5. PICK auth : auth = e.row.auth
  OBVIOUS
<1>6. auth # NoAuth /\ auth = row[r].auth /\ MarkAttested(r, auth)
  BY <1>1, <1>2, <1>3, <1>4, <1>5 DEF CopyOf
<1>7. Table' /\ Evolves /\ ObservedStay
  BY <1>1, <1>6, MarkedAttested
<1>8. CASE attester' = AttesterIdle
  BY <1>1, <1>7, <1>8, AttesterRests, AttesterAlone
<1>9. CASE attester' = [attester EXCEPT !.at = "take", !.item = NoItem]
  <2>1. PICK todo \in SUBSET Listed : todo = attester.todo
    BY DEF ReleaseInv, AttesterOK
  <2>2. PICK time \in Nat : time = attester.time
    BY DEF ReleaseInv, AttesterOK
  <2>3. attester' = [at |-> "take", time |-> time, todo |-> todo, item |-> NoItem]
    BY <1>9, <2>1, <2>2 DEF ReleaseInv, AttesterOK
  <2>4. \A f \in todo : CopyOf(f)
    BY <2>1 DEF ReleaseInv, AttesterOK
  <2>5. NoItem \in Items
    BY DEF Items
  <2>6. AttesterOK'
    BY <1>7, <2>3, <2>4, <2>5, AttesterMoves
  <2> QED BY <1>1, <1>7, <2>6, AttesterAlone
<1> QED BY <1>1, <1>8, <1>9

LEMMA IngestAlone ==
  ASSUME ReleaseInv, Table', Evolves, ObservedStay, chain' = chain,
         NEW item \in Items, ingest' = item, item # NoItem => CopyOf(item),
         UNCHANGED <<cursor, watcher, attester, relayer>>
  PROVE  ReleaseInv'
<1>1. item # NoItem => CopyOf(item)'
  BY CopyStays
<1>2. IngestOK'
  BY <1>1 DEF IngestOK, CopyOf, About
<1>3. WatcherOK' /\ AttesterOK' /\ RelayerOK'
  BY ChainHeight, WatcherStays, AttesterStays, RelayerStays DEF ObservedStay
<1> QED BY <1>2, <1>3 DEF Table, ReleaseInv

LEMMA IngestReadsKeeps ==
  ASSUME ReleaseInv, NEW r \in Redeems, IngestReads(r) PROVE ReleaseInv'
<1>1. /\ row[r].auth # NoAuth /\ Outside
      /\ ingest' = [redeem |-> r, row |-> row[r]]
      /\ UNCHANGED <<now, chain, burn, displaced, foreignSet, escrow, settledAs, settledEver, txs>>
      /\ UNCHANGED <<row, cursor, watcher, attester, relayer>>
  BY DEF IngestReads, BurnsAndSigners, Gateway, storeVars
<1>2. Table' /\ Evolves /\ ObservedStay
  BY <1>1, SameTable, OutsideTypes
<1>3. List({r}) \subseteq Listed /\ \A e \in List({r}) : CopyOf(e)
  BY <1>1, ListCopies
<1>4. PICK e \in List({r}) : e = [redeem |-> r, row |-> row[r]]
  BY DEF List
<1> QED BY <1>1, <1>2, <1>3, <1>4, IngestAlone DEF Items

LEMMA IngestWritesKeeps == ASSUME ReleaseInv, IngestWrites PROVE ReleaseInv'
<1>1. /\ ingest # NoItem /\ MarkAttested(ingest.redeem, ingest.row.auth) /\ ingest' = NoItem
      /\ UNCHANGED Chain /\ chain' = chain
      /\ UNCHANGED <<cursor, watcher, attester, relayer>>
  BY DEF IngestWrites, chainVars, Chain
<1>2. PICK e \in Items : e = ingest
  BY DEF ReleaseInv, IngestOK
<1>3. CopyOf(e) /\ e \in Listed
  BY <1>1, <1>2 DEF ReleaseInv, IngestOK, CopyOf
<1>4. PICK r \in Redeems : r = e.redeem
  BY <1>3, ListedFields
<1>5. PICK auth : auth = e.row.auth
  OBVIOUS
<1>6. auth # NoAuth /\ auth = row[r].auth /\ MarkAttested(r, auth)
  BY <1>1, <1>2, <1>3, <1>4, <1>5 DEF CopyOf
<1>7. Table' /\ Evolves /\ ObservedStay
  BY <1>1, <1>6, MarkedAttested
<1>8. NoItem \in Items
  BY DEF Items
<1> QED BY <1>1, <1>7, <1>8, IngestAlone

-----------------------------------------------------------------------------
(* The relayer.                                                             *)

RelayerPlaces == {"idle", "take", "receipt", "pending", "check", "send", "sent", "wait"}

Relayers == [at : RelayerPlaces, todo : SUBSET Listed, item : Items, tx : Nat]

LEMMA RelayerMoves ==
  ASSUME ReleaseInv, Evolves, NEW at \in RelayerPlaces, NEW todo \in SUBSET Listed,
         NEW item \in Items, NEW tx \in Nat,
         relayer' = [at |-> at, todo |-> todo, item |-> item, tx |-> tx],
         \A e \in todo : CopyOf(e), item # NoItem => CopyOf(item),
         at \notin {"idle", "take"} => item # NoItem,
         at = "receipt" => item.row.relay # 0,
         at \in {"sent", "wait"} => tx # 0 /\ About(item.redeem, tx)'
  PROVE  RelayerOK'
<1>1. \A e \in todo : CopyOf(e)'
  BY CopyStays
<1>2. item # NoItem => CopyOf(item)'
  BY CopyStays
<1>3. /\ relayer' \in [at : RelayerPlaces, todo : SUBSET Listed, item : Items, tx : Nat]
      /\ relayer'.at = at /\ relayer'.todo = todo /\ relayer'.item = item /\ relayer'.tx = tx
  OBVIOUS
<1> QED BY <1>1, <1>2, <1>3 DEF RelayerOK, CopyOf, About, RelayerPlaces

\* The relayer as it stands: its list, the row it is at and its transaction.
LEMMA RelayerFields ==
  ASSUME ReleaseInv
  PROVE  \E todo \in SUBSET Listed, item \in Items, tx \in Nat :
           /\ relayer \in Relayers /\ relayer.todo = todo /\ relayer.item = item /\ relayer.tx = tx
           /\ \A e \in todo : CopyOf(e)
           /\ item # NoItem => CopyOf(item)
           /\ relayer.at \in RelayerPlaces
           /\ relayer.at \notin {"idle", "take"} => item \in Listed /\ CopyOf(item)
           /\ relayer.at = "receipt" => item.row.relay # 0
           /\ relayer.at \in {"sent", "wait"} => tx # 0 /\ About(item.redeem, tx)
  BY DEF ReleaseInv, RelayerOK, Relayers, RelayerPlaces, Items

LEMMA RelayerAlone ==
  ASSUME ReleaseInv, Table', Evolves, ObservedStay, RelayerOK', chain' = chain,
         UNCHANGED <<cursor, watcher, attester, ingest>>
  PROVE  ReleaseInv'
<1>1. WatcherOK' /\ AttesterOK' /\ IngestOK'
  BY ChainHeight, WatcherStays, AttesterStays, IngestStays DEF ObservedStay
<1> QED BY <1>1 DEF Table, ReleaseInv

LEMMA RelayerRests ==
  ASSUME ReleaseInv, Evolves, relayer' = RelayerIdle PROVE RelayerOK'
<1>1. relayer' = [at |-> "idle", todo |-> {}, item |-> NoItem, tx |-> 0]
  BY DEF RelayerIdle
<1>2. NoItem \in Items /\ "idle" \in RelayerPlaces
  BY DEF Items, RelayerPlaces
<1> QED BY <1>1, <1>2, RelayerMoves

LEMMA RelayerGoesOn == ASSUME ReleaseInv, Evolves, RelayNext PROVE RelayerOK'
<1>1. CASE relayer' = RelayerIdle
  BY <1>1, RelayerRests
<1>2. CASE relayer' = [relayer EXCEPT !.at = "take", !.item = NoItem, !.tx = 0]
  <2>1. PICK todo \in SUBSET Listed, item \in Items, tx \in Nat :
          /\ relayer \in Relayers /\ relayer.todo = todo /\ relayer.item = item /\ relayer.tx = tx
          /\ \A e \in todo : CopyOf(e)
    BY RelayerFields
  <2>2. relayer' = [at |-> "take", todo |-> todo, item |-> NoItem, tx |-> 0]
    BY <1>2, <2>1 DEF Relayers
  <2>3. NoItem \in Items /\ "take" \in RelayerPlaces
    BY DEF Items, RelayerPlaces
  <2> QED BY <2>1, <2>2, <2>3, RelayerMoves
<1> QED BY <1>1, <1>2 DEF RelayNext

\* The relayer goes on with its row; once it has sent, with its transaction.
LEMMA RelayerTurns ==
  ASSUME ReleaseInv, Evolves, NEW at \in RelayerPlaces \ {"idle", "take", "receipt"},
         RelayAt(at), relayer.at \notin {"idle", "take"},
         at \in {"sent", "wait"} => relayer.at \in {"sent", "wait"}
  PROVE  RelayerOK'
<1>1. PICK todo \in SUBSET Listed, item \in Items, tx \in Nat :
        /\ relayer \in Relayers /\ relayer.todo = todo /\ relayer.item = item /\ relayer.tx = tx
        /\ \A e \in todo : CopyOf(e)
        /\ item \in Listed /\ CopyOf(item)
        /\ relayer.at \in {"sent", "wait"} => tx # 0 /\ About(item.redeem, tx)
  BY RelayerFields
<1>2. relayer' = [at |-> at, todo |-> todo, item |-> item, tx |-> tx]
  BY <1>1 DEF RelayAt, Relayers
<1>3. item # NoItem
  BY <1>1, ListedFields
<1>4. at \in {"sent", "wait"} => tx # 0 /\ About(item.redeem, tx)'
  BY <1>1 DEF About, Evolves
<1> QED BY <1>1, <1>2, <1>3, <1>4, RelayerMoves

\* The row the relayer is at is authorized, and what it knows of it is about it.
LEMMA RelayerItem ==
  ASSUME ReleaseInv, relayer.at \notin {"idle", "take"}
  PROVE  \E r \in Redeems :
           /\ r = relayer.item.redeem /\ relayer.item \in Listed
           /\ row[r].auth # NoAuth /\ relayer.item.row.auth = row[r].auth
           /\ About(r, relayer.item.row.relay)
           /\ relayer.at = "receipt" => relayer.item.row.relay # 0
           /\ relayer.at \in {"sent", "wait"} => relayer.tx # 0 /\ About(r, relayer.tx)
<1>1. relayer.item \in Listed /\ CopyOf(relayer.item)
  BY DEF ReleaseInv, RelayerOK, Items
<1>2. PICK e \in Listed : e = relayer.item
  BY <1>1
<1>3. PICK r \in Redeems : r = e.redeem
  BY ListedFields
<1> QED BY <1>1, <1>2, <1>3 DEF ReleaseInv, RelayerOK, CopyOf

OnlyRelayer == UNCHANGED Chain /\ chain' = chain /\ UNCHANGED <<cursor, watcher, attester, ingest>>

LEMMA RelayingIs == Relaying => OnlyRelayer
  BY DEF Relaying, OnlyRelayer, chainVars, Chain

\* A step of the relayer that writes no row.
LEMMA QuietRelayer ==
  ASSUME ReleaseInv, Relaying, row' = row PROVE Table' /\ Evolves /\ ObservedStay
<1>1. UNCHANGED Chain /\ cursor' = cursor
  BY RelayingIs DEF OnlyRelayer
<1>2. UNCHANGED <<now, chain, burn, displaced, foreignSet, escrow, settledAs, settledEver, txs>>
      /\ UNCHANGED <<row, cursor>> /\ outside' \in 0 .. MaxOutside
  BY <1>1, StateTypes DEF Chain
<1> QED BY <1>2, SameTable

LEMMA RelayListsKeeps == ASSUME ReleaseInv, RelayLists PROVE ReleaseInv'
<1>1. /\ relayer' = [relayer EXCEPT !.at = "take", !.todo = List(RelayEligible)]
      /\ relayer.at = "idle" /\ row' = row /\ Relaying /\ OnlyRelayer
  BY RelayingIs DEF RelayLists
<1>2. Table' /\ Evolves /\ ObservedStay
  BY <1>1, QuietRelayer
<1>3. List(RelayEligible) \subseteq Listed /\ \A e \in List(RelayEligible) : CopyOf(e)
  BY ListCopies DEF RelayEligible
<1>4. PICK new \in SUBSET Listed : new = List(RelayEligible)
  BY <1>3
<1>5. PICK todo \in SUBSET Listed, item \in Items, tx \in Nat :
        /\ relayer \in Relayers /\ relayer.todo = todo /\ relayer.item = item /\ relayer.tx = tx
        /\ item # NoItem => CopyOf(item)
  BY RelayerFields
<1>6. relayer' = [at |-> "take", todo |-> new, item |-> item, tx |-> tx]
  BY <1>1, <1>4, <1>5 DEF Relayers
<1>7. RelayerOK'
  BY <1>2, <1>3, <1>4, <1>5, <1>6, RelayerMoves DEF RelayerPlaces
<1> QED BY <1>1, <1>2, <1>7, RelayerAlone DEF OnlyRelayer

LEMMA RelayTakesKeeps ==
  ASSUME ReleaseInv, NEW e \in relayer.todo, RelayTakes(e) PROVE ReleaseInv'
<1> DEFINE there == IF e.row.status = "relayed" /\ e.row.relay # 0 THEN "receipt" ELSE "check"
<1>1. /\ relayer' = [relayer EXCEPT !.at = there, !.todo = @ \ {e}, !.item = e]
      /\ row' = row /\ Relaying /\ OnlyRelayer
  BY RelayingIs DEF RelayTakes
<1>2. Table' /\ Evolves /\ ObservedStay
  BY <1>1, QuietRelayer
<1>3. PICK todo \in SUBSET Listed, item \in Items, tx \in Nat :
        /\ relayer \in Relayers /\ relayer.todo = todo /\ relayer.item = item /\ relayer.tx = tx
        /\ \A f \in todo : CopyOf(f)
  BY RelayerFields
<1>4. e \in Listed /\ CopyOf(e) /\ e \in Items /\ e # NoItem
  BY <1>3, ListedFields DEF Items
<1>5. PICK rest \in SUBSET Listed : rest = todo \ {e}
  OBVIOUS
<1>6. PICK at \in {"receipt", "check"} : at = there /\ (at = "receipt" => e.row.relay # 0)
  OBVIOUS
<1> HIDE DEF there
<1>7. relayer' = [at |-> at, todo |-> rest, item |-> e, tx |-> tx]
  BY <1>1, <1>3, <1>5, <1>6 DEF Relayers
<1>8. RelayerOK'
  BY <1>2, <1>3, <1>4, <1>5, <1>6, <1>7, RelayerMoves DEF RelayerPlaces
<1> QED BY <1>1, <1>2, <1>8, RelayerAlone DEF OnlyRelayer

\* A row becomes consumed at a receipt of its own or at a consumed redeem id.
LEMMA ConsumedKeeps ==
  ASSUME ReleaseInv, relayer.at \notin {"idle", "take"}, MarkConsumed(relayer.item.redeem),
         relayer.item.redeem \in settledEver, RelayNext, Relaying
  PROVE  ReleaseInv'
<1>1. PICK r \in Redeems : r = relayer.item.redeem /\ row[r].auth # NoAuth
  BY RelayerItem
<1>2. OnlyRelayer
  BY RelayingIs
<1>3. Table' /\ Evolves /\ ObservedStay
  BY <1>1, <1>2, MarkedStatus DEF MarkConsumed, Marks, OnlyRelayer
<1> QED BY <1>2, <1>3, RelayerGoesOn, RelayerAlone DEF OnlyRelayer

LEMMA RelayReceiptKeeps == ASSUME ReleaseInv, RelayReceipt PROVE ReleaseInv'
<1>1. relayer.at = "receipt" /\ Relaying /\ OnlyRelayer
  BY RelayingIs DEF RelayReceipt
<1>2. PICK r \in Redeems : /\ r = relayer.item.redeem /\ row[r].auth # NoAuth
                           /\ relayer.item.row.relay \in DOMAIN txs
                           /\ txs[relayer.item.row.relay].redeem = r
  BY <1>1, RelayerItem DEF About
<1>3. CASE /\ txs[relayer.item.row.relay].state = "mined"
           /\ MarkConsumed(relayer.item.redeem) /\ RelayNext
  BY <1>1, <1>2, <1>3, SettledBefore, ConsumedKeeps
<1>4. CASE MarkRelayFailed(relayer.item.redeem) /\ RelayNext
  <2>1. row' = [row EXCEPT ![r].status = "attested", ![r].relay = 0]
    BY <1>2, <1>4 DEF MarkRelayFailed
  <2>2. Table' /\ Evolves /\ ObservedStay
    BY <1>1, <1>2, <2>1, MarkedRelay DEF About, OnlyRelayer
  <2> QED BY <1>1, <1>4, <2>2, RelayerGoesOn, RelayerAlone DEF OnlyRelayer
<1>5. CASE row' = row /\ RelayAt("pending")
  <2>1. Table' /\ Evolves /\ ObservedStay
    BY <1>1, <1>5, QuietRelayer
  <2> QED BY <1>1, <1>5, <2>1, RelayerTurns, RelayerAlone DEF OnlyRelayer, RelayerPlaces
<1> QED BY <1>3, <1>4, <1>5 DEF RelayReceipt

LEMMA RelayFindsConsumedKeeps == ASSUME ReleaseInv, RelayFindsConsumed PROVE ReleaseInv'
<1>1. PICK r \in Redeems : /\ r = relayer.item.redeem /\ row[r].auth # NoAuth
                           /\ relayer.item.row.auth = row[r].auth
  BY RelayerItem DEF RelayFindsConsumed
<1>2. settledAs[r] = row[r].auth.log
  BY <1>1 DEF RelayFindsConsumed, Consumed, IsRedeemIdConsumed
<1>3. row[r].auth.log # 0
  BY <1>1, StateTypes, RowFields DEF ReleaseInv, RowsAtBurns, RowAtBurn
<1>4. r \in settledEver
  BY <1>2, <1>3 DEF ReleaseInv, BurnsInBlocks
<1> QED BY <1>1, <1>4, ConsumedKeeps DEF RelayFindsConsumed

LEMMA RelayQuietKeeps ==
  ASSUME ReleaseInv, RelayStaysPending \/ RelayChecks \/ RelayRefused \/ RelayReverts
  PROVE  ReleaseInv'
<1>1. row' = row /\ Relaying /\ OnlyRelayer
  BY RelayingIs DEF RelayStaysPending, RelayChecks, RelayRefused, RelayReverts
<1>2. Table' /\ Evolves /\ ObservedStay
  BY <1>1, QuietRelayer
<1>3. RelayerOK'
  BY <1>2, RelayerGoesOn, RelayerRests, RelayerTurns
  DEF RelayStaysPending, RelayChecks, RelayRefused, RelayReverts, RelayerPlaces
<1> QED BY <1>1, <1>2, <1>3, RelayerAlone DEF OnlyRelayer

LEMMA RelayRecordsKeeps == ASSUME ReleaseInv, RelayRecords PROVE ReleaseInv'
<1>1. relayer.at = "sent" /\ RelayAt("wait") /\ Relaying /\ OnlyRelayer
      /\ MarkRelayed(relayer.item.redeem, relayer.tx)
  BY RelayingIs DEF RelayRecords
<1>2. PICK r \in Redeems : /\ r = relayer.item.redeem /\ row[r].auth # NoAuth
                           /\ About(r, relayer.tx)
  BY <1>1, RelayerItem
<1>3. PICK tx \in Nat : tx = relayer.tx
  BY RelayerFields
<1>4. Table' /\ Evolves /\ ObservedStay
  BY <1>1, <1>2, <1>3, MarkedRelay DEF MarkRelayed, OnlyRelayer
<1>5. RelayerOK'
  BY <1>1, <1>4, RelayerTurns DEF RelayerPlaces
<1> QED BY <1>1, <1>4, <1>5, RelayerAlone DEF OnlyRelayer

LEMMA RelayEndsKeeps == ASSUME ReleaseInv, RelayEnds PROVE ReleaseInv'
<1>1. PICK r \in Redeems : /\ r = relayer.item.redeem /\ relayer.tx \in DOMAIN txs
                           /\ txs[relayer.tx].redeem = r
  BY RelayerItem DEF RelayEnds, About
<1> QED BY <1>1, SettledBefore, ConsumedKeeps DEF RelayEnds

\* What the relayer sends carries the authorization of the row, signed.
LEMMA RelaySendsKeeps == ASSUME ReleaseInv, RelaySends PROVE ReleaseInv'
<1>1. /\ relayer.at = "send" /\ Completable(Completion) /\ txs' = Append(txs, Completion)
      /\ relayer' = [relayer EXCEPT !.at = "sent", !.tx = Len(txs) + 1]
      /\ UNCHANGED <<now, chain, burn, displaced, foreignSet, escrow, settledAs, settledEver, outside>>
      /\ UNCHANGED <<row, cursor, watcher, attester, ingest>>
  BY DEF RelaySends, BurnsAndSigners, Gateway, storeVars
<1>2. PICK todo \in SUBSET Listed, item \in Items, tx \in Nat :
        /\ relayer \in Relayers /\ relayer.todo = todo /\ relayer.item = item /\ relayer.tx = tx
        /\ \A e \in todo : CopyOf(e)
        /\ item \in Listed /\ CopyOf(item)
  BY <1>1, RelayerFields
<1>3. PICK r \in Redeems : r = item.redeem
  BY <1>2, ListedFields
<1>4. /\ row[r].auth # NoAuth /\ item.row.auth = row[r].auth /\ item.row.att = item.row.auth
      /\ row[r].auth \in Authorization
  BY <1>1, <1>2, <1>3, StateTypes, RowFields DEF CopyOf, Completable, Completion
<1> DEFINE t == Completion
<1>5. /\ t \in Tx /\ t.redeem = r /\ t.auth = row[r].auth /\ t.att = t.auth
      /\ t.state = "pending"
  BY <1>2, <1>3, <1>4 DEF Completion, Tx
<1> HIDE DEF t
<1>6. /\ txs' \in Seq(Tx) /\ Len(txs') = Len(txs) + 1 /\ txs'[Len(txs) + 1] = t
      /\ \A i \in 1 .. Len(txs) : txs'[i] = txs[i]
  BY <1>1, <1>5, StateTypes, AppendProperties DEF t
<1>7. /\ Len(txs) \in Nat /\ DOMAIN txs = 1 .. Len(txs) /\ DOMAIN txs' = 1 .. Len(txs) + 1
  BY <1>6, StateTypes, LenProperties
<1>8. \A i \in DOMAIN txs : i \in DOMAIN txs' /\ txs'[i] = txs[i]
  BY <1>6, <1>7
<1>9. \A i \in DOMAIN txs' : i \in DOMAIN txs \/ txs'[i] = t
  BY <1>6, <1>7
<1>10. Evolves /\ ObservedStay
  BY <1>1, <1>8 DEF Evolves, ObservedStay
<1>11. Table'
  <2>1. ChainTypeOK' /\ StoreTypeOK' /\ BurnsInBlocks' /\ CursorFinal'
    BY <1>1, <1>6 DEF ReleaseInv, ChainTypeOK, StoreTypeOK, BurnsInBlocks, CursorFinal
  <2>2. RowsAtBurns' /\ ScanMissesNoBurn'
    BY <1>1 DEF ReleaseInv, RowsAtBurns, RowAtBurn, ScanMissesNoBurn
  <2>3. RowsHold'
    BY <1>1, <1>8 DEF ReleaseInv, RowsHold, RowHolds, About
  <2>4. TxsHold'
    <3> SUFFICES ASSUME NEW i \in DOMAIN txs' PROVE TxHolds(i)'
      BY DEF TxsHold
    <3>1. CASE i \in DOMAIN txs
      BY <1>1, <1>8, <3>1 DEF ReleaseInv, TxsHold, TxHolds
    <3>2. CASE txs'[i] = t
      BY <1>1, <1>5, <3>2 DEF TxHolds
    <3> QED BY <1>9, <3>1, <3>2
  <2> QED BY <2>1, <2>2, <2>3, <2>4 DEF Table
<1>12. PICK n \in Nat : n = Len(txs) + 1
  BY <1>7
<1>13. n # 0 /\ n \in DOMAIN txs' /\ txs'[n] = t
  BY <1>6, <1>7, <1>12
<1>14. relayer' = [at |-> "sent", todo |-> todo, item |-> item, tx |-> n]
  BY <1>1, <1>2, <1>12 DEF Relayers
<1>15. About(item.redeem, n)' /\ item # NoItem
  BY <1>2, <1>3, <1>5, <1>13, ListedFields DEF About
<1>16. RelayerOK'
  BY <1>2, <1>10, <1>13, <1>14, <1>15, RelayerMoves DEF RelayerPlaces
<1> QED BY <1>1, <1>10, <1>11, <1>16, RelayerAlone

-----------------------------------------------------------------------------
(* The watcher.                                                             *)

LEMMA WatcherAlone ==
  ASSUME ReleaseInv, Table', Evolves, WatcherOK', UNCHANGED <<attester, relayer, ingest>>
  PROVE  ReleaseInv'
<1>1. AttesterOK' /\ RelayerOK' /\ IngestOK'
  BY AttesterStays, RelayerStays, IngestStays
<1> QED BY <1>1 DEF Table, ReleaseInv

LEMMA WatcherRests == ASSUME watcher' = WatcherIdle PROVE WatcherOK'
<1>1. watcher' = [at |-> "idle", latest |-> 0, time |-> 0, todo |-> {}]
  BY DEF WatcherIdle
<1> QED BY <1>1, ConstantTypes DEF WatcherOK

\* A listing of the table as it is: what is listed is observed.
LEMMA WatcherLists ==
  ASSUME ReleaseInv, NEW rows, row' = rows, NEW latest \in 0 .. MaxBlock,
         WatchLists(rows, latest)
  PROVE  WatcherOK'
<1> DEFINE eligible == FinalityEligible(rows, FinalizedBlock(latest))
<1>1. eligible \in SUBSET Redeems /\ \A r \in eligible : rows[r].status = "observed"
  BY DEF FinalityEligible
<1>2. \/ watcher' = WatcherIdle
      \/ watcher' = [at |-> "authorize", latest |-> latest, time |-> now, todo |-> eligible]
  BY DEF WatchLists
<1> HIDE DEF eligible
<1>3. CASE watcher' = [at |-> "authorize", latest |-> latest, time |-> now, todo |-> eligible]
  <2>1. now \in 0 .. MaxTime
    BY StateTypes
  <2> QED BY <1>1, <1>3, <2>1 DEF WatcherOK
<1> QED BY <1>2, <1>3, WatcherRests

LEMMA WatchAsksKeeps == ASSUME ReleaseInv, WatchBegins PROVE ReleaseInv'
<1>1. /\ watcher' = [WatcherIdle EXCEPT !.at = "scan", !.latest = Len(chain)]
      /\ cursor + 1 <= Len(chain) - FinalityBlocks
      /\ UNCHANGED <<now, chain, burn, displaced, foreignSet, escrow, settledAs, settledEver,
                    txs, outside>>
      /\ UNCHANGED <<row, cursor, attester, relayer, ingest>>
  <2>1. cursor + 1 <= Len(chain) - FinalityBlocks
    BY StateTypes, ConstantTypes DEF WatchBegins, FinalizedBlock
  <2> QED BY <2>1 DEF WatchBegins, WatchAsks, Watching, storeVars, chainVars
<1>2. Table' /\ Evolves
  BY <1>1, SameTable, StateTypes
<1>3. PICK latest \in 0 .. MaxBlock : latest = Len(chain)
  BY StateTypes
<1>4. watcher' = [at |-> "scan", latest |-> latest, time |-> 0, todo |-> {}]
  BY <1>1, <1>3 DEF WatcherIdle
<1>5. latest <= Len(chain') /\ cursor' + 1 <= latest - FinalityBlocks
  BY <1>1, <1>3
<1>6. /\ watcher' \in [at : {"idle", "scan", "authorize"}, latest : 0 .. MaxBlock,
                       time : 0 .. MaxTime, todo : SUBSET Redeems]
      /\ watcher'.latest = latest /\ watcher'.todo = {}
  BY <1>4, ConstantTypes
<1>7. WatcherOK'
  BY <1>5, <1>6 DEF WatcherOK
<1> QED BY <1>1, <1>2, <1>7, WatcherAlone

LEMMA WatchSkipsScanKeeps == ASSUME ReleaseInv, WatchSkipsScan PROVE ReleaseInv'
<1>1. /\ WatchLists(row, Len(chain))
      /\ UNCHANGED <<now, chain, burn, displaced, foreignSet, escrow, settledAs, settledEver,
                    txs, outside>>
      /\ UNCHANGED <<row, cursor, attester, relayer, ingest>>
  BY DEF WatchSkipsScan, Watching, storeVars, chainVars
<1>2. Table' /\ Evolves
  BY <1>1, SameTable, StateTypes
<1>3. PICK latest \in 0 .. MaxBlock : latest = Len(chain)
  BY StateTypes
<1>4. PICK rows : rows = row
  OBVIOUS
<1>5. WatcherOK'
  BY <1>1, <1>3, <1>4, WatcherLists
<1> QED BY <1>1, <1>2, <1>5, WatcherAlone

Event(r) == [block |-> burn[r].block, hash |-> chain[burn[r].block], log |-> burn[r].log]

\* A refreshed row keeps all but where its burn is seen.
LEMMA UpsertedFields ==
  ASSUME NEW old \in Row, NEW event \in [block : Nat, hash : Nat, log : Nat]
  PROVE  LET u == Upserted(old, event) IN
           /\ u \in Row
           /\ u.block = event.block /\ u.hash = event.hash /\ u.log = event.log
           /\ u.status = IF old.status = "absent" THEN "observed" ELSE old.status
           /\ u.auth = old.auth /\ u.att = old.att /\ u.relay = old.relay
  BY DEF Upserted, Row, Statuses

\* Events of final blocks past the cursor put rows where the burns are, again or
\* for the first time, and touch no authorization.
LEMMA UpsertKeeps ==
  ASSUME ReleaseInv, NEW written \in SUBSET Redeems,
         \A r \in written : /\ burn[r].block \in DOMAIN chain
                            /\ burn[r].block \in 1 .. Len(chain) - FinalityBlocks,
         row' = [r \in Redeems |-> IF r \in written THEN Upserted(row[r], Event(r)) ELSE row[r]],
         UNCHANGED <<chain, burn, displaced, settledEver, txs>>
  PROVE  /\ row' \in [Redeems -> Row] /\ RowsAtBurns' /\ RowsHold' /\ TxsHold' /\ Evolves
         /\ \A r \in Redeems : row[r].status # "absent" => row'[r].status # "absent"
         /\ \A r \in written : row'[r].status # "absent"
<1>1. \A r \in written : Event(r) \in [block : Nat, hash : Nat, log : Nat]
  BY StateTypes, BurnTypes DEF Event
<1>2. \A r \in written : row[r] \in Row /\ row'[r] = Upserted(row[r], Event(r))
  BY StateTypes
<1>3. \A r \in written :
        /\ row'[r] \in Row /\ row'[r].block = burn[r].block
        /\ row'[r].hash = chain[burn[r].block] /\ row'[r].log = burn[r].log
        /\ row'[r].status = IF row[r].status = "absent" THEN "observed" ELSE row[r].status
        /\ row'[r].auth = row[r].auth /\ row'[r].att = row[r].att
        /\ row'[r].relay = row[r].relay
  BY <1>1, <1>2, UpsertedFields DEF Event
<1>4. \A r \in Redeems \ written : row'[r] = row[r]
  OBVIOUS
<1>5. row' \in [Redeems -> Row]
  BY <1>3, <1>4, StateTypes
<1>6. \A r \in Redeems : /\ row'[r].auth = row[r].auth
                         /\ row[r].status # "absent" => row'[r].status # "absent"
  BY <1>3, <1>4
<1>7. RowsHold'
  <2> SUFFICES ASSUME NEW r \in Redeems PROVE RowHolds(r)'
    BY DEF RowsHold
  <2>1. RowHolds(r)
    BY DEF ReleaseInv, RowsHold
  <2>2. CASE r \in written
    BY <1>3, <2>1, <2>2 DEF RowHolds, About
  <2>3. CASE r \notin written
    BY <1>4, <2>1, <2>3 DEF RowHolds, About
  <2> QED BY <2>2, <2>3
<1>8. TxsHold'
  BY <1>6, StateTypes DEF ReleaseInv, TxsHold, TxHolds
<1>9. RowsAtBurns'
  <2> SUFFICES ASSUME NEW r \in Redeems PROVE RowAtBurn(r)'
    BY DEF RowsAtBurns
  <2>1. RowAtBurn(r) /\ RowHolds(r)
    BY DEF ReleaseInv, RowsAtBurns, RowsHold
  <2>2. CASE r \in written
    <3>1. burn[r].log > 0
      BY <2>2, StateTypes, BurnTypes DEF ReleaseInv, BurnsInBlocks
    <3>2. row[r].auth # NoAuth => row[r].status # "absent"
      BY <2>1 DEF RowHolds
    <3> QED BY <1>3, <2>1, <2>2, <3>1, <3>2 DEF RowAtBurn
  <2>3. CASE r \notin written
    BY <1>4, <2>1, <2>3 DEF RowAtBurn
  <2> QED BY <2>2, <2>3
<1>10. Evolves
  BY <1>6 DEF Evolves
<1>11. \A r \in written : row'[r].status # "absent"
  BY <1>3
<1> QED BY <1>5, <1>6, <1>7, <1>8, <1>9, <1>10, <1>11

LEMMA ToBlockFinal ==
  ASSUME ReleaseInv, watcher.at = "scan"
  PROVE  /\ ToBlock \in Nat /\ cursor < ToBlock /\ ToBlock <= Len(chain) - FinalityBlocks
         /\ ToBlock <= Len(chain) /\ watcher.latest \in 0 .. MaxBlock
<1>1. /\ watcher.latest \in 0 .. MaxBlock /\ watcher.latest <= Len(chain)
      /\ cursor + 1 <= watcher.latest - FinalityBlocks
  BY DEF ReleaseInv, WatcherOK
<1>2. cursor \in Nat /\ Len(chain) \in Nat /\ MaxBlock \in Nat
      /\ FinalityBlocks \in Nat /\ BatchSize \in Nat \ {0}
  BY StateTypes, ConstantTypes
<1>3. ToBlock \in {watcher.latest - FinalityBlocks, cursor + BatchSize}
      /\ ToBlock <= watcher.latest - FinalityBlocks
  BY <1>1, <1>2 DEF ToBlock, FinalizedBlock
<1> QED BY <1>1, <1>2, <1>3

EventBlocks == {s \in Redeems : burn[s].block \in cursor + 1 .. ToBlock}

LEMMA EventsAre ==
  /\ DOMAIN EventsTo(ToBlock) = EventBlocks
  /\ \A r \in EventBlocks : EventsTo(ToBlock)[r] = Event(r)
  BY DEF EventsTo, EventBlocks, Event

LEMMA EventsFinal ==
  ASSUME ReleaseInv, watcher.at = "scan", NEW r \in EventBlocks
  PROVE  /\ burn[r].block \in DOMAIN chain
         /\ burn[r].block \in 1 .. Len(chain) - FinalityBlocks
<1>1. r \in Redeems /\ burn[r].block \in cursor + 1 .. ToBlock
  BY DEF EventBlocks
<1>2. /\ burn[r].block \in Nat /\ cursor \in Nat /\ Len(chain) \in Nat
      /\ DOMAIN chain = 1 .. Len(chain) /\ FinalityBlocks \in Nat
  BY <1>1, StateTypes, BurnTypes, ConstantTypes
<1>3. ToBlock \in Nat /\ ToBlock <= Len(chain) - FinalityBlocks /\ ToBlock <= Len(chain)
  BY ToBlockFinal
<1> QED BY <1>1, <1>2, <1>3

\* The scan records every burn up to the block the cursor moves to.
LEMMA WatchScansKeeps == ASSUME ReleaseInv, WatchScans PROVE ReleaseInv'
<1>1. /\ watcher.at = "scan" /\ UpsertRedeemEvents(EventsTo(ToBlock)) /\ cursor' = ToBlock
      /\ WatchLists(row', watcher.latest)
      /\ UNCHANGED <<now, chain, burn, displaced, foreignSet, escrow, settledAs, settledEver,
                    txs, outside>>
      /\ UNCHANGED <<attester, relayer, ingest>>
  BY DEF WatchScans, SetCursor, Watching, chainVars
<1>2. PICK written \in SUBSET Redeems : written = EventBlocks
  BY DEF EventBlocks
<1>3. row' = [r \in Redeems |-> IF r \in written THEN Upserted(row[r], Event(r)) ELSE row[r]]
  BY <1>1, <1>2, EventsAre DEF UpsertRedeemEvents
<1>4. \A r \in written : /\ burn[r].block \in DOMAIN chain
                         /\ burn[r].block \in 1 .. Len(chain) - FinalityBlocks
  BY <1>1, <1>2, EventsFinal
<1>5. /\ row' \in [Redeems -> Row] /\ RowsAtBurns' /\ RowsHold' /\ TxsHold' /\ Evolves
      /\ \A r \in Redeems : row[r].status # "absent" => row'[r].status # "absent"
      /\ \A r \in written : row'[r].status # "absent"
  BY <1>1, <1>3, <1>4, UpsertKeeps
<1>6. /\ cursor' \in Nat /\ cursor' <= Len(chain) - FinalityBlocks /\ cursor \in Nat
      /\ watcher.latest \in 0 .. MaxBlock
  BY <1>1, ToBlockFinal, StateTypes
<1>7. ChainTypeOK' /\ StoreTypeOK' /\ BurnsInBlocks' /\ CursorFinal'
  BY <1>1, <1>5, <1>6 DEF ReleaseInv, ChainTypeOK, StoreTypeOK, BurnsInBlocks, CursorFinal
<1>8. ScanMissesNoBurn'
  <2> SUFFICES ASSUME NEW r \in Redeems \ displaced, burn[r].block \in 1 .. cursor'
               PROVE  /\ row'[r].status # "absent"
                      /\ row'[r].block = burn[r].block /\ row'[r].log = burn[r].log
    BY <1>1 DEF ScanMissesNoBurn
  <2>1. row'[r].status # "absent"
    <3>1. CASE burn[r].block <= cursor
      <4>1. burn[r].block \in 1 .. cursor
        BY <1>6, <3>1
      <4> QED BY <1>5, <4>1 DEF ReleaseInv, ScanMissesNoBurn
    <3>2. CASE ~(burn[r].block <= cursor)
      <4>1. burn[r].block \in cursor + 1 .. ToBlock
        BY <1>1, <1>6, <3>2
      <4>2. r \in written
        BY <1>2, <4>1 DEF EventBlocks
      <4> QED BY <1>5, <4>2
    <3> QED BY <3>1, <3>2
  <2> QED BY <1>1, <1>5, <2>1 DEF RowsAtBurns, RowAtBurn
<1>9. PICK rows : rows = row'
  OBVIOUS
<1>10. WatcherOK'
  BY <1>1, <1>6, <1>9, WatcherLists
<1> QED BY <1>1, <1>5, <1>7, <1>8, <1>10, WatcherAlone DEF Table

\* A scan cut short wrote some rows and left the cursor: it is done again.
LEMMA WatchScanCutKeeps == ASSUME ReleaseInv, WatchScanCut PROVE ReleaseInv'
<1>1. /\ watcher.at = "scan" /\ Outside /\ watcher' = WatcherIdle
      /\ UNCHANGED <<now, chain, burn, displaced, foreignSet, escrow, settledAs, settledEver,
                    txs, cursor>>
      /\ UNCHANGED <<attester, relayer, ingest>>
  BY DEF WatchScanCut, BurnsAndSigners, Gateway
<1>2. PICK written \in SUBSET EventBlocks :
        UpsertRedeemEvents([r \in written |-> EventsTo(ToBlock)[r]])
  BY EventsAre DEF WatchScanCut
<1>3. written \in SUBSET Redeems
  BY DEF EventBlocks
<1>4. row' = [r \in Redeems |-> IF r \in written THEN Upserted(row[r], Event(r)) ELSE row[r]]
  BY <1>2, EventsAre DEF UpsertRedeemEvents
<1>5. \A r \in written : /\ burn[r].block \in DOMAIN chain
                         /\ burn[r].block \in 1 .. Len(chain) - FinalityBlocks
  BY <1>1, EventsFinal
<1>6. /\ row' \in [Redeems -> Row] /\ RowsAtBurns' /\ RowsHold' /\ TxsHold' /\ Evolves
      /\ \A r \in Redeems : row[r].status # "absent" => row'[r].status # "absent"
  BY <1>1, <1>3, <1>4, <1>5, UpsertKeeps
<1>7. outside' \in 0 .. MaxOutside
  BY <1>1, OutsideTypes
<1>8. ChainTypeOK' /\ StoreTypeOK' /\ BurnsInBlocks' /\ CursorFinal'
  BY <1>1, <1>6, <1>7 DEF ReleaseInv, ChainTypeOK, StoreTypeOK, BurnsInBlocks, CursorFinal
<1>9. ScanMissesNoBurn'
  <2> SUFFICES ASSUME NEW r \in Redeems \ displaced, burn[r].block \in 1 .. cursor
               PROVE  /\ row'[r].status # "absent"
                      /\ row'[r].block = burn[r].block /\ row'[r].log = burn[r].log
    BY <1>1 DEF ScanMissesNoBurn
  <2>1. row'[r].status # "absent"
    BY <1>6 DEF ReleaseInv, ScanMissesNoBurn
  <2> QED BY <1>1, <1>6, <2>1 DEF RowsAtBurns, RowAtBurn
<1> QED BY <1>1, <1>6, <1>8, <1>9, WatcherRests, WatcherAlone DEF Table

\* The one step that authorizes: the row was never authorized before, so nothing
\* was ever sent for it and no process holds a copy.
LEMMA WatchAuthorizesKeeps ==
  ASSUME ReleaseInv, NEW r \in Redeems, WatchAuthorizes(r) PROVE ReleaseInv'
<1> DEFINE auth == [log |-> row[r].log, deadline |-> watcher.time + AuthorizationTtl]
           q == [row[r] EXCEPT !.status = "authorized", !.auth = auth, !.att = NoAuth,
                               !.relay = 0]
<1>1. /\ watcher.at = "authorize" /\ r \in watcher.todo
      /\ MarkAuthorized(r, auth)
      /\ \/ watcher' = WatcherIdle
         \/ watcher' = [watcher EXCEPT !.todo = @ \ {r}]
      /\ UNCHANGED <<now, chain, burn, displaced, foreignSet, escrow, settledAs, settledEver,
                    txs, outside>>
      /\ UNCHANGED <<cursor, attester, relayer, ingest>>
  BY DEF WatchAuthorizes, WatchNext, Watching, chainVars
<1>2. row[r].status = "observed" /\ row[r] \in Row /\ row \in [Redeems -> Row]
      /\ RowHolds(r) /\ RowAtBurn(r) /\ watcher.time \in Nat
  BY <1>1, StateTypes, ConstantTypes DEF ReleaseInv, WatcherOK, RowsHold, RowsAtBurns
<1>3. auth \in Authorization /\ auth.log = row[r].log /\ auth # NoAuth
  BY <1>2, RowFields, ConstantTypes DEF Authorization
<1> HIDE DEF auth
<1>4. row' = [row EXCEPT ![r] = q]
  BY <1>1, <1>2 DEF MarkAuthorized
<1>5. /\ q \in Row /\ q.status = "authorized" /\ q.auth = auth /\ q.att = NoAuth /\ q.relay = 0
      /\ q.block = row[r].block /\ q.hash = row[r].hash /\ q.log = row[r].log
  BY <1>2, <1>3 DEF Row, Statuses
<1> HIDE DEF q
<1>6. /\ row' \in [Redeems -> Row] /\ row'[r] = q
      /\ \A s \in Redeems : s # r => row'[s] = row[s]
  BY <1>2, <1>4, <1>5
<1>7. row[r].auth = NoAuth
  BY <1>2 DEF RowHolds
<1>8. Evolves
  BY <1>1, <1>6, <1>7 DEF Evolves
<1>9. ChainTypeOK' /\ StoreTypeOK' /\ BurnsInBlocks' /\ CursorFinal'
  BY <1>1, <1>6 DEF ReleaseInv, ChainTypeOK, StoreTypeOK, BurnsInBlocks, CursorFinal
<1>10. RowsAtBurns'
  <2> SUFFICES ASSUME NEW s \in Redeems PROVE RowAtBurn(s)'
    BY DEF RowsAtBurns
  <2>1. CASE s = r
    BY <1>1, <1>2, <1>3, <1>5, <1>6, <2>1 DEF RowAtBurn
  <2>2. CASE s # r
    BY <1>1, <1>6, <2>2 DEF ReleaseInv, RowsAtBurns, RowAtBurn
  <2> QED BY <2>1, <2>2
<1>11. ScanMissesNoBurn'
  BY <1>1, <1>5, <1>6 DEF ReleaseInv, ScanMissesNoBurn
<1>12. RowsHold'
  <2> SUFFICES ASSUME NEW s \in Redeems PROVE RowHolds(s)'
    BY DEF RowsHold
  <2>1. CASE s = r
    BY <1>3, <1>5, <1>6, <2>1 DEF RowHolds, About
  <2>2. CASE s # r
    BY <1>1, <1>6, <2>2 DEF ReleaseInv, RowsHold, RowHolds, About
  <2> QED BY <2>1, <2>2
<1>13. TxsHold'
  <2> SUFFICES ASSUME NEW i \in DOMAIN txs PROVE TxHolds(i)'
    BY <1>1 DEF TxsHold
  <2>1. TxHolds(i) /\ txs[i].redeem \in Redeems /\ txs[i].auth \in Authorization
    BY StateTypes DEF ReleaseInv, TxsHold
  <2>2. txs[i].redeem # r
    BY <1>7, <2>1, ConstantTypes DEF TxHolds
  <2> QED BY <1>1, <1>6, <2>1, <2>2 DEF TxHolds
<1>14. WatcherOK'
  <2>1. CASE watcher' = WatcherIdle
    BY <2>1, WatcherRests
  <2>2. CASE watcher' = [watcher EXCEPT !.todo = @ \ {r}]
    <3>1. WatcherOK
      BY DEF ReleaseInv
    <3>2. /\ watcher' \in [at : {"idle", "scan", "authorize"}, latest : 0 .. MaxBlock,
                           time : 0 .. MaxTime, todo : SUBSET Redeems]
          /\ watcher'.at = "authorize" /\ watcher'.todo = watcher.todo \ {r}
      BY <1>1, <2>2, <3>1 DEF WatcherOK
    <3>3. \A s \in watcher'.todo : row'[s].status = "observed"
      BY <1>6, <3>1, <3>2 DEF WatcherOK
    <3> QED BY <3>2, <3>3 DEF WatcherOK
  <2> QED BY <1>1, <2>1, <2>2
<1> QED BY <1>1, <1>8, <1>9, <1>10, <1>11, <1>12, <1>13, <1>14, WatcherAlone DEF Table

LEMMA WatchStopsKeeps ==
  ASSUME ReleaseInv, NEW r \in Redeems, WatchStops(r) PROVE ReleaseInv'
<1>1. /\ watcher' = WatcherIdle
      /\ UNCHANGED <<now, chain, burn, displaced, foreignSet, escrow, settledAs, settledEver,
                    txs, outside>>
      /\ UNCHANGED <<row, cursor, attester, relayer, ingest>>
  BY DEF WatchStops, Watching, storeVars, chainVars
<1>2. Table' /\ Evolves
  BY <1>1, SameTable, StateTypes
<1> QED BY <1>1, <1>2, WatcherRests, WatcherAlone

-----------------------------------------------------------------------------
(* The invariant, and what follows from it.                                 *)

\* A process that ends forgets its list, and nothing else.
LEMMA CrashKeeps == ASSUME ReleaseInv, Crash PROVE ReleaseInv'
<1>1. /\ Outside
      /\ UNCHANGED <<now, chain, burn, displaced, foreignSet, escrow, settledAs, settledEver, txs>>
      /\ UNCHANGED <<row, cursor, ingest>>
  BY DEF Crash, BurnsAndSigners, Gateway, storeVars
<1>2. Table' /\ Evolves /\ ObservedStay
  BY <1>1, OutsideTypes, SameTable
<1>3. CASE watcher' = WatcherIdle /\ UNCHANGED <<attester, relayer>>
  BY <1>1, <1>2, <1>3, WatcherRests, WatcherAlone
<1>4. CASE attester' = AttesterIdle /\ UNCHANGED <<watcher, relayer>>
  BY <1>1, <1>2, <1>4, AttesterRests, AttesterAlone
<1>5. CASE relayer' = RelayerIdle /\ UNCHANGED <<watcher, attester>>
  BY <1>1, <1>2, <1>5, RelayerRests, RelayerAlone
<1> QED BY <1>3, <1>4, <1>5 DEF Crash

LEMMA StutterKeeps == ASSUME ReleaseInv, UNCHANGED vars PROVE ReleaseInv'
<1>1. /\ UNCHANGED <<now, chain, burn, displaced, foreignSet, escrow, settledAs, settledEver,
                    txs, outside>>
      /\ UNCHANGED <<row, cursor, watcher, attester, relayer, ingest>>
  BY DEF vars, chainVars, storeVars, serviceVars
<1>2. Table' /\ Evolves /\ ObservedStay
  BY <1>1, StateTypes, SameTable
<1>3. AttesterOK'
  BY <1>1, <1>2, AttesterStays
<1> QED BY <1>1, <1>2, <1>3, AttesterAlone

LEMMA InitInv == ASSUME Init PROVE ReleaseInv
<1>1. /\ now = 0 /\ chain = << >> /\ burn = [r \in Redeems |-> Unburned]
      /\ escrow = [r \in Redeems |-> "NONE"] /\ settledAs = [r \in Redeems |-> 0]
      /\ txs = << >> /\ settledEver = {} /\ displaced = {} /\ outside = 0
      /\ row = [r \in Redeems |-> NoRow] /\ cursor = 0
      /\ ingest = NoItem
      /\ watcher = [at |-> "idle", latest |-> 0, time |-> 0, todo |-> {}]
      /\ attester = [at |-> "idle", time |-> 0, todo |-> {}, item |-> NoItem]
      /\ relayer = [at |-> "idle", todo |-> {}, item |-> NoItem, tx |-> 0]
  BY DEF Init, ChainInit, StoreInit, WatcherIdle, AttesterIdle, RelayerIdle
<1>2. /\ NoRow \in Row /\ NoRow.status = "absent" /\ NoRow.auth = NoAuth /\ NoRow.att = NoAuth
      /\ NoRow.relay = 0
  BY DEF NoRow, Row, Statuses
<1>3. chain \in Seq(Nat) /\ Len(chain) = 0 /\ txs \in Seq(Tx) /\ DOMAIN txs = {}
  BY <1>1, EmptySeq
<1>4. Unburned \in [block : Nat, log : Nat] /\ Unburned.block = 0
  BY DEF Unburned
<1>5. ChainTypeOK /\ StoreTypeOK
  <2>1. foreignSet \in BOOLEAN
    BY DEF Init, ChainInit
  <2> QED BY <1>1, <1>2, <1>3, <1>4, <2>1, ConstantTypes DEF ChainTypeOK, StoreTypeOK
<1>6. BurnsInBlocks /\ CursorFinal
  BY <1>1, <1>3, <1>4, ConstantTypes DEF BurnsInBlocks, CursorFinal
<1>7. RowsAtBurns /\ RowsHold /\ TxsHold /\ ScanMissesNoBurn
  BY <1>1, <1>2, <1>3
  DEF RowsAtBurns, RowAtBurn, RowsHold, RowHolds, About, TxsHold, ScanMissesNoBurn
<1>8. NoItem \in Items
  BY DEF Items
<1>9. WatcherOK
  BY <1>1, ConstantTypes DEF WatcherOK
<1>10. AttesterOK /\ IngestOK
  BY <1>1, <1>8 DEF AttesterOK, IngestOK
<1>11. RelayerOK
  BY <1>1, <1>8 DEF RelayerOK
<1> QED BY <1>5, <1>6, <1>7, <1>9, <1>10, <1>11 DEF ReleaseInv

LEMMA StepKeeps == ASSUME ReleaseInv, [Next]_vars PROVE ReleaseInv'
<1>1. CASE WatcherStep \/ WatchScanCut
  BY <1>1, WatchAsksKeeps, WatchSkipsScanKeeps, WatchScansKeeps, WatchScanCutKeeps,
     WatchAuthorizesKeeps, WatchStopsKeeps DEF WatcherStep
<1>2. CASE AttestLists \/ AttestSigns \/ \E e \in attester.todo : AttestTakes(e)
  BY <1>2, AttestListsKeeps, AttestSignsKeeps, AttestTakesKeeps
<1>3. CASE IngestWrites \/ \E r \in Redeems : IngestReads(r)
  BY <1>3, IngestWritesKeeps, IngestReadsKeeps
<1>4. CASE RelayerStep
  BY <1>4, RelayListsKeeps, RelayTakesKeeps, RelayReceiptKeeps, RelayFindsConsumedKeeps,
     RelayQuietKeeps, RelaySendsKeeps, RelayRecordsKeeps, RelayEndsKeeps DEF RelayerStep
<1>5. CASE ChainStep /\ UNCHANGED <<storeVars, serviceVars>>
  BY <1>5, ChainStepKeeps
<1>6. CASE Crash
  BY <1>6, CrashKeeps
<1>7. CASE UNCHANGED vars
  BY <1>7, StutterKeeps
<1> QED BY <1>1, <1>2, <1>3, <1>4, <1>5, <1>6, <1>7 DEF Next

LEMMA InvHolds == Spec => []ReleaseInv
<1>1. ReleaseInv /\ [Next]_vars => ReleaseInv'
  BY StepKeeps
<1> QED BY InitInv, <1>1, PTL DEF Spec

\* The chain, the table and what each process holds keep their types, whatever the
\* order of the processes' statements.
THEOREM ReleaseTypes == Spec => []ReleaseTypeOK
<1>1. ReleaseInv => ReleaseTypeOK
  BY DEF ReleaseInv, ReleaseTypeOK, WatcherOK, AttesterOK, RelayerOK, IngestOK, Items
<1> QED BY InvHolds, <1>1, PTL

\* The watcher's cursor passes no burn by: at or below it every burn has its row, and
\* the row says where the burn is, as long as no final block was replaced.
THEOREM CursorPassesNoBurn == Spec => []ScanMissesNoBurn
<1>1. ReleaseInv => ScanMissesNoBurn
  BY DEF ReleaseInv
<1> QED BY InvHolds, <1>1, PTL

\* Nothing is authorized for a burn that a reorganization of less than the configured
\* depth could still take away: the authorization names the burn where it is.
THEOREM AuthorizationsAreFinal == Spec => []AuthorizedWhenFinal
<1>1. ASSUME ReleaseInv PROVE AuthorizedWhenFinal
  <2> SUFFICES ASSUME NEW r \in Redeems \ displaced, row[r].auth # NoAuth
               PROVE  /\ burn[r] = [block |-> row[r].block, log |-> row[r].auth.log]
                      /\ chain[row[r].block] = row[r].hash
    BY DEF AuthorizedWhenFinal
  <2>1. row[r].status # "absent"
    BY <1>1 DEF ReleaseInv, RowsHold, RowHolds
  <2>2. /\ row[r].block = burn[r].block /\ row[r].log = burn[r].log
        /\ row[r].hash = chain[row[r].block] /\ row[r].auth.log = row[r].log
    BY <1>1, <2>1 DEF ReleaseInv, RowsAtBurns, RowAtBurn
  <2>3. burn[r] = [block |-> burn[r].block, log |-> burn[r].log]
    BY <1>1, BurnTypes
  <2> QED BY <2>2, <2>3
<1> QED BY InvHolds, <1>1, PTL

\* A redeem has one authorization in its life: the stored attestation and whatever
\* the relayer ever sent sign the authorization the row holds, although signer,
\* ingest and relayer work on rows copied before the others wrote.
THEOREM AuthorizationsAreUnique == Spec => []OneAuthorization
<1>1. ReleaseInv => OneAuthorization
  BY DEF ReleaseInv, OneAuthorization, RowsHold, RowHolds, TxsHold, TxHolds
<1> QED BY InvHolds, <1>1, PTL

\* No row says consumed unless the gateway has consumed the redeem, by whomever.
THEOREM ConsumedRowsAreSettled == Spec => []ConsumedForReal
<1>1. ReleaseInv => ConsumedForReal
  BY DEF ReleaseInv, ConsumedForReal, RowsHold, RowHolds
<1> QED BY InvHolds, <1>1, PTL

-----------------------------------------------------------------------------
(* The ledger.  Authorizing a row commits it; an attestation stored and a   *)
(* transaction sent use the commitment.                                     *)

\* The redeems for which something was attested or sent.
Acted ==
  {r \in Redeems : row[r].att # NoAuth \/ \E i \in DOMAIN txs : txs[i].redeem = r}

Commitments == {<<r, row[r].auth>> : r \in Acted}

AuthsStay == \A r \in Redeems : row'[r].auth = row[r].auth

\* What was used is what is committed, for the redeems acted on.
LEMMA UsedIsCommitted ==
  ReleaseInv => /\ Used = Commitments
                /\ \A r \in Acted : row[r].auth # NoAuth
<1> SUFFICES ASSUME ReleaseInv
             PROVE  /\ Used = Commitments
                    /\ \A r \in Acted : row[r].auth # NoAuth
  OBVIOUS
<1>1. \A r \in Redeems : row[r].att \in {NoAuth, row[r].auth}
  BY DEF ReleaseInv, RowsHold, RowHolds
<1>2. \A i \in DOMAIN txs :
        /\ txs[i].redeem \in Redeems /\ txs[i].auth # NoAuth
        /\ txs[i].auth = row[txs[i].redeem].auth /\ txs[i].att = txs[i].auth
  BY StateTypes, ConstantTypes DEF ReleaseInv, TxsHold, TxHolds
<1>3. \A r \in Acted : <<r, row[r].auth>> \in Used
  <2> SUFFICES ASSUME NEW r \in Acted PROVE <<r, row[r].auth>> \in Used
    OBVIOUS
  <2>1. CASE row[r].att # NoAuth
    BY <1>1, <2>1 DEF Acted, Used
  <2>2. CASE \E i \in DOMAIN txs : txs[i].redeem = r
    <3>1. PICK i \in DOMAIN txs : txs[i].redeem = r
      BY <2>2
    <3>2. <<txs[i].redeem, txs[i].auth>> \in Used
      BY DEF Used
    <3> QED BY <1>2, <3>1, <3>2
  <2> QED BY <2>1, <2>2 DEF Acted
<1>4. ASSUME NEW u \in Used PROVE \E r \in Acted : u = <<r, row[r].auth>>
  <2>1. CASE \E r \in Redeems : row[r].att # NoAuth /\ u = <<r, row[r].att>>
    BY <1>1, <2>1 DEF Acted
  <2>2. CASE \E i \in DOMAIN txs : u \in {<<txs[i].redeem, txs[i].auth>>, <<txs[i].redeem, txs[i].att>>}
    <3>1. PICK i \in DOMAIN txs :
            u \in {<<txs[i].redeem, txs[i].auth>>, <<txs[i].redeem, txs[i].att>>}
      BY <2>2
    <3>2. u = <<txs[i].redeem, row[txs[i].redeem].auth>> /\ txs[i].redeem \in Acted
      BY <1>2, <3>1 DEF Acted
    <3> QED BY <3>2
  <2> QED BY <2>1, <2>2 DEF Used
<1>5. \A r \in Acted : row[r].auth # NoAuth
  BY <1>1, <1>2 DEF Acted
<1> QED BY <1>3, <1>4, <1>5 DEF Commitments

LEMMA NothingUsed ==
  ASSUME ReleaseInv, ReleaseInv', AuthsStay, Acted' = Acted
  PROVE  UNCHANGED Ledger!ledgerVars
<1>1. Used' = {<<r, row'[r].auth>> : r \in Acted'}
  <2>1. (Used = Commitments)'
    BY UsedIsCommitted, PTL
  <2> QED BY <2>1 DEF Commitments
<1>2. \A r \in Acted : r \in Redeems
  BY DEF Acted
<1>3. Used' = Used
  BY <1>1, <1>2, UsedIsCommitted DEF AuthsStay, Commitments
<1> QED BY <1>3 DEF Ledger!ledgerVars, AuthsStay

LEMMA OneUsed ==
  ASSUME ReleaseInv, ReleaseInv', AuthsStay, NEW r \in Redeems, row[r].auth # NoAuth,
         Acted' = Acted \cup {r}
  PROVE  [Ledger!Next]_Ledger!ledgerVars
<1>1. Used' = {<<s, row'[s].auth>> : s \in Acted'}
  <2>1. (Used = Commitments)'
    BY UsedIsCommitted, PTL
  <2> QED BY <2>1 DEF Commitments
<1>2. Used = {<<s, row[s].auth>> : s \in Acted}
  BY UsedIsCommitted DEF Commitments
<1>3. \A s \in Acted' : row'[s].auth = row[s].auth
  BY DEF AuthsStay, Acted
<1>4. Used' = Used \cup {<<r, row[r].auth>>}
  <2>1. {<<s, row'[s].auth>> : s \in Acted'} = {<<s, row[s].auth>> : s \in Acted'}
    BY <1>3
  <2> QED BY <1>1, <1>2, <2>1
<1>5. Ledger!Use(r)
  BY <1>4 DEF Ledger!Use, AuthsStay
<1> QED BY <1>5 DEF Ledger!Next

\* A step that writes neither authorization nor attestation, and sends nothing.
LEMMA NothingActed ==
  ASSUME ReleaseInv, ReleaseInv', TxsEvolve,
         \A r \in Redeems : row'[r].auth = row[r].auth /\ row'[r].att = row[r].att
  PROVE  UNCHANGED Ledger!ledgerVars
<1>1. Acted' = Acted
  BY DEF Acted, TxsEvolve
<1> QED BY <1>1, NothingUsed DEF AuthsStay

LEMMA ChainUses ==
  ASSUME ReleaseInv, ReleaseInv', ChainStep, row' = row
  PROVE  UNCHANGED Ledger!ledgerVars
<1>1. CASE txs' = txs
  BY <1>1, SameTxsEvolve, NothingActed
<1>2. ASSUME NEW i \in DOMAIN txs, Mine(i) PROVE TxsEvolve
  BY <1>2, OneTxEvolves DEF Mine
<1>3. ASSUME NEW i \in DOMAIN txs, LosePending(i) PROVE TxsEvolve
  <2> DEFINE moved == {j \in DOMAIN txs : j >= i /\ txs[j].state = "pending"}
  <2>1. txs' = [j \in DOMAIN txs |-> IF j \in moved THEN [txs[j] EXCEPT !.state = "dropped"]
                                                    ELSE txs[j]]
    BY <1>3 DEF LosePending
  <2>2. moved \in SUBSET DOMAIN txs
    OBVIOUS
  <2> HIDE DEF moved
  <2> QED BY <2>1, <2>2, StatesEvolve
<1>4. ASSUME NEW r \in Redeems, UndoCompletion(r) PROVE TxsEvolve
  <2> DEFINE own == {i \in DOMAIN txs : txs[i].redeem = r /\ txs[i].state = "mined"}
  <2>1. txs' = [i \in DOMAIN txs |-> IF i \in own THEN [txs[i] EXCEPT !.state = "pending"]
                                                  ELSE txs[i]]
    BY <1>4 DEF UndoCompletion
  <2>2. own \in SUBSET DOMAIN txs
    OBVIOUS
  <2> HIDE DEF own
  <2> QED BY <2>1, <2>2, StatesEvolve
<1>5. txs' = txs \/ TxsEvolve
  <2>1. CASE NextBlock \/ SetSignerSet \/ Wait \/ \E k \in 1 .. MaxBlock : Reorg(k)
    BY <2>1 DEF NextBlock, SetSignerSet, Wait, Reorg
  <2>2. CASE \E i \in DOMAIN txs : Mine(i) \/ LosePending(i)
    BY <1>2, <1>3, <2>2
  <2>3. CASE \E r \in Redeems : CompleteElsewhere(r) \/ Cancel(r) \/ UndoCompletion(r)
    BY <1>4, <2>3 DEF CompleteElsewhere, Cancel
  <2> QED BY <2>1, <2>2, <2>3 DEF ChainStep
<1> QED BY <1>1, <1>5, NothingActed

\* What a statement writes of one row, where it leaves the authorization.
LEMMA MarkUses ==
  ASSUME ReleaseInv, ReleaseInv', NEW r \in Redeems, txs' = txs,
         NEW q \in Row, row' = [row EXCEPT ![r] = q],
         q.auth = row[r].auth, q.att = row[r].att
  PROVE  UNCHANGED Ledger!ledgerVars
<1>1. row'[r] = q /\ \A s \in Redeems : s # r => row'[s] = row[s]
  BY StateTypes
<1> QED BY <1>1, SameTxsEvolve, NothingActed

LEMMA StatusUses ==
  ASSUME ReleaseInv, ReleaseInv', NEW r \in Redeems, txs' = txs, NEW status \in Statuses,
         row' = [row EXCEPT ![r].status = status]
  PROVE  UNCHANGED Ledger!ledgerVars
<1> DEFINE q == [row[r] EXCEPT !.status = status]
<1>1. row[r] \in Row /\ row' = [row EXCEPT ![r] = q]
  BY StateTypes
<1>2. q \in Row /\ q.auth = row[r].auth /\ q.att = row[r].att
  BY <1>1 DEF Row
<1> HIDE DEF q
<1> QED BY <1>1, <1>2, MarkUses

LEMMA RelayUses ==
  ASSUME ReleaseInv, ReleaseInv', NEW r \in Redeems, txs' = txs, NEW status \in Statuses,
         NEW tx \in Nat, row' = [row EXCEPT ![r].status = status, ![r].relay = tx]
  PROVE  UNCHANGED Ledger!ledgerVars
<1> DEFINE q == [row[r] EXCEPT !.status = status, !.relay = tx]
<1>1. row[r] \in Row /\ row \in [Redeems -> Row]
  BY StateTypes
<1>2. row' = [row EXCEPT ![r] = q]
  BY <1>1
<1>3. q \in Row /\ q.auth = row[r].auth /\ q.att = row[r].att
  BY <1>1 DEF Row
<1> HIDE DEF q
<1> QED BY <1>2, <1>3, MarkUses

\* An attestation is stored.
LEMMA AttestedUses ==
  ASSUME ReleaseInv, ReleaseInv', NEW r \in Redeems, txs' = txs,
         NEW auth, auth # NoAuth, auth = row[r].auth, MarkAttested(r, auth)
  PROVE  [Ledger!Next]_Ledger!ledgerVars
<1> DEFINE q == [row[r] EXCEPT !.status = "attested", !.att = auth]
<1>1. row[r] \in Row /\ row \in [Redeems -> Row]
  BY StateTypes
<1>2. row' = [row EXCEPT ![r] = q]
  BY <1>1 DEF MarkAttested
<1>3. q.auth = row[r].auth /\ q.att = auth
  BY <1>1 DEF Row
<1> HIDE DEF q
<1>4. row'[r] = q /\ \A s \in Redeems : s # r => row'[s] = row[s]
  BY <1>1, <1>2
<1>5. AuthsStay
  BY <1>3, <1>4 DEF AuthsStay
<1>6. Acted' = Acted \cup {r}
  BY <1>3, <1>4 DEF Acted
<1> QED BY <1>5, <1>6, OneUsed

LEMMA AttestSignsUses ==
  ASSUME ReleaseInv, ReleaseInv', AttestSigns PROVE [Ledger!Next]_Ledger!ledgerVars
<1>1. /\ attester.at = "sign" /\ MarkAttested(attester.item.redeem, attester.item.row.auth)
      /\ txs' = txs
  BY DEF AttestSigns, Attesting, chainVars
<1>2. PICK e \in Items : e = attester.item
  BY DEF ReleaseInv, AttesterOK
<1>3. CopyOf(e) /\ e \in Listed
  BY <1>1, <1>2 DEF ReleaseInv, AttesterOK, CopyOf
<1>4. PICK r \in Redeems : r = e.redeem
  BY <1>3, ListedFields
<1>5. PICK auth : auth = e.row.auth
  OBVIOUS
<1>6. auth # NoAuth /\ auth = row[r].auth /\ MarkAttested(r, auth)
  BY <1>1, <1>2, <1>3, <1>4, <1>5 DEF CopyOf
<1> QED BY <1>1, <1>6, AttestedUses

LEMMA IngestWritesUses ==
  ASSUME ReleaseInv, ReleaseInv', IngestWrites PROVE [Ledger!Next]_Ledger!ledgerVars
<1>1. ingest # NoItem /\ MarkAttested(ingest.redeem, ingest.row.auth) /\ txs' = txs
  BY DEF IngestWrites, chainVars
<1>2. PICK e \in Items : e = ingest
  BY DEF ReleaseInv, IngestOK
<1>3. CopyOf(e) /\ e \in Listed
  BY <1>1, <1>2 DEF ReleaseInv, IngestOK, CopyOf
<1>4. PICK r \in Redeems : r = e.redeem
  BY <1>3, ListedFields
<1>5. PICK auth : auth = e.row.auth
  OBVIOUS
<1>6. auth # NoAuth /\ auth = row[r].auth /\ MarkAttested(r, auth)
  BY <1>1, <1>2, <1>3, <1>4, <1>5 DEF CopyOf
<1> QED BY <1>1, <1>6, AttestedUses

\* A completion is sent.
LEMMA RelaySendsUses ==
  ASSUME ReleaseInv, ReleaseInv', RelaySends PROVE [Ledger!Next]_Ledger!ledgerVars
<1>1. /\ relayer.at = "send" /\ txs' = Append(txs, Completion) /\ row' = row
  BY DEF RelaySends, storeVars
<1>2. PICK r \in Redeems : r = relayer.item.redeem /\ row[r].auth # NoAuth
  BY <1>1, RelayerItem
<1>3. Completion.redeem = r
  BY <1>2 DEF Completion
<1>4. txs \in Seq(Tx) /\ Len(txs) \in Nat /\ DOMAIN txs = 1 .. Len(txs)
  BY StateTypes
<1>5. /\ DOMAIN txs' = 1 .. Len(txs) + 1 /\ txs'[Len(txs) + 1] = Completion
      /\ \A i \in DOMAIN txs : txs'[i] = txs[i]
  BY <1>1, <1>4
<1>6. PICK n \in Nat : n = Len(txs) + 1
  BY <1>4
<1>7. DOMAIN txs' = DOMAIN txs \cup {n} /\ txs'[n].redeem = r
  BY <1>3, <1>4, <1>5, <1>6
<1>8. Acted' = Acted \cup {r}
  BY <1>1, <1>5, <1>7 DEF Acted
<1>9. AuthsStay
  BY <1>1 DEF AuthsStay
<1> QED BY <1>2, <1>8, <1>9, OneUsed

\* A row is authorized that never was.
LEMMA WatchAuthorizesCommits ==
  ASSUME ReleaseInv, ReleaseInv', NEW r \in Redeems, WatchAuthorizes(r)
  PROVE  [Ledger!Next]_Ledger!ledgerVars
<1> DEFINE auth == [log |-> row[r].log, deadline |-> watcher.time + AuthorizationTtl]
           q == [row[r] EXCEPT !.status = "authorized", !.auth = auth, !.att = NoAuth,
                               !.relay = 0]
<1>1. r \in watcher.todo /\ MarkAuthorized(r, auth) /\ txs' = txs
  BY DEF WatchAuthorizes, WatchNext, Watching, chainVars
<1> HIDE DEF auth
<1>2. row[r].status = "observed" /\ row[r] \in Row /\ row \in [Redeems -> Row] /\ RowHolds(r)
  BY <1>1, StateTypes DEF ReleaseInv, WatcherOK, RowsHold
<1>3. row[r].auth = NoAuth /\ row[r].att = NoAuth
  BY <1>2 DEF RowHolds
<1>4. row' = [row EXCEPT ![r] = q] /\ q.att = NoAuth
  BY <1>1, <1>2 DEF MarkAuthorized, Row
<1> HIDE DEF q
<1>5. row'[r].att = NoAuth /\ \A s \in Redeems : s # r => row'[s] = row[s]
  BY <1>2, <1>4
<1>6. Acted' = Acted
  BY <1>1, <1>3, <1>5 DEF Acted
<1>7. r \notin Acted
  BY <1>3, UsedIsCommitted
<1>8. Used' = Used
  <2>1. (Used = Commitments)'
    BY UsedIsCommitted, PTL
  <2>2. Used' = {<<s, row'[s].auth>> : s \in Acted'}
    BY <2>1 DEF Commitments
  <2>3. \A s \in Acted : row'[s].auth = row[s].auth
    BY <1>5, <1>7 DEF Acted
  <2> QED BY <1>6, <2>2, <2>3, UsedIsCommitted DEF Commitments
<1>9. [s \in Redeems |-> row'[s].auth] \in [Redeems -> Authorization \cup {NoAuth}]
  <2>1. row' \in [Redeems -> Row]
    BY DEF ReleaseInv, StoreTypeOK
  <2>2. \A s \in Redeems : row'[s].auth \in Authorization \cup {NoAuth}
    BY <2>1, RowFields
  <2> QED BY <2>2
<1>10. Ledger!Commit(r)
  BY <1>3, <1>5, <1>8, <1>9 DEF Ledger!Commit
<1> QED BY <1>10 DEF Ledger!Next
\* A scan puts rows where their burns are and writes no more of them.
LEMMA ScanUses ==
  ASSUME ReleaseInv, ReleaseInv', WatchScans \/ WatchScanCut
  PROVE  UNCHANGED Ledger!ledgerVars
<1>1. watcher.at = "scan" /\ txs' = txs
  BY DEF WatchScans, WatchScanCut, Watching, chainVars
<1>2. PICK written \in SUBSET EventBlocks :
        UpsertRedeemEvents([r \in written |-> EventsTo(ToBlock)[r]])
  <2>1. CASE WatchScans
    <3>1. EventsTo(ToBlock) = [r \in EventBlocks |-> EventsTo(ToBlock)[r]]
      BY EventsAre DEF EventsTo
    <3> QED BY <2>1, <3>1 DEF WatchScans
  <2>2. CASE WatchScanCut
    BY <2>2, EventsAre DEF WatchScanCut
  <2> QED BY <2>1, <2>2
<1>3. row' = [r \in Redeems |-> IF r \in written THEN Upserted(row[r], Event(r)) ELSE row[r]]
  BY <1>2, EventsAre DEF UpsertRedeemEvents
<1>4. \A r \in Redeems : row'[r].auth = row[r].auth /\ row'[r].att = row[r].att
  <2> SUFFICES ASSUME NEW r \in Redeems
               PROVE  row'[r].auth = row[r].auth /\ row'[r].att = row[r].att
    OBVIOUS
  <2>1. CASE r \in written
    <3>1. burn[r].block \in DOMAIN chain
      BY <1>1, <1>2, <2>1, EventsFinal
    <3>2. Event(r) \in [block : Nat, hash : Nat, log : Nat] /\ row[r] \in Row
      BY <3>1, StateTypes, BurnTypes DEF Event
    <3> QED BY <1>3, <2>1, <3>2, UpsertedFields
  <2>2. CASE r \notin written
    BY <1>3, <2>2
  <2> QED BY <2>1, <2>2
<1> QED BY <1>1, <1>4, SameTxsEvolve, NothingActed

LEMMA TakesUses ==
  ASSUME ReleaseInv, ReleaseInv', NEW e \in attester.todo, AttestTakes(e)
  PROVE  UNCHANGED Ledger!ledgerVars
<1>1. row' = [row EXCEPT ![e.redeem].status = "attestation_requested"] /\ txs' = txs
  BY DEF AttestTakes, MarkAttestationRequested, Attesting, chainVars
<1>2. PICK r \in Redeems : r = e.redeem
  BY ListedFields DEF ReleaseInv, AttesterOK
<1> QED BY <1>1, <1>2, StatusUses DEF Statuses

\* Of the relayer's statements on the row it is at, none writes what was signed.
LEMMA RelayerUses ==
  ASSUME ReleaseInv, ReleaseInv', RelayerStep
  PROVE  [Ledger!Next]_Ledger!ledgerVars
<1>1. CASE RelaySends
  BY <1>1, RelaySendsUses
<1>2. CASE row' = row /\ txs' = txs
  BY <1>2, SameTxsEvolve, NothingActed
<1>3. ASSUME relayer.at \notin {"idle", "take"}, txs' = txs,
             \/ MarkConsumed(relayer.item.redeem) \/ MarkRelayFailed(relayer.item.redeem)
             \/ MarkRelayed(relayer.item.redeem, relayer.tx)
      PROVE  UNCHANGED Ledger!ledgerVars
  <2>1. PICK r \in Redeems : r = relayer.item.redeem
    BY <1>3, RelayerItem
  <2>2. PICK tx \in Nat : tx = relayer.tx
    BY RelayerFields
  <2>3. CASE MarkConsumed(r)
    BY <1>3, <2>3, StatusUses DEF MarkConsumed, Statuses
  <2>4. CASE MarkRelayFailed(r)
    BY <1>3, <2>4, RelayUses DEF MarkRelayFailed, Statuses
  <2>5. CASE MarkRelayed(r, tx)
    BY <1>3, <2>5, RelayUses DEF MarkRelayed, Statuses
  <2> QED BY <1>3, <2>1, <2>2, <2>3, <2>4, <2>5
<1>4. CASE RelayReceipt
  BY <1>2, <1>3, <1>4 DEF RelayReceipt, Relaying, chainVars
<1>5. CASE RelayFindsConsumed \/ RelayRecords \/ RelayEnds
  BY <1>3, <1>5 DEF RelayFindsConsumed, RelayRecords, RelayEnds, Relaying, chainVars
<1>6. CASE \/ RelayLists \/ RelayStaysPending \/ RelayChecks \/ RelayRefused \/ RelayReverts
           \/ \E e \in relayer.todo : RelayTakes(e)
  BY <1>2, <1>6 DEF RelayLists, RelayStaysPending, RelayChecks, RelayRefused, RelayReverts,
                    RelayTakes, Relaying, chainVars
<1> QED BY <1>1, <1>4, <1>5, <1>6 DEF RelayerStep

LEMMA LedgerStep ==
  ReleaseInv /\ ReleaseInv' /\ [Next]_vars => [Ledger!Next]_Ledger!ledgerVars
<1> SUFFICES ASSUME ReleaseInv, ReleaseInv', [Next]_vars
             PROVE  [Ledger!Next]_Ledger!ledgerVars
  OBVIOUS
<1>1. CASE row' = row /\ txs' = txs
  BY <1>1, SameTxsEvolve, NothingActed
<1>2. CASE WatcherStep
  BY <1>1, <1>2, ScanUses, WatchAuthorizesCommits
  DEF WatcherStep, WatchBegins, WatchAsks, WatchSkipsScan, WatchStops, Watching,
      storeVars, chainVars
<1>3. CASE WatchScanCut
  BY <1>3, ScanUses
<1>4. CASE AttestLists \/ AttestSigns \/ \E e \in attester.todo : AttestTakes(e)
  BY <1>1, <1>4, AttestSignsUses, TakesUses DEF AttestLists, Attesting, chainVars
<1>5. CASE IngestWrites \/ \E r \in Redeems : IngestReads(r)
  BY <1>1, <1>5, IngestWritesUses DEF IngestReads, storeVars
<1>6. CASE RelayerStep
  BY <1>6, RelayerUses
<1>7. CASE ChainStep /\ UNCHANGED <<storeVars, serviceVars>>
  BY <1>7, ChainUses DEF storeVars
<1>8. CASE Crash
  BY <1>1, <1>8 DEF Crash, storeVars
<1>9. CASE UNCHANGED vars
  BY <1>1, <1>9 DEF vars, chainVars, storeVars
<1> QED BY <1>2, <1>3, <1>4, <1>5, <1>6, <1>7, <1>8, <1>9 DEF Next

LEMMA LedgerInit == Init => Ledger!Init
<1> SUFFICES ASSUME Init PROVE Ledger!Init
  OBVIOUS
<1>1. \A r \in Redeems : row[r].auth = NoAuth /\ row[r].att = NoAuth
  BY DEF Init, StoreInit, NoRow
<1>2. DOMAIN txs = {}
  BY DEF Init, ChainInit
<1>3. Used = {}
  BY <1>1, <1>2 DEF Used
<1> QED BY <1>1, <1>3 DEF Ledger!Init

\* The redeem service implements CommitmentLedger: whatever its processes end
\* between, the authorization of a redeem is written once, stays as it is although
\* its row is observed, attested and relayed again, and no other is attested or sent.
THEOREM AuthorizationsAreCommitted == Spec => ImplementsCommitment
<1> QED BY InvHolds, LedgerInit, LedgerStep, PTL DEF Spec, ImplementsCommitment, Ledger!Spec

=============================================================================
