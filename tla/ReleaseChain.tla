---------------------------- MODULE ReleaseChain ----------------------------
(***************************************************************************)
(* The EVM chain as the redeem service meets it: blocks and their hashes,  *)
(* burns and where their logs are, the state of each redeem on the gateway *)
(* (contracts/BurnGateway.sol), the signer set of its verifier             *)
(* (contracts/AttestationVerifier.sol), the relayer's transactions.  What  *)
(* comes from outside the service, faults, the verifier's owner and an     *)
(* operator's attestations, spends the budget MaxOutside.                  *)
(***************************************************************************)
EXTENDS Integers, Sequences, BlockTime, ReleaseStore

CONSTANTS FinalityBlocks,
          LogIndexes,      \* [Redeems -> where in its block its log may be]
          MaxBlock,        \* bound: the last block of an instance
          MaxOutside       \* bound: faults, reorganizations and ingests

ASSUME ReleaseChainAssumption ==
  /\ FinalityBlocks \in Nat
  /\ LogIndexes \in [Redeems -> SUBSET (Nat \ {0})]
  /\ MaxBlock \in Nat /\ MaxOutside \in Nat

VARIABLES chain,           \* the hash of every block
          burn,            \* [Redeems -> where its log is], Unburned before it
          escrow,          \* [Redeems -> redeem state on the gateway]
          settledAs,       \* [Redeems -> log position in the consumed redeem id], or 0
          foreignSet,      \* the verifier has not the signers that attest here
          txs,             \* the relayer's transactions, in nonce order
          settledEver,     \* history: redeems that were consumed at some time
          displaced,       \* history: redeems whose burn a reorganization
                           \* below finality moved
          outside

chainVars ==
  <<now, chain, burn, escrow, settledAs, foreignSet, txs, settledEver, displaced, outside>>

Unburned == [block |-> 0, log |-> 0]

Tx == [redeem : Redeems, auth : Authorization, att : Authorization,
       state : {"pending", "dropped", "reverted", "mined"}]

ChainTypeOK ==
  /\ now \in 0 .. MaxTime /\ chain \in Seq(Nat)
  /\ burn \in [Redeems -> [block : Nat, log : Nat]]
  /\ escrow \in [Redeems -> {"NONE", "BURNED", "CONSUMED", "CANCELLED"}]
  /\ settledAs \in [Redeems -> Nat] /\ foreignSet \in BOOLEAN
  /\ txs \in Seq(Tx)
  /\ settledEver \subseteq Redeems /\ displaced \subseteq Redeems
  /\ outside \in 0 .. MaxOutside

ChainInit ==
  /\ now = 0 /\ chain = << >> /\ burn = [r \in Redeems |-> Unburned]
  /\ escrow = [r \in Redeems |-> "NONE"] /\ settledAs = [r \in Redeems |-> 0]
  /\ foreignSet = FALSE
  /\ txs = << >> /\ settledEver = {} /\ displaced = {} /\ outside = 0

Outside == outside < MaxOutside /\ outside' = outside + 1

BurnsAndSigners == <<chain, burn, displaced, foreignSet>>
Gateway == <<escrow, settledAs, settledEver>>

\* isRedeemIdConsumed, for the redeem id an authorization names.
IsRedeemIdConsumed(r, auth) == settledAs[r] = auth.log

\* What completeRedeemWithAuthorization and the verifier require: an attestation
\* names the signer set it is of.
Completable(tx) ==
  /\ escrow[tx.redeem] = "BURNED"
  /\ now <= tx.auth.deadline
  /\ tx.att = tx.auth /\ ~foreignSet

Settle(r, log) ==
  /\ escrow' = [escrow EXCEPT ![r] = "CONSUMED"]
  /\ settledAs' = [settledAs EXCEPT ![r] = log]
  /\ settledEver' = settledEver \cup {r}

-----------------------------------------------------------------------------

\* What each of the redeems rs may be given of what options has for it.
Placements(rs, options) ==
  {f \in [rs -> UNION {options[r] : r \in rs}] : \A r \in rs : f[r] \in options[r]}

\* A block, with the burns of some redeems.
NextBlock ==
  /\ Len(chain) < MaxBlock
  /\ chain' = Append(chain, 0)
  /\ \E burns \in SUBSET {r \in Redeems : escrow[r] = "NONE"} :
     \E log \in Placements(burns, LogIndexes) :
       /\ burn' = [r \in Redeems |-> IF r \in burns
                                     THEN [block |-> Len(chain'), log |-> log[r]] ELSE burn[r]]
       /\ escrow' = [r \in Redeems |-> IF r \in burns THEN "BURNED" ELSE escrow[r]]
  /\ UNCHANGED <<now, settledAs, settledEver, foreignSet, displaced, txs, outside>>

\* The blocks from k on give way to others, in which each of their burns is
\* somewhere or not yet anywhere.  A redeem already settled is not reached.
Reorg(k) ==
  LET lost == {r \in Redeems : burn[r].block >= k}
      places == [r \in Redeems |-> [block : k .. Len(chain), log : LogIndexes[r]]
                                   \cup {Unburned}] IN
  /\ k \in DOMAIN chain /\ \A r \in lost : escrow[r] = "BURNED"
  /\ Outside
  /\ chain' = [b \in DOMAIN chain |-> IF b >= k THEN chain[b] + 1 ELSE chain[b]]
  /\ \E place \in Placements(lost, places) :
       /\ burn' = [r \in Redeems |-> IF r \in lost THEN place[r] ELSE burn[r]]
       /\ escrow' = [r \in Redeems |-> IF r \in lost /\ place[r] = Unburned THEN "NONE"
                                       ELSE escrow[r]]
  /\ displaced' = IF k <= Len(chain) - FinalityBlocks THEN displaced \cup lost
                                                     ELSE displaced
  /\ UNCHANGED <<now, settledAs, settledEver, foreignSet, txs>>

\* Mining, in nonce order: what the gateway refuses reverts.
Mine(i) ==
  /\ i \in DOMAIN txs /\ txs[i].state = "pending"
  /\ \A j \in 1 .. i - 1 : txs[j].state # "pending"
  /\ \/ /\ Completable(txs[i])
        /\ txs' = [txs EXCEPT ![i].state = "mined"]
        /\ Settle(txs[i].redeem, txs[i].auth.log)
     \/ /\ ~Completable(txs[i])
        /\ txs' = [txs EXCEPT ![i].state = "reverted"]
        /\ UNCHANGED Gateway
  /\ UNCHANGED <<now, BurnsAndSigners, outside>>

\* The node loses what it holds of the relayer from nonce i on.
LosePending(i) ==
  /\ i \in DOMAIN txs /\ txs[i].state = "pending"
  /\ Outside
  /\ txs' = [j \in DOMAIN txs |-> IF j >= i /\ txs[j].state = "pending"
                                  THEN [txs[j] EXCEPT !.state = "dropped"] ELSE txs[j]]
  /\ UNCHANGED <<now, BurnsAndSigners, Gateway>>

\* Somebody else completes the redeem, with an attestation of where its log is.
CompleteElsewhere(r) ==
  /\ escrow[r] = "BURNED" /\ Outside
  /\ Settle(r, burn[r].log)
  /\ UNCHANGED <<now, BurnsAndSigners, txs>>

\* setRedeemState, where the gateway still has an owner.
Cancel(r) ==
  /\ escrow[r] = "BURNED" /\ Outside
  /\ escrow' = [escrow EXCEPT ![r] = "CANCELLED"]
  /\ UNCHANGED <<now, BurnsAndSigners, settledAs, settledEver, txs>>

\* The block of a completion is undone; the relayer's own is pending again.
UndoCompletion(r) ==
  LET own == {i \in DOMAIN txs : txs[i].redeem = r /\ txs[i].state = "mined"} IN
  /\ escrow[r] = "CONSUMED"
  /\ \A i \in own, j \in DOMAIN txs : j > i => txs[j].state \in {"pending", "dropped"}
  /\ Outside
  /\ escrow' = [escrow EXCEPT ![r] = "BURNED"]
  /\ settledAs' = [settledAs EXCEPT ![r] = 0]
  /\ txs' = [i \in DOMAIN txs |-> IF i \in own THEN [txs[i] EXCEPT !.state = "pending"]
                                               ELSE txs[i]]
  /\ UNCHANGED <<now, BurnsAndSigners, settledEver>>

\* setSignerSet, by the verifier's owner: what attesters sign with the keys they
\* were given is refused from now on, or taken again.
SetSignerSet ==
  /\ Outside /\ foreignSet' = ~foreignSet
  /\ UNCHANGED <<now, chain, burn, displaced, Gateway, txs>>

Wait == Tick /\ UNCHANGED <<BurnsAndSigners, Gateway, txs, outside>>

ChainStep ==
  \/ NextBlock \/ SetSignerSet \/ Wait
  \/ \E k \in 1 .. MaxBlock : Reorg(k)
  \/ \E i \in DOMAIN txs : Mine(i) \/ LosePending(i)
  \/ \E r \in Redeems : CompleteElsewhere(r) \/ Cancel(r) \/ UndoCompletion(r)

=============================================================================
