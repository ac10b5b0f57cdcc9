----------------------------- MODULE RedeemStore -----------------------------
(***************************************************************************)
(* The redeem rows and the scan cursor of the public service's database    *)
(* (scripts/lib/public-testnet-store.js).  Every operation is one SQLite   *)
(* statement, durable on its own; none looks at the status it replaces.    *)
(* A release's spend plan, PSBT and commitments are named by the treasury  *)
(* coin they spend.                                                        *)
(***************************************************************************)
EXTENDS Integers

CONSTANTS Redeems,         \* redeem request hashes
          Coins,           \* treasury outputs on Bitcoin
          NoCoin           \* SQL NULL

ASSUME StoreAssumption == NoCoin \notin Coins

VARIABLES row,             \* [Redeems -> Row]
          cursor           \* last scanned EVM block

storeVars == <<row, cursor>>

Statuses == {"absent", "observed", "release_prepared", "release_requested",
             "redeem_submitted", "redeem_completed", "btc_broadcast", "failed"}

Row == [status : Statuses,
        blockHash : Nat,                \* which fork of its block the burn was seen in
        plan : Coins \cup {NoCoin},     \* of the prepared release authorization
        deadline : Nat,                 \* of the prepared release authorization
        request : Nat,                  \* release_request_id, 0 for NULL
        completion : Nat,               \* complete_redeem_tx_hash, 0 for NULL
                                        \* or for a transaction of somebody else
        tx : Coins \cup {NoCoin}]       \* bitcoin_tx_hex

NoRow == [status |-> "absent", blockHash |-> 0, plan |-> NoCoin, deadline |-> 0,
          request |-> 0, completion |-> 0, tx |-> NoCoin]

StoreTypeOK == row \in [Redeems -> Row] /\ cursor \in Nat

StoreInit == row = [r \in Redeems |-> NoRow] /\ cursor = 0

\* Mutant of UpsertRedeemObserved: the conflict clause also sets the status.
UpsertResetsStatus(r, blockHash) ==
  row' = [row EXCEPT ![r].blockHash = blockHash, ![r].status = "observed"]

\* A burn seen again refreshes the event's columns and nothing else.
UpsertRedeemObserved(r, blockHash) ==
  row' = [row EXCEPT
            ![r].blockHash = blockHash,
            ![r].status = IF @ = "absent" THEN "observed" ELSE @]

SetCursor(block) == cursor' = block

MarkRedeemPrepared(r, plan, deadline, tx) ==
  row' = [row EXCEPT ![r].status = "release_prepared", ![r].plan = plan,
                     ![r].deadline = deadline, ![r].tx = tx]

MarkReleaseRequested(r, request) ==
  row' = [row EXCEPT ![r].status = "release_requested", ![r].request = request]

MarkRedeemSubmitted(r, completion) ==
  row' = [row EXCEPT ![r].status = "redeem_submitted", ![r].completion = completion]

MarkRedeemCompleted(r, completion) ==
  row' = [row EXCEPT ![r].status = "redeem_completed", ![r].completion = completion]

MarkBitcoinFinalized(r, tx) == row' = [row EXCEPT ![r].tx = tx]

MarkBitcoinBroadcast(r, tx) ==
  row' = [row EXCEPT ![r].status = "btc_broadcast", ![r].tx = tx]

MarkRedeemFailed(r) == row' = [row EXCEPT ![r].status = "failed"]

=============================================================================
