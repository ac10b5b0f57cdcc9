---------------------------- MODULE ReleaseStore ----------------------------
(***************************************************************************)
(* The table redeem_events and the cursor of scripts/lib/redeem-store.js,  *)
(* which the watcher, the attester, the relayer and the ingest share.      *)
(* Every operator is one SQL statement; what it reads and writes is not    *)
(* held together with what its caller read before.  Times and error texts  *)
(* are left out.                                                           *)
(***************************************************************************)
EXTENDS Naturals

CONSTANTS Redeems,         \* redeem request hashes
          NoAuth           \* NULL in release_authorization_json and attestation

ASSUME NoAuthAssumption == NoAuth \notin [log : Nat, deadline : Nat]

VARIABLES row, cursor

storeVars == <<row, cursor>>

Statuses == {"absent", "observed", "authorized", "attestation_requested", "attested",
             "relayed", "consumed"}

\* A release authorization: the burn's log position is in its redeemId.
Authorization == [log : Nat, deadline : Nat]

Row == [status : Statuses,
        block : Nat, hash : Nat, log : Nat,  \* the event seen
        auth : Authorization \cup {NoAuth},
        att : Authorization \cup {NoAuth},  \* what the attestation signs
        relay : Nat]                        \* relay_tx_hash, 0 for NULL

NoRow == [status |-> "absent", block |-> 0, hash |-> 0, log |-> 0,
          auth |-> NoAuth, att |-> NoAuth, relay |-> 0]

StoreTypeOK == row \in [Redeems -> Row] /\ cursor \in Nat

StoreInit == row = [r \in Redeems |-> NoRow] /\ cursor = 0

\* An event seen again refreshes its own columns; status and the rest stay.
Upserted(old, event) ==
  [old EXCEPT !.block = event.block, !.hash = event.hash, !.log = event.log,
              !.status = IF @ = "absent" THEN "observed" ELSE @]

\* upsertRedeemEvent, for each of the events.
UpsertRedeemEvents(events) ==
  row' = [r \in Redeems |-> IF r \in DOMAIN events THEN Upserted(row[r], events[r])
                                                   ELSE row[r]]

SetCursor(block) == cursor' = block

\* Mutant of FinalityEligible: what is authorized is authorized afresh.
FinalityEligibleAgain(rows, block) ==
  {r \in Redeems :
     /\ rows[r].status \in {"observed", "authorized", "attestation_requested"}
     /\ rows[r].block <= block}

FinalityEligible(rows, block) ==
  {r \in Redeems : rows[r].status = "observed" /\ rows[r].block <= block}

\* Mutant of AttestationEligible: what the attester has begun is not listed again.
AttestationEligibleOnce == {r \in Redeems : row[r].status = "authorized"}

AttestationEligible ==
  {r \in Redeems : /\ row[r].status \in {"authorized", "attestation_requested"}
                   /\ row[r].auth # NoAuth}

RelayEligible ==
  {r \in Redeems : /\ row[r].status \in {"attested", "relayed"}
                   /\ row[r].att # NoAuth /\ row[r].auth # NoAuth}

MarkAuthorized(r, auth) ==
  row' = [row EXCEPT ![r].status = "authorized", ![r].auth = auth,
                     ![r].att = NoAuth, ![r].relay = 0]

MarkAttestationRequested(r) == row' = [row EXCEPT ![r].status = "attestation_requested"]

MarkAttested(r, att) == row' = [row EXCEPT ![r].status = "attested", ![r].att = att]

MarkRelayed(r, tx) == row' = [row EXCEPT ![r].status = "relayed", ![r].relay = tx]

MarkRelayFailed(r) == row' = [row EXCEPT ![r].status = "attested", ![r].relay = 0]

\* markConsumed and markAlreadyConsumed, which differ in the receipt's block.
MarkConsumed(r) == row' = [row EXCEPT ![r].status = "consumed"]

=============================================================================
