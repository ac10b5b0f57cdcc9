----------------------------- MODULE BtcSigner -----------------------------
(***************************************************************************)
(* The Bitcoin policy signer (scripts/sign-release-psbt.js over            *)
(* btc-policy-signer.js and btc-signer-store.js): runs of one command over *)
(* one table, keyed by redeem id.  A run is synchronous, so what happens   *)
(* between its statements is another run's, or the end of its process.     *)
(***************************************************************************)
EXTENDS ReleaseApproval

CONSTANTS Runs,            \* command lines that may run at the same time
          Honest,          \* DON signers whose key signs what it is asked to
          Outsiders,       \* addresses that are no signer's
          MaxFaults,       \* bound: processes that end, keys that do not fit
          NoRow

Signers == {SignerSet[i] : i \in DOMAIN SignerSet}

ASSUME BtcSignerAssumption ==
  /\ Honest \subseteq Signers /\ Cardinality(Signers \ Honest) < Threshold
  /\ IsFiniteSet(Signers) /\ Outsiders \cap Signers = {}
  /\ MaxFaults \in Nat /\ NoRow \notin [auth : Authorizations, plan : Psbts,
                                        status : {"reserved", "signed"}, psbt : Psbts \cup {"none"}]

VARIABLES row,             \* [redeem ids -> decision], NoRow before there is one
          run,             \* [Runs -> what the run is doing]
          attested,        \* the <<signer, authorization>> signed by DON signers
          signatures,      \* history: the <<authorization, PSBT>> signed
          faults

signerVars == <<row, run, attested, signatures, faults>>

IdOf == [a \in Authorizations |-> Auth[a].id]
RedeemIds == {IdOf[a] : a \in Authorizations}
PlanOf == [p \in Psbts |-> SpendPlan(Psbt[p])]
Plans == {PlanOf[p] : p \in Psbts}

RunIdle == [at |-> "idle", auth |-> "none", psbt |-> "none", dry |-> FALSE]

RunStates == [at : {"insert", "sign", "mark"}, auth : Authorizations, psbt : Psbts,
              dry : BOOLEAN] \cup {RunIdle}

\* A decision: the digests it was reserved for, its plan's by a PSBT that has
\* it, and what became of it.
Decisions == [auth : Authorizations, plan : Psbts,
              status : {"reserved", "signed"}, psbt : Psbts \cup {"none"}]

SignerTypeOK ==
  /\ row \in [RedeemIds -> Decisions \cup {NoRow}]
  /\ run \in [Runs -> RunStates]
  /\ attested \subseteq (Signers \cup Outsiders) \X Authorizations
  /\ signatures \subseteq Authorizations \X Psbts
  /\ faults \in 0 .. MaxFaults

SignerInit ==
  /\ row = [id \in RedeemIds |-> NoRow] /\ run = [r \in Runs |-> RunIdle]
  /\ attested = ((Signers \ Honest) \cup Outsiders) \X Authorizations
  /\ signatures = {} /\ faults = 0

Fault == faults < MaxFaults /\ faults' = faults + 1

-----------------------------------------------------------------------------
(* The run's input: an authorization, its attestation and a PSBT.           *)

\* buildAttestation: the key of a signer of the DON signs the digest of the
\* authorization it is given, whether or not the source of ReleaseApproval
\* approved it: that approval goes to another verifier.  A signer that is not
\* honest, and an outsider, may have signed anything, unasked.
Attest(s, a) ==
  /\ s \in Honest
  /\ attested' = attested \cup {<<s, a>>}
  /\ UNCHANGED <<approvalVars, row, run, signatures, faults>>

\* The sets of addresses of whose signatures, in some order and perhaps
\* repeated, an attestation can be put together that verifies.
Attesting ==
  {made \in SUBSET (Signers \cup Outsiders) :
     \E addresses \in [1 .. Threshold -> made] :
       VerifyAttestation(SignerSet, Threshold,
         [signerSet |-> SignerSetDigest(SignerSet, Threshold),
          signatures |-> [i \in 1 .. Threshold |->
                            [address |-> addresses[i], canonical |-> TRUE]]])}

Committed == {x \in Authorizations \X Psbts : CommitsTo(Auth[x[1]], Psbt[x[2]])}

\* verifyPsbtSigningPolicy: attested, not expired, and this very plan.
PolicyHolds(a, p) ==
  /\ <<a, p>> \in Committed
  /\ now <= Auth[a].deadline
  /\ {x[1] : x \in {y \in attested : y[2] = a}} \in Attesting

\* The decision is for these very digests; the PSBT's is its plan's.
SameDigests(decision, a, p) ==
  /\ Auth[decision.auth] = Auth[a]
  /\ PlanOf[decision.plan] = PlanOf[p]

-----------------------------------------------------------------------------
(* signReleasePsbt, a step per statement on the table. *)

\* Mutant of RunBegins: a reserved row, like a signed one, ends the run.
RunBeginsAnew(a, p, dry) ==
  /\ PolicyHolds(a, p) /\ row[IdOf[a]] = NoRow
  /\ \E r \in Runs :
       /\ run[r] = RunIdle
       /\ run' = [run EXCEPT ![r] = [at |-> "insert", auth |-> a, psbt |-> p, dry |-> dry]]
  /\ UNCHANGED <<approvalVars, row, attested, signatures, faults>>

\* The policy, then reserveSigning's SELECT: a conflicting row throws, a
\* signed one is given back, a reserved one is taken up again.
RunBegins(a, p, dry) ==
  /\ \E r \in Runs : run[r] = RunIdle
  /\ PolicyHolds(a, p)
  /\ \E r \in Runs :
       /\ run[r] = RunIdle
       /\ LET decision == row[IdOf[a]] IN
          \/ /\ decision = NoRow
             /\ run' = [run EXCEPT ![r] = [at |-> "insert", auth |-> a, psbt |-> p, dry |-> dry]]
          \/ /\ decision # NoRow /\ SameDigests(decision, a, p)
             /\ decision.status = "reserved" /\ ~dry
             /\ run' = [run EXCEPT ![r] = [at |-> "sign", auth |-> a, psbt |-> p, dry |-> dry]]
  /\ UNCHANGED <<approvalVars, row, attested, signatures, faults>>

Reserves(r) ==
  row' = [row EXCEPT ![IdOf[run[r].auth]] = [auth |-> run[r].auth, plan |-> run[r].psbt,
                                             status |-> "reserved", psbt |-> "none"]]

\* Mutant of RunInserts: INSERT OR REPLACE.
RunReplaces(r) ==
  /\ run[r].at = "insert" /\ Reserves(r)
  /\ run' = [run EXCEPT ![r] = IF @.dry THEN RunIdle ELSE [@ EXCEPT !.at = "sign"]]
  /\ UNCHANGED <<approvalVars, attested, signatures, faults>>

\* INSERT: the primary key refuses a second row, which ends the run.
RunInserts(r) ==
  /\ run[r].at = "insert"
  /\ LET id == IdOf[run[r].auth] IN
     IF row[id] = NoRow
     THEN /\ Reserves(r)
          /\ run' = [run EXCEPT ![r] = IF @.dry THEN RunIdle ELSE [@ EXCEPT !.at = "sign"]]
     ELSE run' = [run EXCEPT ![r] = RunIdle] /\ UNCHANGED row
  /\ UNCHANGED <<approvalVars, attested, signatures, faults>>

\* signPsbtWithWif: the key signs every input.
RunSigns(r) ==
  /\ run[r].at = "sign"
  /\ signatures' = signatures \cup {<<run[r].auth, run[r].psbt>>}
  /\ run' = [run EXCEPT ![r].at = "mark"]
  /\ UNCHANGED <<approvalVars, row, attested, faults>>

\* Mutant of RunCannotSign: an error gives the reservation up.
RunReleases(r) ==
  /\ run[r].at = "sign" /\ Fault
  /\ row' = [row EXCEPT ![IdOf[run[r].auth]] = NoRow]
  /\ run' = [run EXCEPT ![r] = RunIdle]
  /\ UNCHANGED <<approvalVars, attested, signatures>>

\* A key that does not: markError writes the error and leaves the reservation.
RunCannotSign(r) ==
  /\ run[r].at = "sign" /\ Fault
  /\ run' = [run EXCEPT ![r] = RunIdle]
  /\ UNCHANGED <<approvalVars, row, attested, signatures>>

\* markSigned: UPDATE of the redeem id's row, if there is one.
RunMarks(r) ==
  /\ run[r].at = "mark"
  /\ row' = [row EXCEPT ![IdOf[run[r].auth]] =
               IF @ = NoRow THEN @ ELSE [@ EXCEPT !.status = "signed", !.psbt = run[r].psbt]]
  /\ run' = [run EXCEPT ![r] = RunIdle]
  /\ UNCHANGED <<approvalVars, attested, signatures, faults>>

RunEnds(r) ==
  /\ run[r] # RunIdle /\ Fault
  /\ run' = [run EXCEPT ![r] = RunIdle]
  /\ UNCHANGED <<approvalVars, row, attested, signatures>>

Signing ==
  \/ \E s \in Honest, a \in Authorizations : Attest(s, a)
  \/ \E a \in Authorizations, p \in Psbts, dry \in BOOLEAN : RunBegins(a, p, dry)
  \/ \E r \in Runs :
       \/ RunInserts(r) \/ RunSigns(r) \/ RunCannotSign(r) \/ RunMarks(r) \/ RunEnds(r)
=============================================================================
