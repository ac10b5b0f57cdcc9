------------------------ MODULE AttestationVerifier ------------------------
(***************************************************************************)
(* Threshold attestations (contracts/AttestationVerifier.sol and ECDSA.sol *)
(* on chain, scripts/lib/attestation-ingest.js and bridge.js off chain).   *)
(* An address is a number, 0 what ecrecover answers for a signature that   *)
(* is none; a signature is the address it recovers to over the digest and  *)
(* whether it is canonical.  keccak256 is injective: Digest.               *)
(***************************************************************************)
EXTENDS Integers, FiniteSets, Sequences

Digest(x) == [digest |-> x]

\* _setSignerSet: strictly ascending, so distinct, and never the zero address.
ValidSignerSet(signers, threshold) ==
  /\ threshold \in 1 .. Len(signers)
  /\ \A i \in DOMAIN signers : signers[i] # 0 /\ (i > 1 => signers[i - 1] < signers[i])

SignerSetDigest(signers, threshold) == Digest(<<signers, threshold>>)

\* The digest the signers sign, whatever the authorization's kind.
AuthorizationDigest(domain, structHash, signerSet) ==
  Digest(<<domain, structHash, signerSet>>)

\* ECDSA.recover: reverts on a non-canonical s or v and on the zero address.
Recovers(signature) == signature.canonical /\ signature.address # 0

\* Mutant of VerifyAttestation: a signer may sign twice.
VerifyRepeated(signers, threshold, attestation) ==
  /\ attestation.signerSet = SignerSetDigest(signers, threshold)
  /\ Len(attestation.signatures) >= threshold
  /\ \A i \in DOMAIN attestation.signatures :
        \E j \in DOMAIN signers : signers[j] = attestation.signatures[i].address

\* An attestation verifies: made for this signer set, at least threshold
\* signatures, each of them of an authorized signer and no two of the same.
VerifyAttestation(signers, threshold, attestation) ==
  /\ attestation.signerSet = SignerSetDigest(signers, threshold)
  /\ Len(attestation.signatures) >= threshold
  /\ \A i \in DOMAIN attestation.signatures :
        LET signature == attestation.signatures[i] IN
        /\ Recovers(signature)
        /\ \E j \in DOMAIN signers : signers[j] = signature.address
        /\ \A j \in 1 .. i - 1 : attestation.signatures[j].address # signature.address
=============================================================================
