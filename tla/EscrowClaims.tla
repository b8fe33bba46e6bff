----------------------------- MODULE EscrowClaims -----------------------------
(***************************************************************************)
(* What the escrow program's claims rest on: recipients that live on       *)
(* another chain, the canonical message they sign, the nonce that binds a  *)
(* message to one state of one escrow, and the two ways a signature        *)
(* reaches the program.  SHA-256 is modelled by the tuple of its inputs:   *)
(* equal inputs give equal nonces, different inputs different ones.        *)
(***************************************************************************)
EXTENDS Integers

CONSTANTS
  Recipients,  \* Arweave and Ethereum identities
  Ethereum     \* the recipients whose protocol is PROTOCOL_ETHEREUM

ASSUME EthereumAssumption == Ethereum \subseteq Recipients

Protocols == {"arweave", "ethereum"}

\* validated_protocol_and_len: the key's length fixes the protocol of a recipient.
ProtocolOf(r) == IF r \in Ethereum THEN "ethereum" ELSE "arweave"

\* Mutant: the nonce does not bind the depositor.
InitialNonceUnbound(slot, asset, depositor) == <<slot, asset>>

\* derive_initial_nonce: the slot, the asset and the depositor.
InitialNonce(slot, asset, depositor) == <<slot, asset, depositor>>

\* derive_rotated_nonce: the same with the nonce it replaces.
RotatedNonce(slot, asset, depositor, old) == <<slot, asset, depositor, old>>

\* build_escrow_claim_message / build_ant_escrow_claim_message: version header
\* and type, asset, amount, claimant, nonce and the recipient's own identity.
ClaimMessage(kind, asset, amount, claimant, nonce, recipient) ==
  [kind |-> kind, asset |-> asset, amount |-> amount, claimant |-> claimant,
   nonce |-> nonce, recipient |-> recipient]

\* verify_personal_sign recovers the signer of the message and compares it with
\* the escrow's recipient; signatures are the messages their recipient has signed.
VerifyPersonalSign(m, signatures) == m \in signatures /\ m.recipient \in Ethereum

\* verify_attested_signature: the transaction carries the attestor's signature
\* over the same message, which the attestor gives for an Arweave signature.
VerifyAttestedSignature(m, attested) == m \in attested

\* The guards every claim shares: protocol, nonce, message, signature.
ClaimVerified(m, escrow, protocol, nonce, signatures, attested) ==
  /\ ProtocolOf(escrow.recipient) = protocol
  /\ nonce = escrow.nonce
  /\ IF protocol = "ethereum" THEN VerifyPersonalSign(m, signatures)
                              ELSE VerifyAttestedSignature(m, attested)
=============================================================================
