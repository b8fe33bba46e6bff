------------------------------ MODULE EscrowAnt ------------------------------
(***************************************************************************)
(* The ANT half of ario-ant-escrow: one escrow PDA per Metaplex Core asset *)
(* (an ANT), deposited by its owner for an identity on another chain and   *)
(* claimed with that identity's signature over a canonical message.        *)
(* Refines AntCustody, which knows nothing of signatures and nonces.       *)
(***************************************************************************)
EXTENDS EscrowClaims, FiniteSets

CONSTANTS
  Users,       \* Solana wallets: depositors, claimants
  Assets,      \* ANT mints
  Escrow,      \* the escrow PDA of an asset, as its owner
  Burned,      \* the asset is destroyed
  Authority,   \* ario_config.authority
  PurgeGrace,  \* UNCLAIMED_PURGE_GRACE_SLOTS
  MaxSlot,     \* bound on the slot counter
  MaxRotations,  \* bound on update_recipient calls per deposit
  MaxSignatures  \* bound on the messages signed

ASSUME EscrowAssumption ==
  /\ Escrow \notin Users /\ Burned \notin Users /\ Escrow # Burned
  /\ Authority \in Users
  /\ PurgeGrace \in Nat /\ MaxSlot \in Nat

VARIABLES
  slot,        \* Clock::slot
  owner,       \* asset -> owner in the MPL Core account
  ua,          \* asset -> update authority in the MPL Core account
  escrow,      \* asset -> EscrowAnt or NoEscrow
  signatures,  \* messages signed by their recipient
  attested,    \* messages the attestor has signed
  since,       \* history: asset -> slot in which the recipient was last set
  log          \* history: the consents given, as AntCustody records them

vars == <<slot, owner, ua, escrow, signatures, attested, since, log>>

\* The escrow account does not exist.
NoEscrow == [closed |-> TRUE]

EscrowAntRecord(e) ==
  /\ DOMAIN e = {"depositor", "recipient", "nonce", "deposit_slot", "rotations"}
  /\ e.depositor \in Users
  /\ e.recipient \in Recipients
  /\ e.deposit_slot \in Nat
  /\ e.rotations \in Nat

TypeOK ==
  /\ slot \in Nat
  /\ owner \in [Assets -> Users \cup {Escrow, Burned}]
  /\ DOMAIN ua = Assets
  /\ DOMAIN escrow = Assets
  /\ \A a \in Assets : escrow[a] # NoEscrow => EscrowAntRecord(escrow[a])
  /\ since \in [Assets -> Nat]

\* The message the program rebuilds from the escrow's state for claimant c.
MessageFor(a, c) ==
  ClaimMessage("ant", a, 0, c, escrow[a].nonce, escrow[a].recipient)

Init ==
  /\ slot = 0
  /\ owner \in [Assets -> Users]
  /\ ua = owner
  /\ escrow = [a \in Assets |-> NoEscrow]
  /\ signatures = {}
  /\ attested = {}
  /\ since = [a \in Assets |-> 0]
  /\ log = {}

-----------------------------------------------------------------------------
(* The two CPIs into MPL Core, with the checks that program makes: the     *)
(* owner transfers or burns, the update authority hands itself on.         *)

TransferByWallet(a, u) == owner[a] = u /\ owner' = [owner EXCEPT ![a] = Escrow]
SetUaByWallet(a, u) == ua[a] = u /\ ua' = [ua EXCEPT ![a] = Escrow]
TransferByPda(a, u) == owner[a] = Escrow /\ owner' = [owner EXCEPT ![a] = u]
SetUaByPda(a, u) == ua[a] = Escrow /\ ua' = [ua EXCEPT ![a] = u]
BurnByPda(a) == owner[a] = Escrow /\ owner' = [owner EXCEPT ![a] = Burned]

CloseEscrow(a) == escrow' = [escrow EXCEPT ![a] = NoEscrow]

-----------------------------------------------------------------------------

DepositAntAccounts(a) == escrow[a] = NoEscrow /\ owner[a] # Burned

\* Mutant: the update authority stays with the depositor.
DepositAntOnly(a, d, r) ==
  /\ DepositAntAccounts(a)
  /\ owner[a] = d
  /\ TransferByWallet(a, d)
  /\ ua' = ua
  /\ escrow' = [escrow EXCEPT ![a] =
       [depositor |-> d, recipient |-> r, nonce |-> InitialNonce(slot, a, d),
        deposit_slot |-> slot, rotations |-> 0]]
  /\ since' = [since EXCEPT ![a] = slot]
  /\ UNCHANGED <<slot, signatures, attested, log>>

DepositAnt(a, d, r) ==
  /\ DepositAntAccounts(a)
  /\ owner[a] = d
  /\ TransferByWallet(a, d)
  /\ SetUaByWallet(a, d)
  /\ escrow' = [escrow EXCEPT ![a] =
       [depositor |-> d, recipient |-> r, nonce |-> InitialNonce(slot, a, d),
        deposit_slot |-> slot, rotations |-> 0]]
  /\ since' = [since EXCEPT ![a] = slot]
  /\ UNCHANGED <<slot, signatures, attested, log>>

CancelDepositAccounts(a, d) == escrow[a] # NoEscrow /\ escrow[a].depositor = d

CancelDeposit(a, d) ==
  /\ CancelDepositAccounts(a, d)
  /\ TransferByPda(a, d)
  /\ SetUaByPda(a, d)
  /\ CloseEscrow(a)
  /\ UNCHANGED <<slot, signatures, attested, since, log>>

UpdateRecipientAccounts(a, d) == escrow[a] # NoEscrow /\ escrow[a].depositor = d

\* Mutant: the nonce is not rotated.
UpdateRecipientSameNonce(a, d, r) ==
  /\ UpdateRecipientAccounts(a, d)
  /\ escrow[a].rotations < MaxRotations
  /\ escrow' = [escrow EXCEPT ![a].recipient = r, ![a].rotations = @ + 1]
  /\ since' = [since EXCEPT ![a] = slot]
  /\ UNCHANGED <<slot, owner, ua, signatures, attested, log>>

UpdateRecipient(a, d, r) ==
  /\ UpdateRecipientAccounts(a, d)
  /\ escrow[a].rotations < MaxRotations
  /\ escrow' = [escrow EXCEPT
       ![a].recipient = r,
       ![a].nonce = RotatedNonce(slot, a, escrow[a].depositor, escrow[a].nonce),
       ![a].rotations = @ + 1]
  /\ since' = [since EXCEPT ![a] = slot]
  /\ UNCHANGED <<slot, owner, ua, signatures, attested, log>>

\* A claim's payer is anybody: claimant, nonce and recipient are in the message.
ClaimAntAccounts(a) == escrow[a] # NoEscrow

ReleaseTo(a, c) ==
  /\ TransferByPda(a, c)
  /\ SetUaByPda(a, c)
  /\ CloseEscrow(a)
  /\ UNCHANGED <<slot, signatures, attested, since, log>>

ClaimAntEthereum(a, c, nonce) ==
  /\ ClaimAntAccounts(a)
  /\ ClaimVerified(MessageFor(a, c), escrow[a], "ethereum", nonce, signatures, attested)
  /\ ReleaseTo(a, c)

ClaimAntArweaveAttestedAccounts(a) == escrow[a] # NoEscrow

ClaimAntArweaveAttested(a, c, nonce) ==
  /\ ClaimAntArweaveAttestedAccounts(a)
  /\ ClaimVerified(MessageFor(a, c), escrow[a], "arweave", nonce, signatures, attested)
  /\ ReleaseTo(a, c)

PurgeAccounts(a, u) == escrow[a] # NoEscrow /\ u = Authority

AdminPurgeUnclaimedAnt(a, u) ==
  /\ PurgeAccounts(a, u)
  /\ slot - escrow[a].deposit_slot >= PurgeGrace
  /\ BurnByPda(a)
  /\ CloseEscrow(a)
  /\ UNCHANGED <<slot, ua, signatures, attested, since, log>>

-----------------------------------------------------------------------------
(* Outside the program: the recipient signs, the attestor countersigns an  *)
(* Arweave signature it has verified, owners trade.                        *)

\* The message is built from the escrow the recipient sees.
Sign(a, c) ==
  /\ escrow[a] # NoEscrow
  /\ Cardinality(signatures) < MaxSignatures
  /\ signatures' = signatures \cup {MessageFor(a, c)}
  /\ log' = log \cup {[asset |-> a, depositor |-> escrow[a].depositor,
                       recipient |-> escrow[a].recipient, claimant |-> c, since |-> since[a]]}
  /\ UNCHANGED <<slot, owner, ua, escrow, attested, since>>

Attest(m) ==
  /\ m \in signatures
  /\ m.recipient \notin Ethereum
  /\ attested' = attested \cup {m}
  /\ UNCHANGED <<slot, owner, ua, escrow, signatures, since, log>>

\* MPL Core transfers leave the update authority where it was.
Trade(a, u) ==
  /\ owner[a] \in Users
  /\ owner' = [owner EXCEPT ![a] = u]
  /\ UNCHANGED <<slot, ua, escrow, signatures, attested, since, log>>

HandOverUa(a, u) ==
  /\ ua[a] \in Users
  /\ ua' = [ua EXCEPT ![a] = u]
  /\ UNCHANGED <<slot, owner, escrow, signatures, attested, since, log>>

Advance ==
  /\ slot < MaxSlot
  /\ slot' = slot + 1
  /\ UNCHANGED <<owner, ua, escrow, signatures, attested, since, log>>

\* Nonces a claim can be submitted with: those of the signed messages.
Nonces == {m.nonce : m \in signatures}

EscrowNext ==
  \/ \E a \in Assets, d \in Users, r \in Recipients : DepositAnt(a, d, r)
  \/ \E a \in Assets, d \in Users : CancelDeposit(a, d)
  \/ \E a \in Assets, d \in Users, r \in Recipients : UpdateRecipient(a, d, r)
  \/ \E a \in Assets, c \in Users, n \in Nonces : ClaimAntEthereum(a, c, n)
  \/ \E a \in Assets, c \in Users, n \in Nonces : ClaimAntArweaveAttested(a, c, n)
  \/ \E a \in Assets, u \in Users : AdminPurgeUnclaimedAnt(a, u)

Next ==
  \/ EscrowNext
  \/ \E a \in Assets, c \in Users : Sign(a, c)
  \/ \E m \in signatures : Attest(m)
  \/ \E a \in Assets, u \in Users \cup {Escrow} : Trade(a, u)
  \/ \E a \in Assets, u \in Users : HandOverUa(a, u)
  \/ Advance

Spec == Init /\ [][Next]_vars

-----------------------------------------------------------------------------
(* Properties *)

(* While an escrow account exists its asset is in custody: the PDA is both  *)
(* the owner and the update authority, so no CPI of a cancel or a claim can *)
(* fail half way and nobody else can move or rewrite the ANT.               *)
InCustody ==
  \A a \in Assets : escrow[a] # NoEscrow => owner[a] = Escrow /\ ua[a] = Escrow

\* What AntCustody calls the trust over an asset.
TrustOf(a) ==
  IF escrow[a] = NoEscrow THEN NoEscrow
  ELSE [depositor |-> escrow[a].depositor, recipient |-> escrow[a].recipient,
        since |-> since[a], opened |-> escrow[a].deposit_slot]

Custody == INSTANCE AntCustody WITH
  holder <- owner, trust <- [a \in Assets |-> TrustOf(a)], given <- log, NoTrust <- NoEscrow

(* The escrow keeps its promise: every step of the program is a step of      *)
(* AntCustody, in which an ANT goes only back to its depositor, to a         *)
(* claimant agreed to under the trust now in force, or is burned when        *)
(* abandoned.  A signature made before update_recipient, or for an earlier   *)
(* deposit, must not open the escrow again.                                  *)
CustodyKept == Custody!Spec
=============================================================================
