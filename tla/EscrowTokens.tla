---------------------------- MODULE EscrowTokens ----------------------------
(***************************************************************************)
(* The token half of ario-ant-escrow, on top of the vault ledger it calls: *)
(* liquid deposits and time-locked ones.  A claim of a locked deposit      *)
(* re-locks it in an ario-core vault with the time that is left, by a CPI  *)
(* into create_vault or vaulted_transfer, or pays it out when less is left *)
(* than the shortest lock ario-core accepts.                               *)
(***************************************************************************)
EXTENDS CoreVaults, EscrowClaims

CONSTANTS
  AssetIds,        \* client-supplied asset ids
  MinVaultAmount,  \* MIN_VAULT_AMOUNT of deposit_vault
  MinVaultLock,    \* MIN_VAULT_LOCK_DURATION of deposit_vault
  MaxRotations,    \* bound on update_*_recipient calls per deposit
  MaxSignatures    \* bound on the messages signed

VARIABLES
  escrow,      \* <<kind, depositor, asset>> -> EscrowToken or NoEscrow
  pot,         \* the token accounts of each escrow PDA
  signatures,  \* messages signed by their recipient
  attested     \* messages the attestor has signed

escrowVars == <<escrow, pot, signatures, attested>>
vars == <<coreVars, escrowVars>>

\* The escrow PDA does not exist.
NoEscrow == [closed |-> TRUE]

EscrowKeys == {"token", "vault"} \X Users \X AssetIds

EscrowTokenRecord(e) ==
  /\ DOMAIN e = {"amount", "recipient", "nonce", "vault_end", "rotations"}
  /\ e.amount \in Nat /\ e.recipient \in Recipients /\ e.vault_end \in Int

TypeOK ==
  /\ CoreTypeOK
  /\ DOMAIN escrow = EscrowKeys
  /\ \A e \in EscrowKeys : escrow[e] # NoEscrow => EscrowTokenRecord(escrow[e])
  /\ pot \in [EscrowKeys -> [Slots -> Nat]]

MessageFor(e, c) ==
  ClaimMessage(e[1], e[3], escrow[e].amount, c, escrow[e].nonce, escrow[e].recipient)

Init ==
  /\ CoreInit
  /\ escrow = [e \in EscrowKeys |-> NoEscrow]
  /\ pot = [e \in EscrowKeys |-> [s \in Slots |-> 0]]
  /\ signatures = {}
  /\ attested = {}

\* Mutant: the account outlives its settlement.
KeepEscrow(e) == escrow' = escrow

CloseEscrow(e) == escrow' = [escrow EXCEPT ![e] = NoEscrow]

-----------------------------------------------------------------------------
(* Deposits.  The slot of the nonce is the clock's: a tick is a new slot.  *)

DepositAccounts(e, s) == escrow[e] = NoEscrow /\ s \in Slots

FundEscrow(e, s, amount, end, r) ==
  /\ wallet[e[2]] >= amount
  /\ wallet' = [wallet EXCEPT ![e[2]] = @ - amount]
  /\ pot' = [pot EXCEPT ![e][s] = @ + amount]
  /\ escrow' = [escrow EXCEPT ![e] =
       [amount |-> amount, recipient |-> r, nonce |-> InitialNonce(now, e[3], e[2]),
        vault_end |-> end, rotations |-> 0]]
  /\ UNCHANGED <<now, config, supply, vault, nextId, custody, treasury, imported, audited>>
  /\ UNCHANGED <<signatures, attested>>

DepositTokens(d, x, s, amount, r) ==
  LET e == <<"token", d, x>> IN
  /\ DepositAccounts(e, s)
  /\ amount > 0
  /\ FundEscrow(e, s, amount, 0, r)

DepositVaultAccounts(e, s) == escrow[e] = NoEscrow /\ s \in Slots

DepositVault(d, x, s, amount, lock, revocable, r) ==
  LET e == <<"vault", d, x>> IN
  /\ DepositVaultAccounts(e, s)
  /\ amount > 0 /\ amount >= MinVaultAmount
  /\ lock >= MinVaultLock
  /\ ~revocable
  /\ FundEscrow(e, s, amount, now + lock, r)

-----------------------------------------------------------------------------
(* The depositor changes the recipient or takes the deposit back.          *)

UpdateRecipient(e, r) ==
  /\ escrow[e].rotations < MaxRotations
  /\ escrow' = [escrow EXCEPT
       ![e].recipient = r,
       ![e].nonce = RotatedNonce(now, e[3], e[2], escrow[e].nonce),
       ![e].rotations = @ + 1]
  /\ UNCHANGED <<coreVars, pot, signatures, attested>>

UpdateTokenRecipient(e, r) ==
  /\ e[1] = "token" /\ escrow[e] # NoEscrow
  /\ UpdateRecipient(e, r)

UpdateVaultRecipient(e, r) ==
  /\ e[1] = "vault" /\ escrow[e] # NoEscrow
  /\ UpdateRecipient(e, r)

\* transfer `amount` out of token account s, then close_account, which the SPL
\* program refuses unless the account is empty.
PayOutExactly(e, s, u) ==
  /\ pot[e][s] = escrow[e].amount
  /\ pot' = [pot EXCEPT ![e][s] = 0]
  /\ wallet' = [wallet EXCEPT ![u] = @ + escrow[e].amount]
  /\ CloseEscrow(e)
  /\ UNCHANGED <<now, config, supply, vault, nextId, custody, treasury, imported, audited>>
  /\ UNCHANGED <<signatures, attested>>

CancelTokenDepositAccounts(e) == e[1] = "token" /\ escrow[e] # NoEscrow

CancelTokenDeposit(e, s) ==
  /\ CancelTokenDepositAccounts(e)
  /\ PayOutExactly(e, s, e[2])

CancelVaultDepositAccounts(e) == e[1] = "vault" /\ escrow[e] # NoEscrow

CancelVaultDeposit(e, s) ==
  /\ CancelVaultDepositAccounts(e)
  /\ PayOutExactly(e, s, e[2])

-----------------------------------------------------------------------------
(* Claims of liquid deposits.                                              *)

ClaimTokensAccounts(e) == e[1] = "token" /\ escrow[e] # NoEscrow

ClaimTokensEthereum(e, s, c, nonce) ==
  /\ ClaimTokensAccounts(e)
  /\ ClaimVerified(MessageFor(e, c), escrow[e], "ethereum", nonce, signatures, attested)
  /\ PayOutExactly(e, s, c)

ClaimTokensAttestedAccounts(e) == e[1] = "token" /\ escrow[e] # NoEscrow

ClaimTokensArweaveAttested(e, s, c, nonce) ==
  /\ ClaimTokensAttestedAccounts(e)
  /\ ClaimVerified(MessageFor(e, c), escrow[e], "arweave", nonce, signatures, attested)
  /\ PayOutExactly(e, s, c)

-----------------------------------------------------------------------------
(* Claims of locked deposits (settle_vault_claim).                         *)

Remaining(e) == escrow[e].vault_end - now

MustRelock(e) == Remaining(e) > 0 /\ Remaining(e) >= config.min

\* Mutant: the new vault gets the shortest lock, not the time that is left.
RelockShort(e, s, c, p, t) ==
  /\ MustRelock(e)
  /\ IF p = c THEN CreateVaultAccounts(c) ELSE VaultedTransferAccounts(c)
  /\ LockAllowed(escrow[e].amount, config.min)
  /\ OpenVault(c, t, escrow[e].amount, config.min, NoUser)
  /\ wallet' = [wallet EXCEPT ![c] = @ + (pot[e][s] - escrow[e].amount)]

\* Pass-through to the payer and CPI in one instruction: the payer's wallet ends
\* where it began.  What the token account holds beyond the deposit is paid out.
Relock(e, s, c, p, t) ==
  /\ MustRelock(e)
  /\ IF p = c THEN CreateVaultAccounts(c) ELSE VaultedTransferAccounts(c)
  /\ LockAllowed(escrow[e].amount, Remaining(e))
  /\ OpenVault(c, t, escrow[e].amount, Remaining(e), NoUser)
  /\ wallet' = [wallet EXCEPT ![c] = @ + (pot[e][s] - escrow[e].amount)]

PayOutAll(e, s, c) ==
  /\ ~MustRelock(e)
  /\ wallet' = [wallet EXCEPT ![c] = @ + pot[e][s]]
  /\ UNCHANGED <<now, config, supply, vault, nextId, custody, treasury, imported, audited>>

SettleVaultClaim(e, s, c, p, t) ==
  /\ pot[e][s] >= escrow[e].amount
  /\ Relock(e, s, c, p, t) \/ PayOutAll(e, s, c)
  /\ pot' = [pot EXCEPT ![e][s] = 0]
  /\ CloseEscrow(e)
  /\ UNCHANGED <<signatures, attested>>

ClaimVaultAccounts(e) == e[1] = "vault" /\ escrow[e] # NoEscrow

ClaimVaultEthereum(e, s, c, p, t, nonce) ==
  /\ ClaimVaultAccounts(e)
  /\ ClaimVerified(MessageFor(e, c), escrow[e], "ethereum", nonce, signatures, attested)
  /\ SettleVaultClaim(e, s, c, p, t)

ClaimVaultAttestedAccounts(e) == e[1] = "vault" /\ escrow[e] # NoEscrow

ClaimVaultArweaveAttested(e, s, c, p, t, nonce) ==
  /\ ClaimVaultAttestedAccounts(e)
  /\ ClaimVerified(MessageFor(e, c), escrow[e], "arweave", nonce, signatures, attested)
  /\ SettleVaultClaim(e, s, c, p, t)

-----------------------------------------------------------------------------
(* Outside the program.                                                    *)

Sign(e, c) ==
  /\ escrow[e] # NoEscrow
  /\ Cardinality(signatures) < MaxSignatures
  /\ signatures' = signatures \cup {MessageFor(e, c)}
  /\ UNCHANGED <<coreVars, escrow, pot, attested>>

Attest(m) ==
  /\ m \in signatures
  /\ m.recipient \notin Ethereum
  /\ attested' = attested \cup {m}
  /\ UNCHANGED <<coreVars, escrow, pot, signatures>>

\* The SPL token program lets anybody pay into an escrow's token account.
DonateToEscrow(u, e, s, amount) ==
  /\ amount > 0
  /\ wallet[u] >= amount
  /\ wallet' = [wallet EXCEPT ![u] = @ - amount]
  /\ pot' = [pot EXCEPT ![e][s] = @ + amount]
  /\ UNCHANGED <<now, config, supply, vault, nextId, custody, treasury, imported, audited>>
  /\ UNCHANGED <<escrow, signatures, attested>>

Nonces == {m.nonce : m \in signatures}

DepositorNext ==
  \/ \E d \in Users, x \in AssetIds, s \in Slots, a \in Amounts, r \in Recipients :
       DepositTokens(d, x, s, a, r)
  \/ \E d \in Users, x \in AssetIds, s \in Slots, a \in Amounts, l \in Locks, b \in BOOLEAN,
        r \in Recipients : DepositVault(d, x, s, a, l, b, r)
  \/ \E e \in EscrowKeys, r \in Recipients : UpdateTokenRecipient(e, r)
  \/ \E e \in EscrowKeys, r \in Recipients : UpdateVaultRecipient(e, r)
  \/ \E e \in EscrowKeys, s \in Slots : CancelTokenDeposit(e, s)
  \/ \E e \in EscrowKeys, s \in Slots : CancelVaultDeposit(e, s)

ClaimNext ==
  \/ \E e \in EscrowKeys, s \in Slots, c \in Users, n \in Nonces : ClaimTokensEthereum(e, s, c, n)
  \/ \E e \in EscrowKeys, s \in Slots, c \in Users, n \in Nonces :
       ClaimTokensArweaveAttested(e, s, c, n)
  \/ \E e \in EscrowKeys, s, t \in Slots, c, p \in Users, n \in Nonces :
       ClaimVaultEthereum(e, s, c, p, t, n)
  \/ \E e \in EscrowKeys, s, t \in Slots, c, p \in Users, n \in Nonces :
       ClaimVaultArweaveAttested(e, s, c, p, t, n)

\* The steps of ario-core an escrow can notice: claimants open and release vaults
\* of their own, the accepted lock durations change, time passes.
CoreStep ==
  \/ \E o \in Users, s \in Slots, a \in Amounts, l \in Locks : CreateVault(o, s, a, l)
  \/ \E k \in Keys, s \in Slots : ReleaseVault(k, s)
  \/ \E u \in Users, b \in DurationBounds : UpdateConfig(u, b)
  \/ Tick

Next ==
  \/ CoreStep /\ UNCHANGED escrowVars
  \/ DepositorNext
  \/ ClaimNext
  \/ \E e \in EscrowKeys, c \in Users : Sign(e, c)
  \/ \E m \in signatures : Attest(m)
  \/ \E u \in Users, e \in EscrowKeys, s \in Slots, a \in Amounts : DonateToEscrow(u, e, s, a)

Spec == Init /\ [][Next]_vars
-----------------------------------------------------------------------------
(* Properties *)

LiveEscrows == {e \in EscrowKeys : escrow[e] # NoEscrow}

(* The token accounts of an escrow PDA hold at least its deposit as long as  *)
(* the escrow exists, whatever is donated to them and however often the PDA  *)
(* is opened and closed: the tokens a claim or a cancel pays out are there.  *)
EscrowsPaid ==
  \A e \in LiveEscrows : SumFunctionOnSet(pot[e], Slots) >= escrow[e].amount

(* A locked deposit stays locked through the escrow: while the time left is  *)
(* one ario-core can lock for, the escrow ends only by the depositor's own   *)
(* cancel, which gives the deposit back and touches no vault, or in a new    *)
(* vault of the full amount that nobody can revoke and that unlocks when the *)
(* deposit would have.                                                       *)
EscrowLocksKept ==
  [][\A e \in LiveEscrows :
       e[1] = "vault" /\ MustRelock(e) /\ escrow'[e] = NoEscrow =>
         \/ /\ \E s \in Slots : CancelVaultDeposit(e, s)
            /\ vault' = vault
            /\ wallet' = [wallet EXCEPT ![e[2]] = @ + escrow[e].amount]
         \/ \E k \in Keys :
              /\ vault[k] = NoVault
              /\ vault'[k] = [amount |-> escrow[e].amount, end |-> escrow[e].vault_end,
                              controller |-> NoUser, revocable |-> FALSE]]_vars

(* A signature opens at most one escrow: two escrows alive at the same time, *)
(* for the same recipient, amount and client-chosen asset id, liquid or      *)
(* locked, of one depositor or of two, never accept the same message.        *)
OneEscrowPerSignature ==
  \A e, f \in LiveEscrows, c \in Users :
    MessageFor(e, c) \in signatures /\ MessageFor(f, c) = MessageFor(e, c) => e = f
=============================================================================
