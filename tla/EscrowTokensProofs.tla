------------------------- MODULE EscrowTokensProofs -------------------------
(***************************************************************************)
(* Proofs about EscrowTokens composed with the vault ledger, for every set *)
(* of users, recipients and assets, every amount and every lock.           *)
(***************************************************************************)
EXTENDS EscrowTokens, CoreVaultsProofs

(* The parts of an escrow's key. *)
LEMMA EscrowKey ==
  /\ \A e \in EscrowKeys : e[2] \in Users /\ e = <<e[1], e[2], e[3]>>
  /\ \A d \in Users, x \in AssetIds : <<"token", d, x>> \in EscrowKeys /\ <<"vault", d, x>> \in EscrowKeys
BY DEF EscrowKeys

-----------------------------------------------------------------------------
(***************************************************************************)
(* The inductive invariant: every escrow that exists has its tokens, and   *)
(* its nonce names its depositor, through every rotation.                  *)
(***************************************************************************)
EscrowAt(e) ==
  escrow[e] # NoEscrow =>
    /\ EscrowTokenRecord(escrow[e])
    /\ SumFunctionOnSet(pot[e], Slots) >= escrow[e].amount
    /\ escrow[e].nonce[3] = e[2]

EscrowInv ==
  /\ CoreTypeOK
  /\ DOMAIN escrow = EscrowKeys
  /\ pot \in [EscrowKeys -> [Slots -> Nat]]
  /\ \A e \in EscrowKeys : EscrowAt(e)

(* A record is never mistaken for an account that does not exist. *)
LEMMA RecordOpen == ASSUME NEW e, EscrowTokenRecord(e) PROVE e # NoEscrow
BY DEF EscrowTokenRecord, NoEscrow

(* What a token account of an escrow gains, the escrow gains. *)
LEMMA PotAdd ==
  ASSUME pot \in [EscrowKeys -> [Slots -> Nat]], NEW e \in EscrowKeys, NEW s \in Slots,
         NEW a \in Nat, pot' = [pot EXCEPT ![e][s] = @ + a]
  PROVE  /\ pot' \in [EscrowKeys -> [Slots -> Nat]]
         /\ \A f \in EscrowKeys \ {e} : pot'[f] = pot[f]
         /\ SumFunctionOnSet(pot[e], Slots) \in Nat
         /\ SumFunctionOnSet(pot'[e], Slots) = SumFunctionOnSet(pot[e], Slots) + a
<1>. DEFINE f == pot[e]
            g == pot'[e]
<1>1. /\ pot' \in [EscrowKeys -> [Slots -> Nat]]
      /\ \A x \in EscrowKeys \ {e} : pot'[x] = pot[x]
  OBVIOUS
<1>2. g[s] = f[s] + a /\ f[s] \in Nat /\ \A t \in Slots \ {s} : g[t] = f[t]
  OBVIOUS
<1>3. \A t \in Slots : f[t] \in Nat /\ f[t] \in Int /\ g[t] \in Int
  BY <1>1
<1>. HIDE DEF f, g
<1>4. SumFunctionOnSet(g, Slots) = SumFunctionOnSet(f, Slots) - f[s] + g[s]
  BY <1>2, <1>3, FiniteKeys, SumUpdate
<1>5. SumFunctionOnSet(f, Slots) \in Nat
  BY <1>3, FiniteKeys, SumNat
<1>6. SumFunctionOnSet(g, Slots) = SumFunctionOnSet(f, Slots) + a
  BY <1>2, <1>4, <1>5
<1>. QED BY <1>1, <1>5, <1>6 DEF f, g

(* A token account swept. *)
LEMMA PotSwept ==
  ASSUME pot \in [EscrowKeys -> [Slots -> Nat]], NEW e \in EscrowKeys, NEW s \in Slots,
         pot' = [pot EXCEPT ![e][s] = 0]
  PROVE  /\ pot' \in [EscrowKeys -> [Slots -> Nat]]
         /\ \A f \in EscrowKeys \ {e} : pot'[f] = pot[f]
OBVIOUS

(* A step that touches one escrow. *)
LEMMA EscrowOne ==
  ASSUME EscrowInv, CoreTypeOK', NEW e \in EscrowKeys, NEW v, escrow' = [escrow EXCEPT ![e] = v],
         pot' \in [EscrowKeys -> [Slots -> Nat]], \A f \in EscrowKeys \ {e} : pot'[f] = pot[f],
         EscrowAt(e)'
  PROVE  EscrowInv'
<1>1. DOMAIN escrow' = EscrowKeys /\ \A f \in EscrowKeys \ {e} : escrow'[f] = escrow[f]
  BY DEF EscrowInv
<1>2. ASSUME NEW f \in EscrowKeys \ {e} PROVE EscrowAt(f)'
  <2>1. EscrowAt(f) /\ escrow'[f] = escrow[f] /\ pot'[f] = pot[f]
    BY <1>1 DEF EscrowInv
  <2>. QED BY <2>1 DEF EscrowAt
<1>. QED BY <1>1, <1>2 DEF EscrowInv

(* A step that leaves the escrows and their tokens alone. *)
LEMMA EscrowKept ==
  ASSUME EscrowInv, CoreTypeOK', UNCHANGED <<escrow, pot>>
  PROVE  EscrowInv'
BY DEF EscrowInv, EscrowAt

(* The wallets after a payment from or to one of them. *)
LEMMA CoreWallet ==
  ASSUME CoreTypeOK, wallet' \in [Users -> Nat],
         UNCHANGED <<now, config, supply, vault, nextId, custody, treasury, imported, audited>>
  PROVE  CoreTypeOK'
BY DEF CoreTypeOK

(* A deposit pays its own escrow. *)
LEMMA FundStep ==
  ASSUME EscrowInv, NEW e \in EscrowKeys, NEW s \in Slots, NEW amount \in Nat, NEW end \in Int,
         NEW r \in Recipients, FundEscrow(e, s, amount, end, r)
  PROVE  EscrowInv' /\ escrow'[e] # NoEscrow /\ \A f \in EscrowKeys \ {e} : escrow'[f] = escrow[f]
<1>. DEFINE v == [amount |-> amount, recipient |-> r, nonce |-> InitialNonce(now, e[3], e[2]),
                  vault_end |-> end, rotations |-> 0]
<1>1. /\ wallet[e[2]] >= amount
      /\ wallet' = [wallet EXCEPT ![e[2]] = @ - amount]
      /\ pot' = [pot EXCEPT ![e][s] = @ + amount]
      /\ escrow' = [escrow EXCEPT ![e] = v]
      /\ UNCHANGED <<now, config, supply, vault, nextId, custody, treasury, imported, audited>>
  BY DEF FundEscrow
<1>2. EscrowTokenRecord(v) /\ v.amount = amount /\ v.nonce[3] = e[2]
  BY DEF EscrowTokenRecord, InitialNonce
<1>. HIDE DEF v
<1>3. CoreTypeOK'
  <2>1. wallet \in [Users -> Nat] /\ e[2] \in Users
    BY EscrowKey DEF EscrowInv, CoreTypeOK
  <2>2. wallet' \in [Users -> Nat]
    BY <1>1, <2>1
  <2>. QED BY <1>1, <2>2, CoreWallet DEF EscrowInv
<1>4. escrow'[e] = v /\ \A f \in EscrowKeys \ {e} : escrow'[f] = escrow[f]
  BY <1>1 DEF EscrowInv
<1>5. pot \in [EscrowKeys -> [Slots -> Nat]]
  BY DEF EscrowInv
<1>6. /\ pot' \in [EscrowKeys -> [Slots -> Nat]]
      /\ \A f \in EscrowKeys \ {e} : pot'[f] = pot[f]
      /\ SumFunctionOnSet(pot[e], Slots) \in Nat
      /\ SumFunctionOnSet(pot'[e], Slots) = SumFunctionOnSet(pot[e], Slots) + amount
  BY <1>1, <1>5, PotAdd
<1>7. SumFunctionOnSet(pot'[e], Slots) >= amount
  BY <1>6
<1>8. EscrowAt(e)'
  BY <1>2, <1>4, <1>7 DEF EscrowAt
<1>9. EscrowInv'
  BY <1>1, <1>3, <1>6, <1>8, EscrowOne
<1>. QED BY <1>2, <1>4, <1>9, RecordOpen

(* A rotation keeps the deposit and the depositor in the nonce. *)
LEMMA RotateStep ==
  ASSUME EscrowInv, NEW e \in EscrowKeys, NEW r \in Recipients, escrow[e] # NoEscrow,
         UpdateRecipient(e, r)
  PROVE  EscrowInv' /\ escrow'[e] # NoEscrow /\ \A f \in EscrowKeys \ {e} : escrow'[f] = escrow[f]
<1>. DEFINE s == escrow[e]
            v == [s EXCEPT !.recipient = r, !.nonce = RotatedNonce(now, e[3], e[2], s.nonce),
                           !.rotations = @ + 1]
<1>1. EscrowTokenRecord(s) /\ EscrowAt(e)
  BY DEF EscrowInv, EscrowAt
<1>2. escrow' = [escrow EXCEPT ![e] = v] /\ UNCHANGED <<coreVars, pot>>
  BY Zenon DEF UpdateRecipient
<1>3. /\ DOMAIN v = DOMAIN s /\ v.recipient = r /\ v.amount = s.amount
      /\ v.vault_end = s.vault_end /\ v.nonce = RotatedNonce(now, e[3], e[2], s.nonce)
  BY <1>1 DEF EscrowTokenRecord
<1>. HIDE DEF v
<1>4. EscrowTokenRecord(v) /\ v.nonce[3] = e[2]
  BY <1>1, <1>3 DEF EscrowTokenRecord, RotatedNonce
<1>5. escrow'[e] = v /\ \A f \in EscrowKeys \ {e} : escrow'[f] = escrow[f]
  BY <1>2 DEF EscrowInv
<1>6. EscrowAt(e)'
  BY <1>1, <1>2, <1>3, <1>4, <1>5 DEF EscrowAt
<1>7. CoreTypeOK'
  BY <1>2 DEF EscrowInv, CoreTypeOK, coreVars
<1>8. EscrowInv'
  BY <1>2, <1>6, <1>7, EscrowOne DEF EscrowInv
<1>. QED BY <1>4, <1>5, <1>8, RecordOpen

(* Closing an escrow leaves the others alone. *)
LEMMA CloseStep ==
  ASSUME EscrowInv, CoreTypeOK', NEW e \in EscrowKeys, NEW s \in Slots,
         pot' = [pot EXCEPT ![e][s] = 0], CloseEscrow(e)
  PROVE  EscrowInv' /\ \A f \in EscrowKeys \ {e} : escrow'[f] = escrow[f]
<1>1. escrow' = [escrow EXCEPT ![e] = NoEscrow]
  BY DEF CloseEscrow
<1>2. escrow'[e] = NoEscrow /\ \A f \in EscrowKeys \ {e} : escrow'[f] = escrow[f]
  BY <1>1 DEF EscrowInv
<1>3. EscrowAt(e)'
  BY <1>2 DEF EscrowAt
<1>4. /\ pot' \in [EscrowKeys -> [Slots -> Nat]]
      /\ \A f \in EscrowKeys \ {e} : pot'[f] = pot[f]
  BY PotSwept DEF EscrowInv
<1>. QED BY <1>1, <1>2, <1>3, <1>4, EscrowOne

(* A cancel and a liquid claim. *)
LEMMA PayOutStep ==
  ASSUME EscrowInv, NEW e \in EscrowKeys, NEW s \in Slots, NEW u \in Users, escrow[e] # NoEscrow,
         PayOutExactly(e, s, u)
  PROVE  EscrowInv' /\ \A f \in EscrowKeys \ {e} : escrow'[f] = escrow[f]
<1>1. escrow[e].amount \in Nat
  BY DEF EscrowInv, EscrowAt, EscrowTokenRecord
<1>2. /\ wallet' = [wallet EXCEPT ![u] = @ + escrow[e].amount]
      /\ UNCHANGED <<now, config, supply, vault, nextId, custody, treasury, imported, audited>>
      /\ pot' = [pot EXCEPT ![e][s] = 0] /\ CloseEscrow(e)
  BY DEF PayOutExactly
<1>3. wallet' \in [Users -> Nat]
  BY <1>1, <1>2 DEF EscrowInv, CoreTypeOK
<1>4. CoreTypeOK'
  BY <1>2, <1>3, CoreWallet DEF EscrowInv
<1>. QED BY <1>2, <1>4, CloseStep

(* A locked claim: either branch leaves ario-core's accounts of their types. *)
LEMMA SettleStep ==
  ASSUME EscrowInv, NEW e \in EscrowKeys, NEW s \in Slots, NEW t \in Slots, NEW c \in Users,
         NEW p \in Users, escrow[e] # NoEscrow, SettleVaultClaim(e, s, c, p, t)
  PROVE  EscrowInv' /\ \A f \in EscrowKeys \ {e} : escrow'[f] = escrow[f]
<1>1. /\ escrow[e].amount \in Nat /\ escrow[e].vault_end \in Int /\ now \in Nat
      /\ pot[e][s] \in Nat /\ wallet \in [Users -> Nat]
  BY DEF EscrowInv, EscrowAt, EscrowTokenRecord, CoreTypeOK
<1>2. /\ pot[e][s] >= escrow[e].amount
      /\ pot' = [pot EXCEPT ![e][s] = 0] /\ CloseEscrow(e)
  BY DEF SettleVaultClaim
<1>3. CASE Relock(e, s, c, p, t)
  <2>1. wallet' = [wallet EXCEPT ![c] = @ + (pot[e][s] - escrow[e].amount)]
    BY <1>3 DEF Relock
  <2>2. wallet' \in [Users -> Nat]
    <3>1. wallet[c] + (pot[e][s] - escrow[e].amount) \in Nat
      BY <1>1, <1>2
    <3>. QED BY <1>1, <2>1, <3>1
  <2>3. Remaining(e) \in Int
    BY <1>1 DEF Remaining
  <2>4. nextId[c] \in Ids /\ OpenVault(c, t, escrow[e].amount, Remaining(e), NoUser)
    BY <1>3 DEF Relock, CreateVaultAccounts, VaultedTransferAccounts
  <2>5. CoreTypeOK'
    BY <1>1, <2>2, <2>3, <2>4, OpenType DEF EscrowInv
  <2>. QED BY <1>2, <2>5, CloseStep
<1>4. CASE PayOutAll(e, s, c)
  <2>1. /\ wallet' = [wallet EXCEPT ![c] = @ + pot[e][s]]
        /\ UNCHANGED <<now, config, supply, vault, nextId, custody, treasury, imported, audited>>
    BY <1>4 DEF PayOutAll
  <2>2. wallet' \in [Users -> Nat]
    BY <1>1, <2>1
  <2>3. CoreTypeOK'
    BY <2>1, <2>2, CoreWallet DEF EscrowInv
  <2>. QED BY <1>2, <2>3, CloseStep
<1>. QED BY <1>3, <1>4 DEF SettleVaultClaim

(* Every step keeps the invariant. *)
LEMMA EscrowStep ==
  ASSUME EscrowInv, [Next]_vars
  PROVE  EscrowInv'
<1>0. /\ CoreTypeOK /\ Amounts \subseteq Nat /\ Locks \subseteq Int /\ now \in Nat
      /\ wallet \in [Users -> Nat] /\ pot \in [EscrowKeys -> [Slots -> Nat]]
  BY CoreAssumption DEF EscrowInv, CoreTypeOK
<1>1. CASE CoreStep /\ UNCHANGED escrowVars
  <2>1. CoreNext
    BY <1>1 DEF CoreStep, CoreNext, VaultNext, AdminNext
  <2>2. CoreTypeOK'
    BY <1>0, <2>1, TypeStep
  <2>. QED BY <1>1, <2>2, EscrowKept DEF escrowVars
<1>2. CASE DepositorNext
  <2>1. ASSUME NEW d \in Users, NEW x \in AssetIds, NEW s \in Slots, NEW a \in Amounts,
               NEW r \in Recipients, DepositTokens(d, x, s, a, r)
        PROVE  EscrowInv'
    <3>1. FundEscrow(<<"token", d, x>>, s, a, 0, r)
      BY <2>1 DEF DepositTokens
    <3>2. <<"token", d, x>> \in EscrowKeys /\ a \in Nat /\ 0 \in Int
      BY <1>0 DEF EscrowKeys
    <3>. QED BY <3>1, <3>2, FundStep
  <2>2. ASSUME NEW d \in Users, NEW x \in AssetIds, NEW s \in Slots, NEW a \in Amounts,
               NEW l \in Locks, NEW b \in BOOLEAN, NEW r \in Recipients,
               DepositVault(d, x, s, a, l, b, r)
        PROVE  EscrowInv'
    <3>1. FundEscrow(<<"vault", d, x>>, s, a, now + l, r)
      BY <2>2 DEF DepositVault
    <3>2. <<"vault", d, x>> \in EscrowKeys /\ a \in Nat /\ now + l \in Int
      BY <1>0 DEF EscrowKeys
    <3>. QED BY <3>1, <3>2, FundStep
  <2>3. ASSUME NEW e \in EscrowKeys, NEW r \in Recipients,
               UpdateTokenRecipient(e, r) \/ UpdateVaultRecipient(e, r)
        PROVE  EscrowInv'
    BY <2>3, RotateStep DEF UpdateTokenRecipient, UpdateVaultRecipient
  <2>4. ASSUME NEW e \in EscrowKeys, NEW s \in Slots,
               CancelTokenDeposit(e, s) \/ CancelVaultDeposit(e, s)
        PROVE  EscrowInv'
    BY <2>4, EscrowKey, PayOutStep DEF CancelTokenDeposit, CancelVaultDeposit,
         CancelTokenDepositAccounts, CancelVaultDepositAccounts
  <2>. QED BY <1>2, <2>1, <2>2, <2>3, <2>4 DEF DepositorNext
<1>3. CASE ClaimNext
  <2>1. ASSUME NEW e \in EscrowKeys, NEW s \in Slots, NEW c \in Users, NEW n,
               ClaimTokensEthereum(e, s, c, n) \/ ClaimTokensArweaveAttested(e, s, c, n)
        PROVE  EscrowInv'
    BY <2>1, PayOutStep DEF ClaimTokensEthereum, ClaimTokensArweaveAttested, ClaimTokensAccounts,
         ClaimTokensAttestedAccounts
  <2>2. ASSUME NEW e \in EscrowKeys, NEW s \in Slots, NEW t \in Slots, NEW c \in Users,
               NEW p \in Users, NEW n,
               ClaimVaultEthereum(e, s, c, p, t, n) \/ ClaimVaultArweaveAttested(e, s, c, p, t, n)
        PROVE  EscrowInv'
    BY <2>2, SettleStep DEF ClaimVaultEthereum, ClaimVaultArweaveAttested, ClaimVaultAccounts,
         ClaimVaultAttestedAccounts
  <2>. QED BY <1>3, <2>1, <2>2 DEF ClaimNext
<1>4. ASSUME UNCHANGED <<coreVars, escrow, pot>> PROVE EscrowInv'
  <2>1. CoreTypeOK'
    BY <1>0, <1>4 DEF CoreTypeOK, coreVars
  <2>. QED BY <1>4, <2>1, EscrowKept
<1>5. CASE \E e \in EscrowKeys, c \in Users : Sign(e, c)
  BY <1>4, <1>5 DEF Sign
<1>6. CASE \E m \in signatures : Attest(m)
  BY <1>4, <1>6 DEF Attest
<1>7. ASSUME NEW u \in Users, NEW e \in EscrowKeys, NEW s \in Slots, NEW a \in Amounts,
             DonateToEscrow(u, e, s, a)
      PROVE  EscrowInv'
  <2>1. /\ wallet[u] >= a /\ wallet' = [wallet EXCEPT ![u] = @ - a]
        /\ pot' = [pot EXCEPT ![e][s] = @ + a] /\ escrow' = escrow
        /\ UNCHANGED <<now, config, supply, vault, nextId, custody, treasury, imported, audited>>
    BY <1>7 DEF DonateToEscrow
  <2>2. a \in Nat /\ wallet' \in [Users -> Nat]
    BY <1>0, <2>1
  <2>3. CoreTypeOK'
    BY <1>0, <2>1, <2>2, CoreWallet
  <2>4. /\ pot' \in [EscrowKeys -> [Slots -> Nat]]
        /\ \A f \in EscrowKeys \ {e} : pot'[f] = pot[f]
        /\ SumFunctionOnSet(pot[e], Slots) \in Nat
        /\ SumFunctionOnSet(pot'[e], Slots) = SumFunctionOnSet(pot[e], Slots) + a
    BY <1>0, <2>1, <2>2, PotAdd
  <2>5. ASSUME NEW f \in EscrowKeys PROVE EscrowAt(f)'
    <3>1. EscrowAt(f) /\ escrow'[f] = escrow[f]
      BY <2>1 DEF EscrowInv
    <3>2. CASE f = e
      <4>. SUFFICES ASSUME escrow[f] # NoEscrow
                    PROVE  SumFunctionOnSet(pot'[f], Slots) >= escrow[f].amount
        BY <3>1 DEF EscrowAt
      <4>1. escrow[f].amount \in Nat /\ SumFunctionOnSet(pot[e], Slots) >= escrow[f].amount
        BY <3>1, <3>2 DEF EscrowAt, EscrowTokenRecord
      <4>. QED BY <2>2, <2>4, <3>2, <4>1
    <3>3. CASE f # e
      <4>1. pot'[f] = pot[f]
        BY <2>4, <3>3
      <4>. QED BY <3>1, <4>1 DEF EscrowAt
    <3>. QED BY <3>2, <3>3
  <2>6. DOMAIN escrow' = EscrowKeys
    BY <2>1 DEF EscrowInv
  <2>. QED BY <2>3, <2>4, <2>5, <2>6 DEF EscrowInv
<1>8. CASE UNCHANGED vars
  BY <1>4, <1>8 DEF vars, escrowVars
<1>. QED BY <1>1, <1>2, <1>3, <1>5, <1>6, <1>7, <1>8 DEF Next

(* The invariant holds in every reachable state. *)
LEMMA EscrowHolds == Spec => []EscrowInv
<1>1. Init => EscrowInv
  <2>. SUFFICES ASSUME Init PROVE EscrowInv
    OBVIOUS
  <2>1. CoreTypeOK
    BY InitType DEF Init
  <2>. QED BY <2>1 DEF Init, EscrowInv, EscrowAt
<1>. QED BY <1>1, EscrowStep, PTL DEF Spec

(***************************************************************************)
(* The types of the escrow's accounts, and of the vault ledger below it.   *)
(***************************************************************************)
THEOREM EscrowTypeCorrect == Spec => []TypeOK
<1>1. EscrowInv => TypeOK
  BY DEF EscrowInv, EscrowAt, TypeOK
<1>. QED BY <1>1, EscrowHolds, PTL

(***************************************************************************)
(* The tokens a claim or a cancel pays out are there as long as the escrow *)
(* is, whatever is donated, rotated, claimed next door or released in      *)
(* ario-core.                                                              *)
(***************************************************************************)
THEOREM EscrowsPaidHolds == Spec => []EscrowsPaid
<1>1. EscrowInv => EscrowsPaid
  BY DEF EscrowInv, EscrowAt, EscrowsPaid, LiveEscrows
<1>. QED BY <1>1, EscrowHolds, PTL

(***************************************************************************)
(* Two escrows that are alive never accept the same signed message: the    *)
(* message names the kind and the asset, its nonce names the depositor     *)
(* through every rotation, and the three are the escrow's address.         *)
(***************************************************************************)
THEOREM OneEscrowPerSignatureHolds == Spec => []OneEscrowPerSignature
<1>1. ASSUME EscrowInv PROVE OneEscrowPerSignature
  <2>. SUFFICES ASSUME NEW e \in LiveEscrows, NEW f \in LiveEscrows, NEW c \in Users,
                       MessageFor(f, c) = MessageFor(e, c)
                PROVE  e = f
    BY DEF OneEscrowPerSignature
  <2>1. e \in EscrowKeys /\ f \in EscrowKeys
    BY DEF LiveEscrows
  <2>2. escrow[e].nonce[3] = e[2] /\ escrow[f].nonce[3] = f[2]
    BY <1>1, <2>1 DEF EscrowInv, EscrowAt, LiveEscrows
  <2>3. e[1] = f[1] /\ e[3] = f[3] /\ escrow[e].nonce = escrow[f].nonce
    BY DEF MessageFor, ClaimMessage
  <2>4. e[2] = f[2]
    BY <2>2, <2>3
  <2>. QED BY <2>1, <2>3, <2>4, EscrowKey
<1>. QED BY <1>1, EscrowHolds, PTL

-----------------------------------------------------------------------------
(***************************************************************************)
(* Locks.                                                                  *)
(***************************************************************************)

(* How a locked deposit may end while the time left is one ario-core takes. *)
LockCarried(e) ==
  \/ /\ \E s \in Slots : CancelVaultDeposit(e, s)
     /\ vault' = vault
     /\ wallet' = [wallet EXCEPT ![e[2]] = @ + escrow[e].amount]
  \/ \E k \in Keys :
       /\ vault[k] = NoVault
       /\ vault'[k] = [amount |-> escrow[e].amount, end |-> escrow[e].vault_end,
                       controller |-> NoUser, revocable |-> FALSE]

(* settle_vault_claim re-locks for the time that is left. *)
LEMMA RelockCarries ==
  ASSUME EscrowInv, NEW e \in EscrowKeys, NEW s \in Slots, NEW t \in Slots, NEW c \in Users,
         NEW p \in Users, escrow[e] # NoEscrow, MustRelock(e), SettleVaultClaim(e, s, c, p, t)
  PROVE  LockCarried(e)
<1>. DEFINE k == <<c, nextId[c]>>
            v == [amount |-> escrow[e].amount, end |-> now + Remaining(e),
                  controller |-> NoUser, revocable |-> NoUser # NoUser]
<1>1. Relock(e, s, c, p, t)
  BY DEF SettleVaultClaim, PayOutAll
<1>2. nextId[c] \in Ids /\ vault[k] = NoVault
  BY <1>1 DEF Relock, CreateVaultAccounts, VaultedTransferAccounts
<1>3. vault' = [vault EXCEPT ![k] = v]
  BY <1>1 DEF Relock, OpenVault
<1>4. k \in Keys
  BY <1>2, KeyIn
<1>5. now + Remaining(e) = escrow[e].vault_end
  <2>1. now \in Nat /\ escrow[e].vault_end \in Int
    BY DEF EscrowInv, EscrowAt, EscrowTokenRecord, CoreTypeOK
  <2>. QED BY <2>1 DEF Remaining
<1>6. v = [amount |-> escrow[e].amount, end |-> escrow[e].vault_end,
           controller |-> NoUser, revocable |-> FALSE]
  BY <1>5
<1>7. vault'[k] = v
  BY <1>3, <1>4 DEF EscrowInv, CoreTypeOK
<1>. QED BY <1>2, <1>4, <1>6, <1>7 DEF LockCarried

(* Only a cancel or a locked claim closes a locked deposit. *)
LEMMA LockCarriedStep ==
  ASSUME EscrowInv, [Next]_vars, NEW e \in EscrowKeys, escrow[e] # NoEscrow, e[1] = "vault",
         MustRelock(e), escrow'[e] = NoEscrow
  PROVE  LockCarried(e)
<1>0. CoreTypeOK /\ Amounts \subseteq Nat /\ Locks \subseteq Int /\ now \in Nat
  BY CoreAssumption DEF EscrowInv, CoreTypeOK
<1>1. ASSUME escrow' = escrow PROVE FALSE
  BY <1>1
<1>2. CASE CoreStep /\ UNCHANGED escrowVars
  BY <1>1, <1>2 DEF escrowVars
<1>3. CASE DepositorNext
  <2>1. ASSUME NEW d \in Users, NEW x \in AssetIds, NEW s \in Slots, NEW a \in Amounts,
               NEW r \in Recipients, DepositTokens(d, x, s, a, r)
        PROVE  FALSE
    <3>1. FundEscrow(<<"token", d, x>>, s, a, 0, r)
      BY <2>1 DEF DepositTokens
    <3>2. <<"token", d, x>> \in EscrowKeys /\ a \in Nat /\ 0 \in Int
      BY <1>0 DEF EscrowKeys
    <3>3. escrow'[e] # NoEscrow
      BY <3>1, <3>2, FundStep
    <3>. QED BY <3>3
  <2>2. ASSUME NEW d \in Users, NEW x \in AssetIds, NEW s \in Slots, NEW a \in Amounts,
               NEW l \in Locks, NEW b \in BOOLEAN, NEW r \in Recipients,
               DepositVault(d, x, s, a, l, b, r)
        PROVE  FALSE
    <3>1. FundEscrow(<<"vault", d, x>>, s, a, now + l, r)
      BY <2>2 DEF DepositVault
    <3>2. <<"vault", d, x>> \in EscrowKeys /\ a \in Nat /\ now + l \in Int
      BY <1>0 DEF EscrowKeys
    <3>3. escrow'[e] # NoEscrow
      BY <3>1, <3>2, FundStep
    <3>. QED BY <3>3
  <2>3. ASSUME NEW f \in EscrowKeys, NEW r \in Recipients,
               UpdateTokenRecipient(f, r) \/ UpdateVaultRecipient(f, r)
        PROVE  FALSE
    <3>1. escrow'[e] # NoEscrow
      BY <2>3, RotateStep DEF UpdateTokenRecipient, UpdateVaultRecipient
    <3>. QED BY <3>1
  <2>4. ASSUME NEW f \in EscrowKeys, NEW s \in Slots,
               CancelTokenDeposit(f, s) \/ CancelVaultDeposit(f, s)
        PROVE  LockCarried(e)
    <3>1. escrow[f] # NoEscrow /\ PayOutExactly(f, s, f[2])
      BY <2>4 DEF CancelTokenDeposit, CancelVaultDeposit, CancelTokenDepositAccounts,
           CancelVaultDepositAccounts
    <3>2. f = e
      BY <3>1, EscrowKey, PayOutStep
    <3>3. CancelVaultDeposit(e, s)
      BY <2>4, <3>2 DEF CancelTokenDeposit, CancelTokenDepositAccounts
    <3>. QED BY <3>1, <3>2, <3>3 DEF PayOutExactly, LockCarried
  <2>. QED BY <1>3, <2>1, <2>2, <2>3, <2>4 DEF DepositorNext
<1>4. CASE ClaimNext
  <2>1. ASSUME NEW f \in EscrowKeys, NEW s \in Slots, NEW c \in Users, NEW n,
               ClaimTokensEthereum(f, s, c, n) \/ ClaimTokensArweaveAttested(f, s, c, n)
        PROVE  FALSE
    <3>1. escrow[f] # NoEscrow /\ f[1] = "token" /\ PayOutExactly(f, s, c)
      BY <2>1 DEF ClaimTokensEthereum, ClaimTokensArweaveAttested, ClaimTokensAccounts,
           ClaimTokensAttestedAccounts
    <3>2. f = e
      BY <3>1, PayOutStep
    <3>. QED BY <3>1, <3>2
  <2>2. ASSUME NEW f \in EscrowKeys, NEW s \in Slots, NEW t \in Slots, NEW c \in Users,
               NEW p \in Users, NEW n,
               ClaimVaultEthereum(f, s, c, p, t, n) \/ ClaimVaultArweaveAttested(f, s, c, p, t, n)
        PROVE  LockCarried(e)
    <3>1. escrow[f] # NoEscrow /\ SettleVaultClaim(f, s, c, p, t)
      BY <2>2 DEF ClaimVaultEthereum, ClaimVaultArweaveAttested, ClaimVaultAccounts,
           ClaimVaultAttestedAccounts
    <3>2. f = e
      BY <3>1, SettleStep
    <3>. QED BY <3>1, <3>2, RelockCarries
  <2>. QED BY <1>4, <2>1, <2>2 DEF ClaimNext
<1>5. CASE \/ \E f \in EscrowKeys, c \in Users : Sign(f, c)
           \/ \E m \in signatures : Attest(m)
           \/ \E u \in Users, f \in EscrowKeys, s \in Slots, a \in Amounts : DonateToEscrow(u, f, s, a)
           \/ UNCHANGED vars
  BY <1>1, <1>5 DEF Sign, Attest, DonateToEscrow, vars, escrowVars
<1>. QED BY <1>2, <1>3, <1>4, <1>5 DEF Next

(***************************************************************************)
(* A locked deposit leaves the escrow to its depositor or into a vault     *)
(* that unlocks when the deposit would have, as long as ario-core can lock *)
(* for the time that is left.                                              *)
(***************************************************************************)
THEOREM EscrowLocksKeptHolds == Spec => EscrowLocksKept
<1>. DEFINE Carried == \A e \in LiveEscrows :
              e[1] = "vault" /\ MustRelock(e) /\ escrow'[e] = NoEscrow => LockCarried(e)
<1>1. ASSUME EscrowInv, [Next]_vars PROVE Carried
  BY <1>1, LockCarriedStep DEF LiveEscrows
<1>. QED BY <1>1, EscrowHolds, PTL DEF Spec, EscrowLocksKept, LockCarried
=============================================================================
