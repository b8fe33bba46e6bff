-------------------------- MODULE CoreVaultsProofs --------------------------
(***************************************************************************)
(* Proofs about CoreVaults, for every set of wallets, vault ids and token  *)
(* accounts, every amount, duration and bound.                             *)
(***************************************************************************)
EXTENDS CoreVaults, SumTheorems

(* There are finitely many vault PDAs, so sums over them are defined. *)
LEMMA FiniteKeys == IsFiniteSet(Keys) /\ IsFiniteSet(Slots)
BY CoreAssumption, FS_Product DEF Keys

(* The vault PDA an owner's counter points at. *)
LEMMA KeyIn == ASSUME NEW r \in Users, NEW i \in Ids PROVE <<r, i>> \in Keys
BY DEF Keys

(* A vault that exists is a Vault record. *)
LEMMA LiveVault ==
  ASSUME CoreTypeOK, NEW k \in Live
  PROVE  /\ k \in Keys /\ vault[k] # NoVault /\ vault[k] \in Vault
         /\ vault[k].amount \in Nat /\ vault[k].end \in Int
BY DEF Live, CoreTypeOK, Vault

(* initialize leaves accounts of their types. *)
LEMMA InitType == CoreInit => CoreTypeOK
<1>. SUFFICES ASSUME CoreInit PROVE CoreTypeOK
  OBVIOUS
<1>1. Cardinality(Users) \in Nat
  BY CoreAssumption, FS_CardinalityType
<1>2. InitialTreasury + InitialWallet * Cardinality(Users) \in Nat
  BY <1>1, CoreAssumption
<1>3. supply \in Supply
  <2>. DEFINE n == InitialTreasury + InitialWallet * Cardinality(Users)
  <2>1. supply = [total |-> n, circulating |-> n, locked |-> 0, protocol |-> 0]
    BY DEF CoreInit
  <2>. HIDE DEF n
  <2>2. n \in Nat
    BY <1>2 DEF n
  <2>. QED BY <2>1, <2>2 DEF Supply
<1>4. config \in Config
  BY CoreAssumption DEF CoreInit, Config
<1>. QED BY <1>3, <1>4, CoreAssumption DEF CoreInit, CoreTypeOK

(* Moving an amount between the two counters, without underflow. *)
LEMMA LockMoves ==
  ASSUME supply \in Supply, NEW a \in Int, LockSupply(a),
         supply.circulating >= a, supply.locked + a >= 0
  PROVE  /\ supply' \in Supply
         /\ supply'.locked = supply.locked + a /\ supply'.circulating = supply.circulating - a
         /\ supply'.total = supply.total /\ supply'.protocol = supply.protocol
<1>. DEFINE x == supply.locked + a
            y == supply.circulating - a
<1>1. x \in Nat /\ y \in Nat
  BY DEF Supply
<1>2. supply' = [supply EXCEPT !.locked = x, !.circulating = y]
  BY DEF LockSupply
<1>3. supply' \in Supply
  <2>. HIDE DEF x, y
  <2>. QED BY <1>1, <1>2 DEF Supply
<1>4. /\ supply'.locked = x /\ supply'.circulating = y
      /\ supply'.total = supply.total /\ supply'.protocol = supply.protocol
  <2>. HIDE DEF x, y
  <2>. QED BY <1>1, <1>2 DEF Supply
<1>. QED BY <1>3, <1>4

(* A new vault (create_vault, vaulted_transfer, the relock of an escrow). *)
LEMMA OpenType ==
  ASSUME CoreTypeOK, NEW r \in Users, NEW s \in Slots, NEW amount \in Nat, NEW lock \in Int,
         NEW c \in Users \cup {NoUser}, nextId[r] \in Ids,
         OpenVault(r, s, amount, lock, c), wallet' \in [Users -> Nat]
  PROVE  CoreTypeOK'
<1>. DEFINE k == <<r, nextId[r]>>
            v == [amount |-> amount, end |-> now + lock, controller |-> c, revocable |-> c # NoUser]
<1>1. k \in Keys
  BY KeyIn
<1>2. v \in Vault
  BY DEF CoreTypeOK, Vault
<1>3. vault' = [vault EXCEPT ![k] = v]
  BY DEF OpenVault
<1>4. vault' \in [Keys -> Vault \cup {NoVault}]
  <2>. HIDE DEF k, v
  <2>. QED BY <1>1, <1>2, <1>3 DEF CoreTypeOK
<1>5. custody' \in [Keys -> [Slots -> Nat]]
  <2>1. custody' = [custody EXCEPT ![k][s] = @ + amount]
    BY DEF OpenVault
  <2>. HIDE DEF k
  <2>. QED BY <1>1, <2>1 DEF CoreTypeOK
<1>6. supply' \in Supply
  <2>1. supply \in Supply /\ supply.circulating >= amount /\ LockSupply(amount)
    BY DEF OpenVault, CanLock, CoreTypeOK
  <2>2. supply.locked + amount >= 0
    BY <2>1 DEF Supply
  <2>. QED BY <2>1, <2>2, LockMoves
<1>7. nextId' \in [Users -> Nat]
  BY DEF OpenVault, CoreTypeOK
<1>8. UNCHANGED <<now, config, treasury, imported, audited>>
  BY DEF OpenVault
<1>. QED BY <1>4, <1>5, <1>6, <1>7, <1>8 DEF CoreTypeOK

(* revoke_vault and release_vault close a vault. *)
LEMMA CloseType ==
  ASSUME CoreTypeOK, NEW k \in Live, NEW s \in Slots, NEW u \in Users, CloseVault(k, s, u)
  PROVE  CoreTypeOK'
<1>0. k \in Keys /\ vault[k].amount \in Nat
  BY LiveVault
<1>1. vault' \in [Keys -> Vault \cup {NoVault}]
  BY <1>0 DEF CloseVault, CoreTypeOK
<1>2. custody' \in [Keys -> [Slots -> Nat]] /\ wallet' \in [Users -> Nat]
  BY <1>0 DEF CloseVault, CoreTypeOK
<1>3. supply' \in Supply
  <2>1. supply \in Supply /\ supply.locked >= vault[k].amount /\ LockSupply(-vault[k].amount)
    BY DEF CloseVault, CanUnlock, CoreTypeOK
  <2>2. /\ supply.locked + (-vault[k].amount) >= 0 /\ -vault[k].amount \in Int
        /\ supply.circulating >= -vault[k].amount
    BY <1>0, <2>1 DEF Supply
  <2>. QED BY <2>1, <2>2, LockMoves
<1>4. UNCHANGED <<now, config, nextId, treasury, imported, audited>>
  BY DEF CloseVault
<1>. QED BY <1>1, <1>2, <1>3, <1>4 DEF CoreTypeOK

(* The next-state relation, action by action: what every step proof splits on. *)
LEMMA StepCases ==
  ASSUME [CoreNext]_coreVars
  PROVE  \/ UNCHANGED coreVars
         \/ \E o \in Users, s \in Slots, a \in Amounts, l \in Locks : CreateVault(o, s, a, l)
         \/ \E p, r \in Users, s \in Slots, a \in Amounts, l \in Locks, b \in BOOLEAN :
              VaultedTransfer(p, r, s, a, l, b)
         \/ \E k \in Live, s \in Slots, c \in Users : RevokeVault(k, s, c)
         \/ \E k \in Live, l \in Locks : ExtendVault(k, l)
         \/ \E k \in Live, s \in Slots, a \in Amounts : IncreaseVault(k, s, a)
         \/ \E k \in Live, s \in Slots : ReleaseVault(k, s)
         \/ \E u, w \in Users, a \in Amounts : TransferTokens(u, w, a)
         \/ \E u \in Users, k \in Keys, s \in Slots, a \in Amounts : Donate(u, k, s, a)
         \/ AdminNext
         \/ MigrationNext
         \/ Tick
<1>1. \A k \in Keys, s \in Slots, c \in Users : RevokeVault(k, s, c) => k \in Live
  BY DEF RevokeVault, RevokeVaultAccounts
<1>2. \A k \in Keys, l \in Locks : ExtendVault(k, l) => k \in Live
  BY DEF ExtendVault, ExtendVaultAccounts
<1>3. \A k \in Keys, s \in Slots, a \in Amounts : IncreaseVault(k, s, a) => k \in Live
  BY DEF IncreaseVault, IncreaseVaultAccounts
<1>4. \A k \in Keys, s \in Slots : ReleaseVault(k, s) => k \in Live
  BY DEF ReleaseVault, ReleaseVaultAccounts
<1>. QED BY <1>1, <1>2, <1>3, <1>4, Zenon DEF CoreNext, VaultNext

(* The administrator changes the configuration or the treasury, and nothing else. *)
LEMMA AdminStep ==
  ASSUME CoreTypeOK, AdminNext
  PROVE  /\ UNCHANGED <<now, supply, vault, nextId, custody, wallet, imported, audited>>
         /\ config' \in Config /\ treasury' \in Nat
<1>1. ASSUME NEW a \in Amounts, ReleaseTreasury(a)
      PROVE  /\ UNCHANGED <<now, supply, vault, nextId, custody, wallet, imported, audited>>
             /\ config' \in Config /\ treasury' \in Nat
  BY <1>1, CoreAssumption DEF ReleaseTreasury, CoreTypeOK
<1>2. ASSUME NEW u \in Users, NEW b \in DurationBounds, UpdateConfig(u, b)
      PROVE  /\ UNCHANGED <<now, supply, vault, nextId, custody, wallet, imported, audited>>
             /\ config' \in Config /\ treasury' \in Nat
  <2>1. b[1] \in Int /\ b[2] \in Int
    BY CoreAssumption
  <2>. DEFINE x == b[1]
              y == b[2]
  <2>2. config' = [config EXCEPT !.min = x, !.max = y] /\ x \in Int /\ y \in Int
    BY <1>2, <2>1 DEF UpdateConfig
  <2>3. config' \in Config
    <3>. HIDE DEF x, y
    <3>. QED BY <2>2 DEF CoreTypeOK, Config
  <2>. QED BY <1>2, <2>3 DEF UpdateConfig, CoreTypeOK
<1>3. ASSUME NEW u \in Users, NEW w \in Users, TransferAuthority(u, w)
      PROVE  /\ UNCHANGED <<now, supply, vault, nextId, custody, wallet, imported, audited>>
             /\ config' \in Config /\ treasury' \in Nat
  BY <1>3 DEF TransferAuthority, CoreTypeOK, Config
<1>4. ASSUME NEW u \in Users, NEW b \in BOOLEAN, AdminRepairConfig(u, b)
      PROVE  /\ UNCHANGED <<now, supply, vault, nextId, custody, wallet, imported, audited>>
             /\ config' \in Config /\ treasury' \in Nat
  BY <1>4 DEF AdminRepairConfig, CoreTypeOK, Config
<1>5. ASSUME NEW u \in Users, NEW b \in BOOLEAN, AdminSetGarProgram(u, b)
      PROVE  /\ UNCHANGED <<now, supply, vault, nextId, custody, wallet, imported, audited>>
             /\ config' \in Config /\ treasury' \in Nat
  BY <1>5 DEF AdminSetGarProgram, CoreTypeOK, Config
<1>. QED BY <1>1, <1>2, <1>3, <1>4, <1>5, Zenon DEF AdminNext

(* What the migration writes has the types of the accounts it overwrites. *)
LEMMA MigrationType ==
  ASSUME CoreTypeOK, MigrationNext
  PROVE  CoreTypeOK'
<1>0. BooksTrue' \in BOOLEAN
  BY DEF BooksTrue
<1>1. ASSUME NEW k \in Keys, NEW v \in ImportedVaults, ImportVault(k, v) PROVE CoreTypeOK'
  <2>1. v \in Vault
    BY CoreAssumption
  <2>2. vault' \in [Keys -> Vault \cup {NoVault}]
    BY <1>1, <2>1 DEF ImportVault, CoreTypeOK
  <2>3. UNCHANGED <<now, config, supply, nextId, custody, wallet, treasury, imported>>
    BY <1>1 DEF ImportVault
  <2>4. audited' \in BOOLEAN
    BY <1>0, <1>1 DEF ImportVault
  <2>. QED BY <2>2, <2>3, <2>4 DEF CoreTypeOK
<1>2. ASSUME NEW u \in Users, NEW n \in ImportedIds, ImportVaultCounter(u, n) PROVE CoreTypeOK'
  <2>1. n \in Nat
    BY CoreAssumption
  <2>2. nextId' \in [Users -> Nat]
    BY <1>2, <2>1 DEF ImportVaultCounter, CoreTypeOK
  <2>3. UNCHANGED <<now, config, supply, vault, custody, wallet, treasury, imported>>
    BY <1>2 DEF ImportVaultCounter
  <2>4. audited' \in BOOLEAN
    BY <1>0, <1>2 DEF ImportVaultCounter
  <2>. QED BY <2>2, <2>3, <2>4 DEF CoreTypeOK
<1>3. ASSUME NEW u \in Users, NEW a \in Amounts, ImportBalance(u, a) PROVE CoreTypeOK'
  <2>. DEFINE paid == IF u = MigrationAuthority THEN 0 ELSE a
  <2>1. paid \in Nat
    BY CoreAssumption
  <2>2. /\ treasury >= paid /\ treasury' = treasury - paid
        /\ wallet' = [wallet EXCEPT ![u] = @ + paid] /\ imported' = imported \cup {u}
        /\ UNCHANGED <<now, config, supply, vault, nextId, custody, audited>>
    BY <1>3 DEF ImportBalance
  <2>. HIDE DEF paid
  <2>3. treasury' \in Nat /\ wallet' \in [Users -> Nat]
    BY <2>1, <2>2 DEF CoreTypeOK
  <2>. QED BY <2>2, <2>3 DEF CoreTypeOK
<1>4. ASSUME NEW u \in Users, NEW t \in SupplySnapshots, FinalizeSupply(u, t[1], t[2], t[3])
      PROVE  CoreTypeOK'
  <2>. DEFINE p == t[1]
              c == t[2]
              l == t[3]
  <2>1. p \in Nat /\ c \in Nat /\ l \in Nat
    BY CoreAssumption
  <2>2. /\ supply' = [total |-> p + c + l, circulating |-> c, locked |-> l, protocol |-> p]
        /\ UNCHANGED <<now, config, vault, nextId, custody, wallet, treasury, imported>>
        /\ audited' = BooksTrue'
    BY <1>4 DEF FinalizeSupply
  <2>. HIDE DEF p, c, l
  <2>3. supply' \in Supply
    BY <2>1, <2>2 DEF Supply
  <2>4. audited' \in BOOLEAN
    BY <1>0, <2>2
  <2>. QED BY <2>2, <2>3, <2>4 DEF CoreTypeOK
<1>5. ASSUME NEW u \in Users, FinalizeMigration(u) PROVE CoreTypeOK'
  BY <1>5 DEF FinalizeMigration, CoreTypeOK, Config
<1>. QED BY <1>1, <1>2, <1>3, <1>4, <1>5, Zenon DEF MigrationNext

(* Every step keeps the types. *)
LEMMA TypeStep ==
  ASSUME CoreTypeOK, [CoreNext]_coreVars
  PROVE  CoreTypeOK'
<1>0. Amounts \subseteq Nat /\ Locks \subseteq Int
  BY CoreAssumption
<1>1. ASSUME NEW o \in Users, NEW s \in Slots, NEW a \in Amounts, NEW l \in Locks,
             CreateVault(o, s, a, l)
      PROVE  CoreTypeOK'
  <2>1. wallet' \in [Users -> Nat]
    BY <1>0, <1>1 DEF CreateVault, CoreTypeOK
  <2>2. nextId[o] \in Ids /\ OpenVault(o, s, a, l, NoUser)
    BY <1>1 DEF CreateVault, CreateVaultAccounts
  <2>. QED BY <1>0, <2>1, <2>2, OpenType
<1>2. ASSUME NEW p \in Users, NEW r \in Users, NEW s \in Slots, NEW a \in Amounts,
             NEW l \in Locks, NEW b \in BOOLEAN, VaultedTransfer(p, r, s, a, l, b)
      PROVE  CoreTypeOK'
  <2>1. wallet' \in [Users -> Nat]
    BY <1>0, <1>2 DEF VaultedTransfer, CoreTypeOK
  <2>2. nextId[r] \in Ids /\ OpenVault(r, s, a, l, IF b THEN p ELSE NoUser)
    BY <1>2 DEF VaultedTransfer, VaultedTransferAccounts
  <2>. QED BY <1>0, <2>1, <2>2, OpenType
<1>3. ASSUME NEW k \in Live, NEW s \in Slots, NEW c \in Users, RevokeVault(k, s, c)
      PROVE  CoreTypeOK'
  BY <1>3, CloseType DEF RevokeVault
<1>4. ASSUME NEW k \in Live, NEW l \in Locks, ExtendVault(k, l) PROVE CoreTypeOK'
  <2>1. k \in Keys /\ vault[k] \in Vault /\ vault[k].end + l \in Int
    BY <1>0, LiveVault
  <2>2. [vault[k] EXCEPT !.end = vault[k].end + l] \in Vault
    BY <2>1 DEF Vault
  <2>3. vault' = [vault EXCEPT ![k] = [vault[k] EXCEPT !.end = vault[k].end + l]]
    BY <1>4 DEF ExtendVault
  <2>4. vault' \in [Keys -> Vault \cup {NoVault}]
    BY <2>1, <2>2, <2>3 DEF CoreTypeOK
  <2>. QED BY <1>4, <2>4 DEF ExtendVault, CoreTypeOK
<1>5. ASSUME NEW k \in Live, NEW s \in Slots, NEW a \in Amounts, IncreaseVault(k, s, a)
      PROVE  CoreTypeOK'
  <2>1. k \in Keys /\ vault[k] \in Vault /\ vault[k].amount + a \in Nat /\ a \in Nat
    BY <1>0, LiveVault
  <2>2. [vault[k] EXCEPT !.amount = vault[k].amount + a] \in Vault
    BY <2>1 DEF Vault
  <2>3. vault' = [vault EXCEPT ![k] = [vault[k] EXCEPT !.amount = vault[k].amount + a]]
    BY <1>5 DEF IncreaseVault
  <2>4. vault' \in [Keys -> Vault \cup {NoVault}]
    BY <2>1, <2>2, <2>3 DEF CoreTypeOK
  <2>5. custody' \in [Keys -> [Slots -> Nat]]
    BY <1>5, <2>1 DEF IncreaseVault, CoreTypeOK
  <2>6. wallet' \in [Users -> Nat]
    <3>1. k[1] \in Users
      BY <2>1 DEF Keys
    <3>. QED BY <1>5, <2>1, <3>1 DEF IncreaseVault, CoreTypeOK
  <2>7. supply' \in Supply
    <3>1. supply \in Supply /\ supply.circulating >= a /\ LockSupply(a)
      BY <1>5 DEF IncreaseVault, CanLock, CoreTypeOK
    <3>2. supply.locked + a >= 0
      BY <3>1, <2>1 DEF Supply
    <3>. QED BY <3>1, <3>2, <2>1, LockMoves
  <2>. QED BY <1>5, <2>4, <2>5, <2>6, <2>7 DEF IncreaseVault, CoreTypeOK
<1>6. ASSUME NEW k \in Live, NEW s \in Slots, ReleaseVault(k, s) PROVE CoreTypeOK'
  <2>1. k[1] \in Users
    BY LiveVault DEF Keys
  <2>. QED BY <1>6, <2>1, CloseType DEF ReleaseVault
<1>7. ASSUME NEW u \in Users, NEW w \in Users, NEW a \in Amounts, TransferTokens(u, w, a)
      PROVE  CoreTypeOK'
  <2>1. wallet' \in [Users -> Nat]
    BY <1>0, <1>7 DEF TransferTokens, TransferTokensAccounts, CoreTypeOK
  <2>. QED BY <1>7, <2>1 DEF TransferTokens, CoreTypeOK
<1>8. ASSUME NEW u \in Users, NEW k \in Keys, NEW s \in Slots, NEW a \in Amounts, Donate(u, k, s, a)
      PROVE  CoreTypeOK'
  <2>1. wallet' \in [Users -> Nat] /\ custody' \in [Keys -> [Slots -> Nat]]
    BY <1>0, <1>8 DEF Donate, CoreTypeOK
  <2>. QED BY <1>8, <2>1 DEF Donate, CoreTypeOK
<1>9. ASSUME AdminNext PROVE CoreTypeOK'
  BY <1>9, AdminStep DEF CoreTypeOK
<1>10. ASSUME MigrationNext PROVE CoreTypeOK'
  BY <1>10, MigrationType
<1>11. ASSUME Tick PROVE CoreTypeOK'
  BY <1>11 DEF Tick, CoreTypeOK
<1>12. ASSUME UNCHANGED coreVars PROVE CoreTypeOK'
  BY <1>12 DEF coreVars, CoreTypeOK
<1>. QED BY <1>1, <1>2, <1>3, <1>4, <1>5, <1>6, <1>7, <1>8, <1>9, <1>10, <1>11, <1>12, StepCases, Zenon

(* Every account of ario-core keeps its type and no counter underflows, whatever *)
(* the migration imports, for any wallets, ids, amounts and bounds.              *)
THEOREM TypeCorrect == CoreSpec => []CoreTypeOK
<1>1. CoreTypeOK /\ [CoreNext]_coreVars => CoreTypeOK'
  BY TypeStep
<1>. QED BY <1>1, InitType, PTL DEF CoreSpec

(* The amounts the vaults have locked are natural numbers. *)
LEMMA AmountNat == ASSUME CoreTypeOK PROVE \A k \in Keys : AmountOf[k] \in Nat
BY DEF CoreTypeOK, AmountOf, Vault

(* Tokens of a vault are natural numbers, and paying in or sweeping one of *)
(* its token accounts moves their sum by as much.                          *)
LEMMA HeldNat == ASSUME CoreTypeOK, NEW k \in Keys PROVE Held(k) \in Nat
<1>1. \A s \in Slots : custody[k][s] \in Nat
  BY DEF CoreTypeOK
<1>. QED BY <1>1, FiniteKeys, SumNat DEF Held

LEMMA HeldAdd ==
  ASSUME CoreTypeOK, CoreTypeOK', NEW k \in Keys, NEW s \in Slots, NEW a \in Nat,
         custody' = [custody EXCEPT ![k][s] = @ + a]
  PROVE  Held(k)' = Held(k) + a
<1>. DEFINE f == custody[k]
            g == custody'[k]
<1>1. \A x \in Slots : f[x] \in Int /\ g[x] \in Int
  BY DEF CoreTypeOK
<1>2. g[s] = f[s] + a /\ \A x \in Slots \ {s} : g[x] = f[x]
  BY DEF CoreTypeOK
<1>3. SumFunctionOnSet(f, Slots) \in Nat
  BY HeldNat DEF Held
<1>4. SumFunctionOnSet(g, Slots) = SumFunctionOnSet(f, Slots) + a
  <2>. HIDE DEF f, g
  <2>1. SumFunctionOnSet(g, Slots) = SumFunctionOnSet(f, Slots) - f[s] + g[s]
    BY <1>1, <1>2, FiniteKeys, SumUpdate
  <2>. QED BY <2>1, <1>1, <1>2, <1>3
<1>. QED BY <1>4 DEF Held

(* A step on one vault keeps the books when the counter moves with the vault, *)
(* the vault stays paid for and its id stays below the owner's counter.       *)
LEMMA BooksMove ==
  ASSUME CoreTypeOK, CoreTypeOK', BooksTrue, NEW k \in Keys,
         \A j \in Keys \ {k} : vault'[j] = vault[j] /\ custody'[j] = custody[j],
         supply'.locked = supply.locked - AmountOf[k] + (AmountOf')[k],
         vault'[k] # NoVault => Held(k)' >= vault'[k].amount /\ k[2] < nextId'[k[1]],
         \A u \in Users : nextId'[u] >= nextId[u]
  PROVE  BooksTrue'
<1>1. LockedCounted'
  <2>. DEFINE f == AmountOf
              g == AmountOf'
  <2>1. \A x \in Keys : f[x] \in Int /\ g[x] \in Int
    <3>1. \A x \in Keys : (AmountOf')[x] \in Nat
      BY DEF CoreTypeOK, AmountOf, Vault
    <3>. QED BY <3>1, AmountNat
  <2>2. \A x \in Keys \ {k} : g[x] = f[x]
    BY DEF AmountOf
  <2>3. SumFunctionOnSet(g, Keys) = SumFunctionOnSet(f, Keys) - f[k] + g[k]
    <3>. HIDE DEF f, g
    <3>. QED BY <2>1, <2>2, FiniteKeys, SumUpdate
  <2>4. supply.locked = SumFunctionOnSet(f, Keys)
    BY DEF BooksTrue, LockedCounted
  <2>5. supply'.locked = SumFunctionOnSet(g, Keys)
    BY <2>3, <2>4
  <2>. QED BY <2>5 DEF LockedCounted
<1>2. VaultsPaid'
  <2>. SUFFICES ASSUME NEW j \in Keys, vault'[j] # NoVault
                PROVE  Held(j)' >= vault'[j].amount
    BY DEF VaultsPaid, Live
  <2>1. CASE j # k
    <3>1. vault[j] # NoVault /\ Held(j) >= vault[j].amount
      BY <2>1 DEF BooksTrue, VaultsPaid, Live
    <3>2. Held(j)' = Held(j)
      BY <2>1 DEF Held
    <3>. QED BY <2>1, <3>1, <3>2
  <2>. QED BY <2>1
<1>3. NextIdFree'
  <2>. SUFFICES ASSUME NEW j \in Keys, vault'[j] # NoVault
                PROVE  j[2] < nextId'[j[1]]
    BY DEF NextIdFree, Live
  <2>1. CASE j # k
    <3>1. j[2] < nextId[j[1]]
      BY <2>1 DEF BooksTrue, NextIdFree, Live
    <3>2. j[1] \in Users /\ j[2] \in Nat
      BY CoreAssumption DEF Keys
    <3>3. nextId[j[1]] \in Nat /\ nextId'[j[1]] \in Nat /\ nextId'[j[1]] >= nextId[j[1]]
      BY <3>2 DEF CoreTypeOK
    <3>. QED BY <3>1, <3>2, <3>3
  <2>. QED BY <2>1
<1>. QED BY <1>1, <1>2, <1>3 DEF BooksTrue

Balanced == supply.circulating + supply.locked + supply.protocol = supply.total

(* A counter update that moves an amount keeps the four counters balanced. *)
LEMMA MoveBalanced ==
  ASSUME supply \in Supply, supply' \in Supply, NEW a \in Int, Balanced,
         supply'.locked = supply.locked + a, supply'.circulating = supply.circulating - a,
         supply'.total = supply.total, supply'.protocol = supply.protocol
  PROVE  Balanced'
BY DEF Balanced, Supply

(* A new vault: the counter grows by its amount, its token account is paid, *)
(* and the owner's counter moves past its id.                               *)
LEMMA OpenBooks ==
  ASSUME CoreTypeOK, CoreTypeOK', SupplyAccounted,
         NEW r \in Users, NEW s \in Slots, NEW amount \in Nat, NEW lock \in Int,
         NEW c \in Users \cup {NoUser}, nextId[r] \in Ids, vault[<<r, nextId[r]>>] = NoVault,
         OpenVault(r, s, amount, lock, c)
  PROVE  SupplyAccounted'
<1>0. PICK k \in Keys : k = <<r, nextId[r]>>
  BY KeyIn
<1>. DEFINE v == [amount |-> amount, end |-> now + lock, controller |-> c, revocable |-> c # NoUser]
<1>1. k \in Keys /\ k[1] = r /\ k[2] = nextId[r]
  BY <1>0
<1>2. /\ vault' = [vault EXCEPT ![k] = v] /\ custody' = [custody EXCEPT ![k][s] = @ + amount]
      /\ nextId' = [nextId EXCEPT ![r] = @ + 1] /\ audited' = audited /\ vault[k] = NoVault
  BY <1>0 DEF OpenVault
<1>3. v.amount = amount /\ v \in Vault
  BY DEF CoreTypeOK, Vault
<1>4. /\ supply'.locked = supply.locked + amount /\ supply'.circulating = supply.circulating - amount
      /\ supply'.total = supply.total /\ supply'.protocol = supply.protocol
  <2>1. supply \in Supply /\ supply.circulating >= amount /\ LockSupply(amount)
    BY DEF OpenVault, CanLock, CoreTypeOK
  <2>2. supply.locked + amount >= 0
    BY <2>1 DEF Supply
  <2>. QED BY <2>1, <2>2, LockMoves
<1>5. Balanced'
  BY <1>4, MoveBalanced DEF SupplyAccounted, Balanced, CoreTypeOK
<1>. HIDE DEF v
<1>6. ASSUME audited PROVE BooksTrue'
  <2>1. vault'[k] = v /\ v # NoVault
    BY <1>1, <1>2, <1>3, CoreAssumption DEF CoreTypeOK
  <2>2. \A j \in Keys \ {k} : vault'[j] = vault[j] /\ custody'[j] = custody[j]
    BY <1>1, <1>2 DEF CoreTypeOK
  <2>3. supply'.locked = supply.locked - AmountOf[k] + (AmountOf')[k]
    <3>1. AmountOf[k] = 0 /\ (AmountOf')[k] = amount
      BY <1>1, <1>2, <1>3, <2>1 DEF AmountOf
    <3>2. supply.locked \in Nat
      BY DEF CoreTypeOK, Supply
    <3>. QED BY <3>1, <3>2, <1>4
  <2>4. Held(k)' >= vault'[k].amount
    <3>1. Held(k)' = Held(k) + amount
      BY <1>1, <1>2, HeldAdd
    <3>2. Held(k) \in Nat
      BY <1>1, HeldNat
    <3>. QED BY <3>1, <3>2, <2>1, <1>3
  <2>5. k[2] < nextId'[k[1]] /\ \A u \in Users : nextId'[u] >= nextId[u]
    BY <1>1, <1>2 DEF CoreTypeOK
  <2>6. BooksTrue
    BY <1>6 DEF SupplyAccounted
  <2>. QED BY <1>1, <2>2, <2>3, <2>4, <2>5, <2>6, BooksMove
<1>. QED BY <1>2, <1>5, <1>6 DEF SupplyAccounted, Balanced

(* A closed vault: the counter shrinks by what the vault had locked, whatever *)
(* was swept from its token account.                                          *)
LEMMA CloseBooks ==
  ASSUME CoreTypeOK, CoreTypeOK', SupplyAccounted, NEW k \in Live, NEW s \in Slots,
         NEW u \in Users, CloseVault(k, s, u)
  PROVE  SupplyAccounted'
<1>. DEFINE a == vault[k].amount
            m == -a
<1>1. k \in Keys /\ a \in Nat /\ vault[k] # NoVault
  BY LiveVault
<1>2. /\ vault' = [vault EXCEPT ![k] = NoVault] /\ custody' = [custody EXCEPT ![k][s] = 0]
      /\ nextId' = nextId /\ audited' = audited
  BY DEF CloseVault
<1>3. /\ supply'.locked = supply.locked + m /\ supply'.circulating = supply.circulating - m
      /\ supply'.total = supply.total /\ supply'.protocol = supply.protocol
  <2>1. supply \in Supply /\ supply.locked >= a /\ LockSupply(m)
    BY DEF CloseVault, CanUnlock, CoreTypeOK
  <2>2. m \in Int /\ supply.locked + m >= 0 /\ supply.circulating >= m
    BY <1>1, <2>1 DEF Supply
  <2>. HIDE DEF m
  <2>. QED BY <2>1, <2>2, LockMoves
<1>4. m \in Int /\ m = -a
  BY <1>1
<1>5. Balanced'
  <2>. HIDE DEF m
  <2>. QED BY <1>3, <1>4, MoveBalanced DEF SupplyAccounted, Balanced, CoreTypeOK
<1>6. ASSUME audited PROVE BooksTrue'
  <2>1. vault'[k] = NoVault
    BY <1>1, <1>2 DEF CoreTypeOK
  <2>2. \A j \in Keys \ {k} : vault'[j] = vault[j] /\ custody'[j] = custody[j]
    BY <1>1, <1>2 DEF CoreTypeOK
  <2>3. supply'.locked = supply.locked - AmountOf[k] + (AmountOf')[k]
    <3>1. AmountOf[k] = a /\ (AmountOf')[k] = 0
      BY <1>1, <1>2, <2>1 DEF AmountOf
    <3>2. supply.locked \in Nat
      BY DEF CoreTypeOK, Supply
    <3>. QED BY <3>1, <3>2, <1>1, <1>3
  <2>4. \A w \in Users : nextId'[w] >= nextId[w]
    BY <1>2 DEF CoreTypeOK
  <2>5. BooksTrue
    BY <1>6 DEF SupplyAccounted
  <2>. QED BY <1>1, <2>1, <2>2, <2>3, <2>4, <2>5, BooksMove
<1>. QED BY <1>2, <1>5, <1>6 DEF SupplyAccounted, Balanced

(* A step that touches neither vaults nor counters keeps the books. *)
LEMMA BooksKept ==
  ASSUME SupplyAccounted, UNCHANGED <<supply, vault, nextId, custody, audited>>
  PROVE  SupplyAccounted'
BY DEF SupplyAccounted, BooksTrue, LockedCounted, VaultsPaid, NextIdFree, Live, AmountOf, Held

(* extend_vault and increase_vault rewrite one live vault. *)
LEMMA ExtendBooks ==
  ASSUME CoreTypeOK, CoreTypeOK', SupplyAccounted, NEW k \in Live, NEW l \in Int, ExtendVault(k, l)
  PROVE  SupplyAccounted'
<1>1. k \in Keys /\ vault[k].amount \in Nat /\ vault[k] # NoVault /\ vault[k] \in Vault
  BY LiveVault
<1>2. /\ vault' = [vault EXCEPT ![k] = [vault[k] EXCEPT !.end = vault[k].end + l]]
      /\ UNCHANGED <<supply, nextId, custody, audited>>
  BY DEF ExtendVault
<1>3. vault'[k] = [vault[k] EXCEPT !.end = vault[k].end + l]
  BY <1>1, <1>2 DEF CoreTypeOK
<1>4. vault'[k].amount = vault[k].amount /\ vault'[k] # NoVault
  <2>1. vault'[k].amount = vault[k].amount
    BY <1>1, <1>3 DEF Vault
  <2>2. vault'[k] \in Vault
    BY <1>1, <1>3, LiveVault DEF Vault
  <2>. QED BY <2>1, <2>2, CoreAssumption
<1>5. ASSUME audited PROVE BooksTrue'
  <2>1. BooksTrue
    BY <1>5 DEF SupplyAccounted
  <2>2. \A j \in Keys \ {k} : vault'[j] = vault[j] /\ custody'[j] = custody[j]
    BY <1>1, <1>2 DEF CoreTypeOK
  <2>3. supply'.locked = supply.locked - AmountOf[k] + (AmountOf')[k]
    <3>1. AmountOf[k] = vault[k].amount /\ (AmountOf')[k] = vault[k].amount
      BY <1>1, <1>4 DEF AmountOf
    <3>2. supply.locked \in Nat
      BY DEF CoreTypeOK, Supply
    <3>. QED BY <3>1, <3>2, <1>1, <1>2
  <2>4. Held(k)' >= vault'[k].amount /\ k[2] < nextId'[k[1]]
    <3>1. Held(k)' = Held(k)
      BY <1>2 DEF Held
    <3>. QED BY <3>1, <1>2, <1>4, <2>1 DEF BooksTrue, VaultsPaid, NextIdFree
  <2>5. \A w \in Users : nextId'[w] >= nextId[w]
    BY <1>2 DEF CoreTypeOK
  <2>. QED BY <1>1, <2>1, <2>2, <2>3, <2>4, <2>5, BooksMove
<1>. QED BY <1>2, <1>5 DEF SupplyAccounted

LEMMA IncreaseBooks ==
  ASSUME CoreTypeOK, CoreTypeOK', SupplyAccounted, NEW k \in Live, NEW s \in Slots,
         NEW a \in Nat, IncreaseVault(k, s, a)
  PROVE  SupplyAccounted'
<1>1. k \in Keys /\ vault[k].amount \in Nat /\ vault[k] # NoVault /\ vault[k] \in Vault
  BY LiveVault
<1>2. /\ vault' = [vault EXCEPT ![k] = [vault[k] EXCEPT !.amount = vault[k].amount + a]]
      /\ custody' = [custody EXCEPT ![k][s] = @ + a]
      /\ UNCHANGED <<nextId, audited>>
  BY DEF IncreaseVault
<1>3. vault'[k] = [vault[k] EXCEPT !.amount = vault[k].amount + a]
  BY <1>1, <1>2 DEF CoreTypeOK
<1>4. vault'[k].amount = vault[k].amount + a /\ vault'[k] # NoVault
  <2>1. vault'[k].amount = vault[k].amount + a
    BY <1>1, <1>3 DEF Vault
  <2>2. vault'[k] \in Vault
    BY <1>1, <1>3, LiveVault DEF Vault
  <2>. QED BY <2>1, <2>2, CoreAssumption
<1>5. /\ supply'.locked = supply.locked + a /\ supply'.circulating = supply.circulating - a
      /\ supply'.total = supply.total /\ supply'.protocol = supply.protocol
  <2>1. supply \in Supply /\ supply.circulating >= a /\ LockSupply(a)
    BY DEF IncreaseVault, CanLock, CoreTypeOK
  <2>2. supply.locked + a >= 0
    BY <2>1 DEF Supply
  <2>. QED BY <2>1, <2>2, LockMoves
<1>6. Balanced'
  BY <1>5, MoveBalanced DEF SupplyAccounted, Balanced, CoreTypeOK
<1>7. ASSUME audited PROVE BooksTrue'
  <2>1. BooksTrue
    BY <1>7 DEF SupplyAccounted
  <2>2. \A j \in Keys \ {k} : vault'[j] = vault[j] /\ custody'[j] = custody[j]
    BY <1>1, <1>2 DEF CoreTypeOK
  <2>3. supply'.locked = supply.locked - AmountOf[k] + (AmountOf')[k]
    <3>1. AmountOf[k] = vault[k].amount /\ (AmountOf')[k] = vault[k].amount + a
      BY <1>1, <1>4 DEF AmountOf
    <3>2. supply.locked \in Nat
      BY DEF CoreTypeOK, Supply
    <3>. QED BY <3>1, <3>2, <1>1, <1>5
  <2>4. Held(k)' >= vault'[k].amount /\ k[2] < nextId'[k[1]]
    <3>1. Held(k)' = Held(k) + a
      BY <1>1, <1>2, HeldAdd
    <3>2. Held(k) \in Nat /\ Held(k) >= vault[k].amount
      BY <1>1, <2>1, HeldNat DEF BooksTrue, VaultsPaid
    <3>3. Held(k)' >= vault'[k].amount
      BY <3>1, <3>2, <1>1, <1>4
    <3>. QED BY <3>3, <1>2, <2>1 DEF BooksTrue, NextIdFree
  <2>5. \A w \in Users : nextId'[w] >= nextId[w]
    BY <1>2 DEF CoreTypeOK
  <2>. QED BY <1>1, <2>1, <2>2, <2>3, <2>4, <2>5, BooksMove
<1>. QED BY <1>2, <1>6, <1>7 DEF SupplyAccounted, Balanced

(* Tokens sent to a vault PDA, open or not, only add to what it holds. *)
LEMMA DonateBooks ==
  ASSUME CoreTypeOK, CoreTypeOK', SupplyAccounted, NEW u \in Users, NEW k \in Keys,
         NEW s \in Slots, NEW a \in Nat, Donate(u, k, s, a)
  PROVE  SupplyAccounted'
<1>1. /\ custody' = [custody EXCEPT ![k][s] = @ + a]
      /\ UNCHANGED <<supply, vault, nextId, audited>>
  BY DEF Donate
<1>2. ASSUME audited PROVE BooksTrue'
  <2>1. BooksTrue
    BY <1>2 DEF SupplyAccounted
  <2>2. \A j \in Keys \ {k} : vault'[j] = vault[j] /\ custody'[j] = custody[j]
    BY <1>1 DEF CoreTypeOK
  <2>3. supply'.locked = supply.locked - AmountOf[k] + (AmountOf')[k]
    <3>1. AmountOf' = AmountOf
      BY <1>1 DEF AmountOf
    <3>2. supply.locked \in Nat /\ AmountOf[k] \in Nat
      BY AmountNat DEF CoreTypeOK, Supply
    <3>. QED BY <3>1, <3>2, <1>1
  <2>4. ASSUME vault'[k] # NoVault PROVE Held(k)' >= vault'[k].amount /\ k[2] < nextId'[k[1]]
    <3>1. Held(k)' = Held(k) + a
      BY <1>1, HeldAdd
    <3>2. k \in Live
      BY <1>1, <2>4 DEF Live
    <3>3. Held(k) \in Nat /\ Held(k) >= vault[k].amount /\ vault[k].amount \in Nat
      BY <2>1, <3>2, HeldNat, LiveVault DEF BooksTrue, VaultsPaid
    <3>. QED BY <1>1, <2>1, <3>1, <3>2, <3>3 DEF BooksTrue, NextIdFree
  <2>5. \A w \in Users : nextId'[w] >= nextId[w]
    BY <1>1 DEF CoreTypeOK
  <2>. QED BY <2>1, <2>2, <2>3, <2>4, <2>5, BooksMove
<1>. QED BY <1>1, <1>2 DEF SupplyAccounted

(* An import or finalize_supply leaves counters that balance, and records in *)
(* audited whether the books are true.                                       *)
LEMMA MigrationBooks ==
  ASSUME CoreTypeOK, SupplyAccounted, MigrationNext
  PROVE  SupplyAccounted'
<1>1. ASSUME NEW k \in Keys, NEW v \in ImportedVaults, ImportVault(k, v) PROVE SupplyAccounted'
  BY <1>1 DEF ImportVault, SupplyAccounted
<1>2. ASSUME NEW u \in Users, NEW n \in ImportedIds, ImportVaultCounter(u, n) PROVE SupplyAccounted'
  BY <1>2 DEF ImportVaultCounter, SupplyAccounted
<1>3. ASSUME NEW u \in Users, NEW a \in Amounts, ImportBalance(u, a) PROVE SupplyAccounted'
  BY <1>3, BooksKept DEF ImportBalance
<1>4. ASSUME NEW u \in Users, NEW t \in SupplySnapshots, FinalizeSupply(u, t[1], t[2], t[3])
      PROVE  SupplyAccounted'
  <2>. DEFINE p == t[1]
              c == t[2]
              l == t[3]
  <2>1. p \in Nat /\ c \in Nat /\ l \in Nat
    BY CoreAssumption
  <2>2. /\ supply' = [total |-> p + c + l, circulating |-> c, locked |-> l, protocol |-> p]
        /\ audited' = BooksTrue'
    BY <1>4 DEF FinalizeSupply
  <2>. HIDE DEF p, c, l
  <2>3. supply'.circulating + supply'.locked + supply'.protocol = supply'.total
    BY <2>1, <2>2
  <2>. QED BY <2>2, <2>3 DEF SupplyAccounted
<1>5. ASSUME NEW u \in Users, FinalizeMigration(u) PROVE SupplyAccounted'
  BY <1>5, BooksKept DEF FinalizeMigration
<1>. QED BY <1>1, <1>2, <1>3, <1>4, <1>5, Zenon DEF MigrationNext

(* At genesis nothing is locked and no vault exists. *)
LEMMA InitBooks == CoreInit => SupplyAccounted
<1>. SUFFICES ASSUME CoreInit PROVE SupplyAccounted
  OBVIOUS
<1>. DEFINE n == InitialTreasury + InitialWallet * Cardinality(Users)
<1>1. n \in Nat
  BY CoreAssumption, FS_CardinalityType
<1>2. supply = [total |-> n, circulating |-> n, locked |-> 0, protocol |-> 0]
  BY DEF CoreInit
<1>. HIDE DEF n
<1>3. supply.circulating + supply.locked + supply.protocol = supply.total /\ supply.locked = 0
  BY <1>1, <1>2
<1>4. Live = {} /\ \A k \in Keys : AmountOf[k] = 0
  BY DEF CoreInit, Live, AmountOf
<1>5. SumFunctionOnSet(AmountOf, Keys) = 0
  BY <1>4, FiniteKeys, SumZero
<1>. QED BY <1>3, <1>4, <1>5 DEF SupplyAccounted, BooksTrue, LockedCounted, VaultsPaid, NextIdFree

(* SupplyAccounted is inductive once the types are known. *)
LEMMA BooksStep ==
  ASSUME CoreTypeOK, SupplyAccounted, [CoreNext]_coreVars
  PROVE  SupplyAccounted'
<1>0. CoreTypeOK' /\ Amounts \subseteq Nat /\ Locks \subseteq Int
  BY TypeStep, CoreAssumption
<1>1. ASSUME NEW o \in Users, NEW s \in Slots, NEW a \in Amounts, NEW l \in Locks,
             CreateVault(o, s, a, l)
      PROVE  SupplyAccounted'
  <2>1. /\ nextId[o] \in Ids /\ vault[<<o, nextId[o]>>] = NoVault
        /\ OpenVault(o, s, a, l, NoUser)
    BY <1>1 DEF CreateVault, CreateVaultAccounts
  <2>. QED BY <1>0, <2>1, OpenBooks
<1>2. ASSUME NEW p \in Users, NEW r \in Users, NEW s \in Slots, NEW a \in Amounts,
             NEW l \in Locks, NEW b \in BOOLEAN, VaultedTransfer(p, r, s, a, l, b)
      PROVE  SupplyAccounted'
  <2>1. /\ nextId[r] \in Ids /\ vault[<<r, nextId[r]>>] = NoVault
        /\ OpenVault(r, s, a, l, IF b THEN p ELSE NoUser)
    BY <1>2 DEF VaultedTransfer, VaultedTransferAccounts
  <2>. QED BY <1>0, <2>1, OpenBooks
<1>3. ASSUME NEW k \in Live, NEW s \in Slots, NEW c \in Users, RevokeVault(k, s, c)
      PROVE  SupplyAccounted'
  BY <1>0, <1>3, CloseBooks DEF RevokeVault
<1>4. ASSUME NEW k \in Live, NEW l \in Locks, ExtendVault(k, l) PROVE SupplyAccounted'
  BY <1>0, <1>4, ExtendBooks
<1>5. ASSUME NEW k \in Live, NEW s \in Slots, NEW a \in Amounts, IncreaseVault(k, s, a)
      PROVE  SupplyAccounted'
  BY <1>0, <1>5, IncreaseBooks
<1>6. ASSUME NEW k \in Live, NEW s \in Slots, ReleaseVault(k, s) PROVE SupplyAccounted'
  <2>1. k[1] \in Users
    BY LiveVault DEF Keys
  <2>. QED BY <1>0, <1>6, <2>1, CloseBooks DEF ReleaseVault
<1>7. ASSUME NEW u \in Users, NEW w \in Users, NEW a \in Amounts, TransferTokens(u, w, a)
      PROVE  SupplyAccounted'
  BY <1>7, BooksKept DEF TransferTokens
<1>8. ASSUME NEW u \in Users, NEW k \in Keys, NEW s \in Slots, NEW a \in Amounts, Donate(u, k, s, a)
      PROVE  SupplyAccounted'
  BY <1>0, <1>8, DonateBooks
<1>9. ASSUME AdminNext PROVE SupplyAccounted'
  BY <1>9, AdminStep, BooksKept
<1>10. ASSUME MigrationNext PROVE SupplyAccounted'
  BY <1>10, MigrationBooks
<1>11. ASSUME Tick PROVE SupplyAccounted'
  BY <1>11, BooksKept DEF Tick
<1>12. ASSUME UNCHANGED coreVars PROVE SupplyAccounted'
  BY <1>12, BooksKept DEF coreVars
<1>. QED BY <1>1, <1>2, <1>3, <1>4, <1>5, <1>6, <1>7, <1>8, <1>9, <1>10, <1>11, <1>12, StepCases, Zenon

(* The counters of ArioConfig balance, and from true books no instruction makes  *)
(* them false: locked_supply is the sum over the vaults, every vault is paid for *)
(* and the next id of every owner is free, for any number of vaults and donations.*)
THEOREM SupplyAccountedHolds == CoreSpec => []SupplyAccounted
<1>1. CoreTypeOK /\ SupplyAccounted /\ [CoreNext]_coreVars => SupplyAccounted'
  BY BooksStep
<1>. QED BY <1>1, InitBooks, TypeCorrect, PTL DEF CoreSpec

(* A step that leaves a vault and its tokens alone keeps its lock. *)
LEMMA Untouched ==
  ASSUME CoreTypeOK, NEW k \in Live, vault'[k] = vault[k], custody'[k] = custody[k]
  PROVE  LockKept(k)
<1>1. k \in Keys /\ vault[k] # NoVault /\ vault[k].amount \in Nat /\ vault[k].end \in Int
  BY LiveVault
<1>2. \A s \in Slots : custody[k][s] \in Nat
  BY <1>1 DEF CoreTypeOK
<1>. QED BY <1>1, <1>2 DEF LockKept

(* No step shortens the lock of a vault once the migration is closed. *)
LEMMA LockStep ==
  ASSUME CoreTypeOK, [CoreNext]_coreVars, NEW k \in Live, ~config.migrating, ~IsUnlocked(vault[k])
  PROVE  LockKept(k)
<1>0. /\ k \in Keys /\ vault[k] # NoVault /\ vault[k] \in Vault
      /\ vault[k].amount \in Nat /\ vault[k].end \in Int
  BY LiveVault
<1>a. Amounts \subseteq Nat /\ Locks \subseteq Int
  BY CoreAssumption
<1>b. \A s \in Slots : custody[k][s] \in Nat
  BY <1>0 DEF CoreTypeOK
<1>1. ASSUME NEW r \in Users, NEW s \in Slots, NEW a \in Amounts, NEW l \in Locks,
             NEW c, vault[<<r, nextId[r]>>] = NoVault, nextId[r] \in Ids, OpenVault(r, s, a, l, c)
      PROVE  LockKept(k)
  <2>. DEFINE j == <<r, nextId[r]>>
              v == [amount |-> a, end |-> now + l, controller |-> c, revocable |-> c # NoUser]
  <2>1. /\ j \in Keys /\ j # k /\ vault' = [vault EXCEPT ![j] = v]
        /\ custody' = [custody EXCEPT ![j][s] = @ + a]
    BY <1>0, <1>1, KeyIn DEF OpenVault
  <2>. HIDE DEF j, v
  <2>2. vault'[k] = vault[k] /\ custody'[k] = custody[k]
    BY <1>0, <2>1 DEF CoreTypeOK
  <2>. QED BY <2>2, Untouched
<1>2. ASSUME NEW o \in Users, NEW s \in Slots, NEW a \in Amounts, NEW l \in Locks,
             CreateVault(o, s, a, l)
      PROVE  LockKept(k)
  BY <1>1, <1>2 DEF CreateVault, CreateVaultAccounts
<1>3. ASSUME NEW p \in Users, NEW r \in Users, NEW s \in Slots, NEW a \in Amounts,
             NEW l \in Locks, NEW b \in BOOLEAN, VaultedTransfer(p, r, s, a, l, b)
      PROVE  LockKept(k)
  BY <1>1, <1>3 DEF VaultedTransfer, VaultedTransferAccounts
<1>4. ASSUME NEW j \in Live, NEW s \in Slots, NEW c \in Users, RevokeVault(j, s, c)
      PROVE  LockKept(k)
  <2>1. /\ j \in Keys /\ vault' = [vault EXCEPT ![j] = NoVault]
        /\ custody' = [custody EXCEPT ![j][s] = 0]
        /\ wallet' = [wallet EXCEPT ![c] = @ + custody[j][s]]
        /\ vault[j].revocable /\ vault[j].controller = c
    BY <1>4, LiveVault DEF RevokeVault, RevokeVaultAccounts, CloseVault
  <2>2. CASE j = k
    <3>1. vault'[k] = NoVault
      BY <1>0, <2>1, <2>2 DEF CoreTypeOK
    <3>. QED BY <2>1, <2>2, <3>1 DEF LockKept
  <2>3. CASE j # k
    BY <1>0, <2>1, <2>3, Untouched DEF CoreTypeOK
  <2>. QED BY <2>2, <2>3
<1>5. ASSUME NEW j \in Live, NEW l \in Locks, ExtendVault(j, l) PROVE LockKept(k)
  <2>. DEFINE e == vault[j].end + l
              w == [vault[j] EXCEPT !.end = e]
  <2>1. /\ j \in Keys /\ l > 0 /\ custody' = custody /\ vault' = [vault EXCEPT ![j] = w]
    BY <1>5, LiveVault DEF ExtendVault
  <2>2. CASE j = k
    <3>1. e \in Int /\ e >= vault[k].end
      BY <1>0, <1>a, <2>1, <2>2
    <3>2. /\ w \in Vault /\ w.end = e /\ w.amount = vault[k].amount
          /\ w.controller = vault[k].controller /\ w.revocable = vault[k].revocable
      <4>. HIDE DEF e
      <4>. QED BY <1>0, <2>2, <3>1 DEF Vault
    <3>. HIDE DEF e, w
    <3>3. vault'[k] = w
      BY <1>0, <2>1, <2>2 DEF CoreTypeOK
    <3>4. w # NoVault /\ \A s \in Slots : custody'[k][s] >= custody[k][s]
      BY <3>2, <1>b, <2>1, CoreAssumption
    <3>. QED BY <3>1, <3>2, <3>3, <3>4, <1>0 DEF LockKept
  <2>3. CASE j # k
    <3>. HIDE DEF w
    <3>. QED BY <1>0, <2>1, <2>3, Untouched DEF CoreTypeOK
  <2>. QED BY <2>2, <2>3
<1>6. ASSUME NEW j \in Live, NEW s \in Slots, NEW a \in Amounts, IncreaseVault(j, s, a)
      PROVE  LockKept(k)
  <2>. DEFINE e == vault[j].amount + a
              w == [vault[j] EXCEPT !.amount = e]
  <2>1. /\ j \in Keys /\ a \in Nat /\ vault' = [vault EXCEPT ![j] = w]
        /\ custody' = [custody EXCEPT ![j][s] = @ + a]
    BY <1>6, <1>a, LiveVault DEF IncreaseVault
  <2>2. CASE j = k
    <3>1. e \in Nat /\ e >= vault[k].amount
      BY <1>0, <2>1, <2>2
    <3>2. /\ w \in Vault /\ w.amount = e /\ w.end = vault[k].end
          /\ w.controller = vault[k].controller /\ w.revocable = vault[k].revocable
      <4>. HIDE DEF e
      <4>. QED BY <1>0, <2>2, <3>1 DEF Vault
    <3>. HIDE DEF e, w
    <3>3. vault'[k] = w
      BY <1>0, <2>1, <2>2 DEF CoreTypeOK
    <3>4. w # NoVault /\ \A x \in Slots : custody'[k][x] >= custody[k][x]
      BY <3>2, <1>0, <1>b, <2>1, <2>2, CoreAssumption DEF CoreTypeOK
    <3>. QED BY <3>1, <3>2, <3>3, <3>4, <1>0 DEF LockKept
  <2>3. CASE j # k
    <3>. HIDE DEF w
    <3>. QED BY <1>0, <2>1, <2>3, Untouched DEF CoreTypeOK
  <2>. QED BY <2>2, <2>3
<1>7. ASSUME NEW j \in Live, NEW s \in Slots, ReleaseVault(j, s) PROVE LockKept(k)
  <2>1. /\ j \in Keys /\ j # k /\ vault' = [vault EXCEPT ![j] = NoVault]
        /\ custody' = [custody EXCEPT ![j][s] = 0]
    BY <1>7, LiveVault DEF ReleaseVault, CloseVault
  <2>. QED BY <1>0, <2>1, Untouched DEF CoreTypeOK
<1>8. ASSUME NEW u \in Users, NEW w \in Users, NEW a \in Amounts, TransferTokens(u, w, a)
      PROVE  LockKept(k)
  BY <1>8, Untouched DEF TransferTokens
<1>9. ASSUME NEW u \in Users, NEW j \in Keys, NEW s \in Slots, NEW a \in Amounts, Donate(u, j, s, a)
      PROVE  LockKept(k)
  <2>1. vault' = vault /\ custody' = [custody EXCEPT ![j][s] = @ + a] /\ a \in Nat
    BY <1>9, <1>a DEF Donate
  <2>2. \A x \in Slots : custody'[k][x] >= custody[k][x]
    BY <1>0, <1>b, <2>1 DEF CoreTypeOK
  <2>. QED BY <1>0, <2>1, <2>2 DEF LockKept
<1>10. ASSUME AdminNext PROVE LockKept(k)
  BY <1>10, AdminStep, Untouched
<1>11. ASSUME MigrationNext PROVE LockKept(k)
  BY <1>11, Untouched DEF MigrationNext, ImportVault, ImportVaultCounter, ImportAccounts, ImportBalance,
     ImportBalanceAccounts, FinalizeSupply, FinalizeSupplyAccounts, FinalizeMigration,
     FinalizeMigrationAccounts
<1>12. ASSUME Tick PROVE LockKept(k)
  BY <1>12, Untouched DEF Tick
<1>13. ASSUME UNCHANGED coreVars PROVE LockKept(k)
  BY <1>13, Untouched DEF coreVars
<1>. QED BY <1>2, <1>3, <1>4, <1>5, <1>6, <1>7, <1>8, <1>9, <1>10, <1>11, <1>12, <1>13, StepCases, Zenon

(* Once the migration is closed no step changes the terms of a locked vault for *)
(* the worse or takes from it, but for the revocation, which ends the vault and *)
(* pays its controller what was in the token account: for every vault, lock and *)
(* amount, in every order of the instructions.                                  *)
THEOREM VaultLocksKeptHolds == CoreSpec => VaultLocksKept
<1>. DEFINE Kept == \A k \in Live : ~config.migrating /\ ~IsUnlocked(vault[k]) => LockKept(k)
<1>1. CoreTypeOK /\ [CoreNext]_coreVars => [Kept]_coreVars
  BY LockStep
<1>. QED BY <1>1, TypeCorrect, PTL DEF CoreSpec, VaultLocksKept
=============================================================================
