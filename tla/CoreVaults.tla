----------------------------- MODULE CoreVaults -----------------------------
(***************************************************************************)
(* The vault ledger of ario-core: time-locked positions, the supply        *)
(* counters of ArioConfig that summarise them, the treasury, and the       *)
(* administration and migration instructions that can rewrite either.      *)
(*                                                                         *)
(* A vault is a PDA (owner, id) and owns SPL token accounts.  The program  *)
(* asks only that the account passed to it belongs to the vault's PDA, so  *)
(* the balance of a vault is a function on Slots, the token accounts that  *)
(* anybody may open for a PDA.                                             *)
(***************************************************************************)
EXTENDS Integers, FiniteSets, FiniteSetsExt, Functions

CONSTANTS
  Users,            \* wallets
  NoUser,           \* Option::None of a controller
  NoVault,          \* the vault PDA does not exist
  Slots,            \* token accounts that can be opened for one vault PDA
  Ids,              \* bound on the vault ids of one owner (0..n)
  Amounts,          \* amounts an instruction is called with
  Locks,            \* lock durations an instruction is called with
  DefaultBounds,    \* <<DEFAULT_MIN_VAULT_DURATION, DEFAULT_MAX_VAULT_DURATION>>
  DurationBounds,   \* <<min, max>> pairs update_config is called with
  MinVaultSize,     \* ArioConfig::MIN_VAULT_SIZE
  InitialWallet,    \* tokens of every wallet at genesis
  InitialTreasury,  \* tokens of the treasury at genesis
  MigrationAuthority,
  MigrationDeadline,
  ImportedVaults,   \* Vault records import_account is called with
  ImportedIds,      \* VaultCounter.next_id values import_account is called with
  SupplySnapshots,  \* <<protocol, circulating, locked>> given to finalize_supply
  MaxTime           \* bound on the clock

Keys == Users \X Ids

\* struct Vault; vault_id is the second component of the key.
Vault == [amount : Nat, end : Int, controller : Users \cup {NoUser}, revocable : BOOLEAN]

ASSUME CoreAssumption ==
  /\ IsFiniteSet(Users) /\ IsFiniteSet(Ids) /\ IsFiniteSet(Slots)
  /\ Users # {} /\ Slots # {}
  /\ NoUser \notin Users
  /\ Ids \subseteq Nat /\ Amounts \subseteq Nat /\ Locks \subseteq Int
  /\ DurationBounds \subseteq Int \X Int /\ DefaultBounds \in Int \X Int
  /\ SupplySnapshots \subseteq Nat \X Nat \X Nat
  /\ InitialWallet \in Nat /\ InitialTreasury \in Nat
  /\ MinVaultSize \in Nat \ {0}
  /\ ImportedIds \subseteq Nat
  /\ NoVault \notin Vault /\ ImportedVaults \subseteq Vault

VARIABLES
  now,      \* Clock::unix_timestamp
  config,   \* the parts of ArioConfig that are not counters
  supply,   \* the counters of ArioConfig
  vault,    \* (owner, id) -> Vault or NoVault
  nextId,   \* owner -> VaultCounter.next_id (0 where the account is absent)
  custody,  \* (owner, id) -> balance of each token account of the PDA
  wallet,   \* user -> SPL balance
  treasury, \* SPL balance of config.treasury
  imported, \* users whose Balance account import_balance has created
  audited   \* history: the last import or finalize left the books true

coreVars == <<now, config, supply, vault, nextId, custody, wallet, treasury, imported, audited>>

\* struct ArioConfig without its counters.  wired: mint and treasury are those of
\* the token accounts in use; gar: gar_program is the deployed ario-gar.
Config == [authority : Users, min : Int, max : Int, migrating : BOOLEAN,
           wired : BOOLEAN, gar : BOOLEAN]

Supply == [total : Nat, circulating : Nat, locked : Nat, protocol : Nat]

CoreTypeOK ==
  /\ now \in Nat
  /\ config \in Config
  /\ supply \in Supply
  /\ vault \in [Keys -> Vault \cup {NoVault}]
  /\ nextId \in [Users -> Nat]
  /\ custody \in [Keys -> [Slots -> Nat]]
  /\ wallet \in [Users -> Nat]
  /\ treasury \in Nat
  /\ imported \subseteq Users
  /\ audited \in BOOLEAN

Live == {k \in Keys : vault[k] # NoVault}

AmountOf == [k \in Keys |-> IF vault[k] = NoVault THEN 0 ELSE vault[k].amount]

Held(k) == SumFunctionOnSet(custody[k], Slots)

\* Vault::is_unlocked
IsUnlocked(v) == now >= v.end

\* Vault::can_revoke, for controller c
CanRevoke(v, c) == v.revocable /\ v.controller = c /\ ~IsUnlocked(v)

-----------------------------------------------------------------------------
(* initialize: the counters start with everything in circulation, the      *)
(* migration open and the administrator chosen by the caller.              *)

CoreInit ==
  /\ now = 0
  /\ \E a \in Users :
       config = [authority |-> a, min |-> DefaultBounds[1], max |-> DefaultBounds[2],
                 migrating |-> TRUE, wired |-> TRUE, gar |-> TRUE]
  /\ supply = [total |-> InitialTreasury + InitialWallet * Cardinality(Users),
               circulating |-> InitialTreasury + InitialWallet * Cardinality(Users),
               locked |-> 0, protocol |-> 0]
  /\ vault = [k \in Keys |-> NoVault]
  /\ nextId = [u \in Users |-> 0]
  /\ custody = [k \in Keys |-> [s \in Slots |-> 0]]
  /\ wallet = [u \in Users |-> InitialWallet]
  /\ treasury = InitialTreasury
  /\ imported = {}
  /\ audited = TRUE

-----------------------------------------------------------------------------
(* Vault instructions.  <Name>Accounts is the accounts context of an       *)
(* instruction: its constraints, and the init that fails on an account     *)
(* that is there already.                                                  *)

\* locked_supply.checked_add(a), circulating_supply.checked_sub(a); both ways.
CanLock(a) == supply.circulating >= a
CanUnlock(a) == supply.locked >= a
LockSupply(a) ==
  supply' = [supply EXCEPT !.locked = @ + a, !.circulating = @ - a]

CreateVaultAccounts(o) ==
  /\ config.wired
  /\ nextId[o] \in Ids
  /\ vault[<<o, nextId[o]>>] = NoVault

VaultedTransferAccounts(r) ==
  /\ config.wired
  /\ nextId[r] \in Ids
  /\ vault[<<r, nextId[r]>>] = NoVault

LockAllowed(amount, lock) ==
  /\ lock >= config.min
  /\ lock <= config.max
  /\ amount > 0
  /\ amount >= MinVaultSize

\* The new vault of r, paid into token account s; the caller moves the tokens.
OpenVault(r, s, amount, lock, c) ==
  LET k == <<r, nextId[r]>> IN
  /\ CanLock(amount)
  /\ vault' = [vault EXCEPT ![k] = [amount |-> amount, end |-> now + lock,
                                    controller |-> c, revocable |-> c # NoUser]]
  /\ nextId' = [nextId EXCEPT ![r] = @ + 1]
  /\ custody' = [custody EXCEPT ![k][s] = @ + amount]
  /\ LockSupply(amount)
  /\ UNCHANGED <<now, config, treasury, imported, audited>>

CreateVault(o, s, amount, lock) ==
  /\ CreateVaultAccounts(o)
  /\ LockAllowed(amount, lock)
  /\ wallet[o] >= amount
  /\ wallet' = [wallet EXCEPT ![o] = @ - amount]
  /\ OpenVault(o, s, amount, lock, NoUser)

VaultedTransfer(p, r, s, amount, lock, revocable) ==
  /\ VaultedTransferAccounts(r)
  /\ p # r
  /\ LockAllowed(amount, lock)
  /\ wallet[p] >= amount
  /\ wallet' = [wallet EXCEPT ![p] = @ - amount]
  /\ OpenVault(r, s, amount, lock, IF revocable THEN p ELSE NoUser)

\* Mutant: the balance swept, donations included, is taken off locked_supply.
CloseVaultByBalance(k, s, u) ==
  /\ CanUnlock(custody[k][s])
  /\ wallet' = [wallet EXCEPT ![u] = @ + custody[k][s]]
  /\ custody' = [custody EXCEPT ![k][s] = 0]
  /\ vault' = [vault EXCEPT ![k] = NoVault]
  /\ LockSupply(-custody[k][s])
  /\ UNCHANGED <<now, config, nextId, treasury, imported, audited>>

\* Sweep token account s of vault k to u, close both, and give the amount back.
CloseVault(k, s, u) ==
  /\ CanUnlock(vault[k].amount)
  /\ wallet' = [wallet EXCEPT ![u] = @ + custody[k][s]]
  /\ custody' = [custody EXCEPT ![k][s] = 0]
  /\ vault' = [vault EXCEPT ![k] = NoVault]
  /\ LockSupply(-vault[k].amount)
  /\ UNCHANGED <<now, config, nextId, treasury, imported, audited>>

RevokeVaultAccounts(k, c) ==
  /\ config.wired
  /\ k \in Live
  /\ vault[k].revocable
  /\ vault[k].controller = c

\* Mutant: the swept tokens go back to the owner, as in release_vault.
RevokeVaultToOwner(k, s, c) ==
  /\ RevokeVaultAccounts(k, c)
  /\ CanRevoke(vault[k], c)
  /\ CloseVault(k, s, k[1])

RevokeVault(k, s, c) ==
  /\ RevokeVaultAccounts(k, c)
  /\ CanRevoke(vault[k], c)
  /\ CloseVault(k, s, c)

ExtendVaultAccounts(k) == k \in Live

\* Mutant: extend_vault takes a negative extension.
ExtendVaultAnyWay(k, extra) ==
  /\ ExtendVaultAccounts(k)
  /\ now <= vault[k].end
  /\ vault[k].end + extra - now <= config.max
  /\ vault' = [vault EXCEPT ![k].end = @ + extra]
  /\ UNCHANGED <<now, config, supply, nextId, custody, wallet, treasury, imported, audited>>

ExtendVault(k, extra) ==
  /\ ExtendVaultAccounts(k)
  /\ extra > 0
  /\ now <= vault[k].end
  /\ vault[k].end + extra - now <= config.max
  /\ vault' = [vault EXCEPT ![k].end = @ + extra]
  /\ UNCHANGED <<now, config, supply, nextId, custody, wallet, treasury, imported, audited>>

IncreaseVaultAccounts(k) == config.wired /\ k \in Live

IncreaseVault(k, s, amount) ==
  /\ IncreaseVaultAccounts(k)
  /\ amount > 0
  /\ now <= vault[k].end
  /\ wallet[k[1]] >= amount
  /\ CanLock(amount)
  /\ wallet' = [wallet EXCEPT ![k[1]] = @ - amount]
  /\ custody' = [custody EXCEPT ![k][s] = @ + amount]
  /\ vault' = [vault EXCEPT ![k].amount = @ + amount]
  /\ LockSupply(amount)
  /\ UNCHANGED <<now, config, nextId, treasury, imported, audited>>

ReleaseVaultAccounts(k) == config.wired /\ k \in Live

ReleaseVault(k, s) ==
  /\ ReleaseVaultAccounts(k)
  /\ IsUnlocked(vault[k])
  /\ CloseVault(k, s, k[1])

\* The two token accounts share a mint, whatever config.mint says.
TransferTokensAccounts(u, w) == u # w

TransferTokens(u, w, amount) ==
  /\ TransferTokensAccounts(u, w)
  /\ amount > 0
  /\ wallet[u] >= amount
  /\ wallet' = [wallet EXCEPT ![u] = @ - amount, ![w] = @ + amount]
  /\ UNCHANGED <<now, config, supply, vault, nextId, custody, treasury, imported, audited>>

\* The SPL token program lets anybody pay into a vault's token account.
Donate(u, k, s, amount) ==
  /\ amount > 0
  /\ wallet[u] >= amount
  /\ wallet' = [wallet EXCEPT ![u] = @ - amount]
  /\ custody' = [custody EXCEPT ![k][s] = @ + amount]
  /\ UNCHANGED <<now, config, supply, vault, nextId, treasury, imported, audited>>

VaultNext ==
  \/ \E o \in Users, s \in Slots, a \in Amounts, l \in Locks : CreateVault(o, s, a, l)
  \/ \E p, r \in Users, s \in Slots, a \in Amounts, l \in Locks, b \in BOOLEAN :
       VaultedTransfer(p, r, s, a, l, b)
  \/ \E k \in Keys, s \in Slots, c \in Users : RevokeVault(k, s, c)
  \/ \E k \in Keys, l \in Locks : ExtendVault(k, l)
  \/ \E k \in Keys, s \in Slots, a \in Amounts : IncreaseVault(k, s, a)
  \/ \E k \in Keys, s \in Slots : ReleaseVault(k, s)
  \/ \E u, w \in Users, a \in Amounts : TransferTokens(u, w, a)
  \/ \E u \in Users, k \in Keys, s \in Slots, a \in Amounts : Donate(u, k, s, a)

-----------------------------------------------------------------------------
(* Treasury and administration.                                            *)

\* Only ario-gar's settings PDA signs, and config.gar_program says which it is.
ReleaseTreasuryAccounts == config.gar /\ config.wired

ReleaseTreasury(amount) ==
  /\ ReleaseTreasuryAccounts
  /\ amount > 0
  /\ treasury >= amount
  /\ treasury' = treasury - amount
  /\ UNCHANGED <<now, config, supply, vault, nextId, custody, wallet, imported, audited>>

\* UpdateConfig, TransferAuthority: the signer is config.authority.
AuthorityAccounts(u) == config.authority = u

UpdateConfig(u, b) ==
  /\ AuthorityAccounts(u)
  /\ b[1] <= b[2] /\ b[1] >= 0 /\ b[2] > 0
  /\ config' = [config EXCEPT !.min = b[1], !.max = b[2]]
  /\ UNCHANGED <<now, supply, vault, nextId, custody, wallet, treasury, imported, audited>>

TransferAuthority(u, w) ==
  /\ AuthorityAccounts(u)
  /\ config' = [config EXCEPT !.authority = w]
  /\ UNCHANGED <<now, supply, vault, nextId, custody, wallet, treasury, imported, audited>>

RepairConfigAccounts(u) == config.authority = u /\ config.migrating

AdminRepairConfig(u, right) ==
  /\ RepairConfigAccounts(u)
  /\ now < MigrationDeadline
  /\ config' = [config EXCEPT !.wired = right]
  /\ UNCHANGED <<now, supply, vault, nextId, custody, wallet, treasury, imported, audited>>

AdminSetGarProgram(u, g) ==
  /\ config.authority = u /\ config.migrating
  /\ now < MigrationDeadline
  /\ config' = [config EXCEPT !.gar = g]
  /\ UNCHANGED <<now, supply, vault, nextId, custody, wallet, treasury, imported, audited>>

AdminNext ==
  \/ \E a \in Amounts : ReleaseTreasury(a)
  \/ \E u \in Users, b \in DurationBounds : UpdateConfig(u, b)
  \/ \E u, w \in Users : TransferAuthority(u, w)
  \/ \E u \in Users, w \in BOOLEAN : AdminRepairConfig(u, w)
  \/ \E u \in Users, g \in BOOLEAN : AdminSetGarProgram(u, g)

-----------------------------------------------------------------------------
(* Migration.  import_account writes the bytes it is given over whatever   *)
(* the PDA holds, and moves neither tokens nor counters; finalize_supply   *)
(* writes the counters it is given.  Neither is checked against the vaults *)
(* on chain: audited records whether what they wrote was true.             *)

\* The counters match the vaults, the vaults are paid for, the ids are free.
LockedCounted == supply.locked = SumFunctionOnSet(AmountOf, Keys)
VaultsPaid == \A k \in Live : Held(k) >= vault[k].amount
NextIdFree == \A k \in Live : k[2] < nextId[k[1]]
BooksTrue == LockedCounted /\ VaultsPaid /\ NextIdFree

\* ImportAccount; the signer is config.migration_authority.
ImportAccounts == config.migrating /\ now < MigrationDeadline

ImportVault(k, v) ==
  /\ ImportAccounts
  /\ vault' = [vault EXCEPT ![k] = v]
  /\ UNCHANGED <<now, config, supply, nextId, custody, wallet, treasury, imported>>
  /\ audited' = BooksTrue'

ImportVaultCounter(u, n) ==
  /\ ImportAccounts
  /\ nextId' = [nextId EXCEPT ![u] = n]
  /\ UNCHANGED <<now, config, supply, vault, custody, wallet, treasury, imported>>
  /\ audited' = BooksTrue'

ImportBalanceAccounts(u) ==
  /\ config.migrating
  /\ u \notin imported
  /\ config.wired

ImportBalance(u, amount) ==
  /\ ImportBalanceAccounts(u)
  /\ now < MigrationDeadline
  /\ LET paid == IF u = MigrationAuthority THEN 0 ELSE amount IN
       /\ treasury >= paid
       /\ treasury' = treasury - paid
       /\ wallet' = [wallet EXCEPT ![u] = @ + paid]
  /\ imported' = imported \cup {u}
  /\ UNCHANGED <<now, config, supply, vault, nextId, custody, audited>>

FinalizeSupplyAccounts(u) == config.migrating /\ config.authority = u

FinalizeSupply(u, protocol, circulating, locked) ==
  /\ FinalizeSupplyAccounts(u)
  /\ supply' = [total |-> protocol + circulating + locked, circulating |-> circulating,
                locked |-> locked, protocol |-> protocol]
  /\ UNCHANGED <<now, config, vault, nextId, custody, wallet, treasury, imported>>
  /\ audited' = BooksTrue'

FinalizeMigrationAccounts(u) == config.migrating /\ config.authority = u

FinalizeMigration(u) ==
  /\ FinalizeMigrationAccounts(u)
  /\ config' = [config EXCEPT !.migrating = FALSE]
  /\ UNCHANGED <<now, supply, vault, nextId, custody, wallet, treasury, imported, audited>>

MigrationNext ==
  \/ \E k \in Keys, v \in ImportedVaults : ImportVault(k, v)
  \/ \E u \in Users, n \in ImportedIds : ImportVaultCounter(u, n)
  \/ \E u \in Users, a \in Amounts : ImportBalance(u, a)
  \/ \E u \in Users, t \in SupplySnapshots : FinalizeSupply(u, t[1], t[2], t[3])
  \/ \E u \in Users : FinalizeMigration(u)

Tick ==
  /\ now < MaxTime
  /\ now' = now + 1
  /\ UNCHANGED <<config, supply, vault, nextId, custody, wallet, treasury, imported, audited>>

CoreNext == VaultNext \/ AdminNext \/ MigrationNext \/ Tick

CoreSpec == CoreInit /\ [][CoreNext]_coreVars
-----------------------------------------------------------------------------
(* Properties *)

(* The counters of ArioConfig balance at every moment, and from a true start *)
(* (genesis, or an import or finalize_supply that left the books true) no    *)
(* vault instruction makes them false: locked_supply is the sum over the     *)
(* vaults, so the checked_sub of a release cannot fail; every vault's token  *)
(* accounts hold its amount; the next vault id of an owner is free, so the   *)
(* init of the next vault cannot fail.                                       *)
SupplyAccounted ==
  /\ supply.circulating + supply.locked + supply.protocol = supply.total
  /\ audited => BooksTrue

(* Once the migration is closed, a lock is never shortened: a vault that is  *)
(* still locked keeps its terms and its tokens, does not shrink and does not *)
(* unlock earlier; the one other thing that can happen to it is that its     *)
(* controller revokes it, which ends the vault and pays the controller all   *)
(* that was in the token account it named.  Neither the administrator's      *)
(* update_config nor a donation has a say.                                   *)
LockKept(k) ==
  \/ /\ vault'[k] # NoVault
     /\ vault'[k].end >= vault[k].end
     /\ vault'[k].amount >= vault[k].amount
     /\ vault'[k].controller = vault[k].controller
     /\ vault'[k].revocable = vault[k].revocable
     /\ \A s \in Slots : custody'[k][s] >= custody[k][s]
  \/ /\ vault[k].revocable
     /\ vault[k].controller \in Users
     /\ vault'[k] = NoVault
     /\ \E s \in Slots :
          /\ wallet' = [wallet EXCEPT ![vault[k].controller] = @ + custody[k][s]]
          /\ custody' = [custody EXCEPT ![k][s] = 0]

VaultLocksKept ==
  [][\A k \in Live : ~config.migrating /\ ~IsUnlocked(vault[k]) => LockKept(k)]_coreVars
=============================================================================
