# A TLA+ development for the AR.IO Solana contracts

This directory holds TLA+ specifications of the on-chain programs under
`programs/`, the TLC configurations that check them on small instances, and
TLAPS proofs of the results that matter most. `PROJECT.json` lists, in machine
readable form, the components, the runs, the source lines behind every
definition, the hazards the properties are aimed at, the findings and the
theorems.

## 1. Inventory

The repository holds five Anchor programs. On Solana one instruction runs to
completion or is reverted as a whole, so the unit of interleaving is the
instruction: a handler, with the CPIs it makes, is one action; a failed
`require!` or account constraint is a disabled action. What interleaves are the
instructions of operators, delegators, observers, buyers, depositors, the
permissionless crank and the authority, in any order and at any time, and the
steps of programs that share accounts with ours (SPL token, Metaplex Core).

| Program | State | Operations | Talks to |
|---|---|---|---|
| `ario-gar` staking | `GatewaySettings` (supply counters), `Gateway`, `Delegation`, `Withdrawal`, `WithdrawalCounter`, `AllowlistEntry`, `RedelegationRecord`, the stake pool | join, leave, prune, finalize, (de/in)crease stake, delegate, redelegate, claim, cancel, instant withdrawal, pay from stake | called by `ario-arns` and `ario-core` (`deduct_*`, `pay_from_funding_plan`) |
| `ario-gar` epochs | `EpochSettings`, `Epoch`, `GatewayRegistry`, `Observation`, `EpochRentReceipt` | create, tally, prescribe, observe, distribute, close; authority retunes and writes off | calls `ario-core::release_treasury_to_recipient`; reads the ArNS `NameRegistry` |
| `ario-core` | `ArioConfig`, `Vault`, `VaultCounter`, `PrimaryName*`, the treasury | locked vaults, revocable vaults, primary names, treasury release, import | called by `ario-gar` and the escrow; calls `ario-gar` for funding plans; reads `ario-arns`, `ario-ant` |
| `ario-arns` | `ArnsConfig`, `ArnsRecord`, `ReturnedName`, `ReservedName`, `DemandFactor`, `NameRegistry` | buy, extend, upgrade, increase undernames, release, reassign, returned-name auction, reserve, prune, demand factor | calls `ario-gar` to be paid from stake |
| `ario-ant` | `AntConfig`, `AntControllers`, `AntRecord`, `AntRecordMetadata`, paged ACL | records, controllers, transfer, reconcile, ACL index | Metaplex Core |
| `ario-ant-escrow` | `EscrowAnt`, `EscrowToken` (liquid and locked) | deposit, update recipient, cancel, claim by an Ethereum signature or an Arweave attestation, purge | Metaplex Core, `ario-core` vaults |

What is hard in this code:

* **Counters that are maintained, never recomputed.** The supply counters of
  `ario-gar` and `ario-core` move in some thirty handlers, those of `ario-gar`
  by `saturating_sub`. A handler that forgets one does not fail; it drifts.
* **Lazy work.** A distribution only advances `cumulative_reward_per_token` and
  each delegation settles when it is next touched; the demand factor is rolled
  by whoever next needs a price; `ario-ant` learns of a sale when somebody next
  calls it.
* **Accounts that outlive one another.** A `Gateway`, a `Vault`, an escrow or an
  `ArnsRecord` is closed and opened again under the same key while accounts and
  signatures that refer to the earlier one are still there.
* **State another program changes.** An ANT is sold by Metaplex Core; anybody
  can pay into a token account of a PDA; the lock bounds of `ario-core` change
  between a deposit and its claim; a lease ends between a request and its
  approval.
* **Long transactions cut into batches.** The tally and the distribution of an
  epoch run over many transactions, and gateways join, leave and are pruned
  between them. Failure counts are indexed by registry position.
* **Liveness through a crank.** Nothing happens unless somebody calls, possibly
  days late, and a stuck epoch stops every later one.

## 2. Modules

| Module | What it is |
|---|---|
| `StakeLedger` | every instruction of `ario-gar` that moves stake |
| `EpochLifecycle` | registry, epoch accounts, observations, crank, schedule |
| `CoreVaults` | vaults, supply counters, treasury, administration and migration of `ario-core` |
| `PrimaryNames` | primary names of `ario-core`; EXTENDS `AntRecords`, whose accounts it reads |
| `DemandPricing` | fees and the demand-factor machine of `ario-arns` |
| `ArnsNames` | the life of a name, the `NameRegistry`, payments from stake; EXTENDS `DemandPricing` |
| `AntRecords` | records, controllers, lazy reconciliation and ACL pages of `ario-ant` |
| `EscrowClaims` | recipients, canonical messages, nonces and the two verifiers of the escrow |
| `EscrowAnt` | the ANT half of the escrow; EXTENDS `EscrowClaims` |
| `AntCustody` | abstract specification: what the ANT escrow promises. `EscrowAnt` refines it |
| `EscrowTokens` | liquid and locked token deposits; EXTENDS `CoreVaults` and `EscrowClaims` |
| `MC*` | instances for TLC: initial wallets, outcomes, plans, symmetry |
| `SumTheorems` | lemmas on sums over finite sets (`SumFunctionOnSet`) |
| `*Proofs` | theorems about the module of that name |

### StakeLedger

A field of an account is a function from the account's key. `operator_stake[g]`
is `Gateway.operator_stake`, `del_amount[<<g, d>>]` and `reward_debt[<<g, d>>]`
are the fields of a `Delegation`, `vault[<<a, i>>]` and `vault_amount[<<a, i>>]`
those of a `Withdrawal`. The token accounts are `wallet`, `stake_pool` and
`treasury`. `status[g] = "None"` says that there is no `Gateway` account.

Each instruction of `operator_stake.rs`, `delegate.rs`, `withdrawal.rs`,
`allowlist.rs`, `payment.rs` and the staking part of `gateway.rs` is an action
with the snake-case name in camel case. `cancel_withdrawal` is two actions, one
per branch. `settle_delegate_rewards` appears as `Pending` (what would be
settled) and `SetPrincipal` (the write, with the new debt). The second pass of
`distribute_epoch` is `DistributeEpoch(o)`: `o` gives the outcome of every
gateway in the batch, the action scales the rewards to the treasury, splits them
between operator and delegates, holds back a delegates' share nobody can take,
and credits the accumulator. A funding plan is a record of what is taken from
the wallet, from each delegation, from the payer's own gateway and from each
vault; `PlanSlots` enumerates the orders in which residue vaults can get their
ids.

Abstracted: rates are small fractions over `RateScale` and `ShareScale`;
`REWARD_PRECISION` is 3 instead of 10^18, so that rounding loses tokens within a
few steps. The 128-bit overflow fallback of `settle_delegate_rewards` is not
reached at these amounts and computes the same quotient. `is_exit_vault`
(written, never read by a handler), names, labels and events are left out. The
share ratio staged by `update_gateway_settings` and applied at the tally reaches
the ledger through the outcomes.

### EpochLifecycle

`registry` is the sequence of occupied slots of `GatewayRegistry`, with
`composite_weight` and `registry_index` kept per gateway; `epoch[e]` is the
`Epoch` account or `NoEpoch`; `observations` and `receipts` are the sets of open
`Observation` and `EpochRentReceipt` accounts; `paid[e]` is a history variable
with what an epoch has paid.

The crank's steps take a batch end `n` freely, so a tally or a distribution is
cut in every way. The roulette of `prescribe_epoch` draws any set of weighted
gateways within its bounds (its rounds are bounded, so it may draw fewer than
the limit). A report marks any set of slots as failed. The weight of a gateway
is 0 or 1: only "zero or not" decides who shares and who may observe; how much
is a choice of the tally. An observer key is identified with its gateway.
`epoch_duration`, `GATEWAY_LEAVE_PERIOD`, the retention gap and the seven-epoch
window are constants scaled down to one or two ticks. The reward ratios and the
tenure settings are constants. Prescribed names are left out: no payout depends
on them.

### CoreVaults

`vault[<<owner, id>>]` is the `Vault` account, `custody` the balances of the
token accounts its PDA owns (the program accepts any of them, and anybody may
pay into one: `Donate`), `supply` the four counters of `ArioConfig`, `nextId`
the `VaultCounter`. All vault instructions, `transfer_tokens`,
`release_treasury_to_recipient`, `update_config`, `transfer_authority`, the two
repairs and the migration (`import_account` for vaults and counters,
`import_balance`, `finalize_supply`, `finalize_migration`) are actions. Import
writes what it is given over what is there; `audited` is a history variable that
says whether what was written was true, and the accounting is promised only
then. `ImportedVaults` are well-formed vaults, but nothing in the program makes
them so: `import_account` trusts the migration authority for the fields of a
vault as for the books.

### EscrowClaims, EscrowAnt, AntCustody, EscrowTokens

A nonce is the tuple of what is hashed into it (slot, asset, depositor, and for a
rotation the nonce before), a canonical message is the record of the fields that
`canonical.rs` writes. A recipient may sign for any claimant at any time; a
signature once made is never forgotten, so a claim may be late or a replay; the
attestor attests only messages that were signed. Hash collisions, curve and
RSA arithmetic and byte layout are left out.

`EscrowAnt` has the owner and the update authority of each asset, which a trade
outside the program separates. `AntCustody` knows neither signatures nor
nonces: an ANT under a trust goes back to its depositor, to a claimant agreed to
under the trust now in force, or is burned when abandoned. The refinement maps
the escrow account to the trust (`TrustOf`) and a history variable of consents
to `given`. Freshness is promised per slot: a cancel and a new deposit of the
same ANT for the same recipient within one slot reproduce the nonce, so the
abstract trust is identified by its slot too.

`EscrowTokens` adds liquid and locked deposits. A claim of a locked deposit
runs `settle_vault_claim`: it re-locks in an `ario-core` vault, through
`create_vault` or `vaulted_transfer` depending on who pays, or pays out if less
time is left than `ario-core` accepts now. The actions of `CoreVaults` are
composed with it (`CoreStep`).

### AntRecords and PrimaryNames

The Metaplex asset (`nft`) changes hands without the program; `config[a]` is the
owner the program knew last. A managing instruction compares the two and, if
they differ, drops the controllers first (`ControllersNow`); a record carries its
own stamp (`last_reconciled_owner`) and drops its delegate when it is touched
(`RecordNow`). Each grant carries `by`, a history field: the holder when it was
made. ACL pages are sets of entries with `MaxPageEntries`; healing instructions
are actions of anybody.

`PrimaryNames` has the request, forward and reverse accounts, and reads
`AntRecords` and an ArNS record that changes arbitrarily between its steps
(`ArnsChanges`). A name is a pair of undername and base; string rules are left
out. The payment of the fee may be split between wallet and stake.

### DemandPricing and ArnsNames

`DemandPricing` keeps fixed-point numbers as the integers the code has, with its
integer divisions, and models the catch-up of missed periods as the code does
it: the first `MAX_ROLLOVER_PERIODS` one by one, then a closed form in three
phases. In `ArnsNames` a record, a returned name and a reservation are accounts
of a name; `registry` is the sequence of slots in use with the swap removal.
Each of the five paying instructions exists in five variants, which differ in
what `Draw` takes the price from (`FromBalance`, `CpiDeductDelegation`, ...);
the rules for what `ario-gar` releases are those of `StakeLedger`, so a
purse here is an amount per source. `prune_expired_names` and
`prune_returned_names` take a batch; each account in it is handled on its own.
`initialize` accepts an initial demand factor above `MAX_DEMAND_FACTOR`, so the
constant is bounded from below only.

## 3. What the runs check

| Run | Checks | Shows |
|---|---|---|
| `one` | `TypeOK`, `SupplyCounters`, `PoolSolvent`, `AllowlistKeepsOut` | the maintained counters equal the sums they stand for and the pool covers all claims, through rounding, slashing and a toggled allowlist |
| `rejoin` | `GatewayCounters`, `NextIdFree`, `NoStrandedDelegation`, `DebtNotAhead`, `ProtectedUntilUnlock`, `NoDustLeft` | closing and reopening a gateway under surviving delegations and vaults, with stake spent through funding plans, loses, mints and strands nothing |
| `two` | `OnlyRewardsEnrich`, `DistributionCovered`, `DisabledOnlyDrains` | two gateways and redelegation: moving stake earns nothing, a batch credits what it brings into the pool and, but for the rounding, all of it, so a share whose delegates are gone stays in the treasury; a closed gateway only drains |
| `registry` | `LatestOnlyOpen`, `RegistryIndexed`, `NeverClobbered`, `PaidWithinPool`, `ReportsCounted`, `TreasuryCovers`, `PositionsFrozen` | registry positions and weights under an open epoch (ADR-0033, 0034, 0036); two observers, any batches, joiners and leavers between divisor and payment |
| `lifecycle` | `ReceiptKept`, `CloseStrandsNothing`, `StreakNeedsEvidence`, `EpochsFinish`, `EpochsAdvance` | two epochs of one gateway, from the first index or from one set by the authority, write-offs, receipts (ADR-0029), epochs nobody observed; under a fair crank the schedule never gets stuck |
| `core` | `SupplyAccounted`, `VaultLocksKept` | donations, retuned bounds, revocation and a migration that overwrites accounts leave the counters true and the locks whole; only the controller's revocation ends a locked vault, and it pays the controller |
| `escrow_tokens` | `EscrowsPaid`, `OneEscrowPerSignature`, `EscrowLocksKept` | two depositors under one asset id, replayed signatures, bounds retuned between deposit and claim |
| `escrow_ant` | `InCustody`, `CustodyKept` | the ANT escrow refines `AntCustody` under replays, rotations, trades and the purge |
| `ant` | `NoInheritedAuthority`, `AclIndexed` | no authority survives a sale; the index agrees with the lists |
| `names` | `NamesPaired`, `NamesByRight` | forward and reverse name agree, and a name is given by right as things are at the approval |
| `arns` | `RegistryMirrors`, `LeaseHorizon`, `LazyIsEager`, `GraceProtects` | the registry mirrors the records, leases neither outgrow their term nor end early, the closed form of the demand factor equals the stepwise one |
| `disable` | `DisableTakesEffect` (violated) | the finding below |

**Bounds.** `MaxTime`, `MaxSlot`, `MaxVaults`, `MaxRounds`, `MaxEpochs`,
`MaxRotations`, `MaxSignatures`, `MaxPages` and `MaxCapacity` bound the models;
each sits in a guard. Two or three ticks cover "before", "at" and "after" every
deadline, since the periods are one or two ticks long.
*Staking:* every handler touches at most two gateways (`redelegate_stake`, a
plan with two delegations), one delegator and the vaults of one owner; two vaults
per account are the most one instruction opens; one distribution is enough for
rounding dust. *Epochs:* two, one superseding another, with
a retention gap of one; a treasury of two tokens, so that a pool goes wholly to
one gateway and one observer or is rounded away among more. *Vaults and tokens:* amounts of one token per deposit suffice,
because no handler splits an amount; two users, so that owner, controller and
payer can differ; one vault id per owner in TLC (the proof has any number).
*Escrow:* an ANT escrow sees two signatures and two rotations, so that a replay
can follow a rotation away from a recipient and back. A token escrow has one of
each: `OneEscrowPerSignature` compares two escrows under one message, and the
nonce differs from the deposit's after one rotation.
*ANT:* three wallets, so that seller, buyer and delegate differ, and a page of
two entries, so that it fills. *Names:* one name and one undername of one base;
the ArNS record may be replaced by any other at any time. *ArNS:* one imported
lease within its term (the import trusts the migration authority to bring in no
other) and one free name, a registry with room for one until it is expanded, a
purse with one stake source at a time, and a clock over lease, grace period and
auction. `LazyIsEager` compares the closed form with the stepwise one in every
reachable state for gaps up to twice the rollover bound plus one, which is more
than a full cycle at these rates; the proof has any gap and any rates.

Deadlock checking is on for `ario-gar`, where the accounts can always be
allowed, joined or closed. It is off in the other runs, where a model with its
clock at the bound and its tokens spent really has nothing left to do.

`INVARIANTS.md` writes Invariant 1 as an equation. The model states it as
`PoolSolvent`, an inequality: scaling a batch, the accumulator and the
settlement each round down, and the dust stays in the pool.

Every property of a passing run has a mutant in `PROJECT.json`: an operator of
the specification replaced by a plausible wrong version (defined just before it
and marked as a mutant) under which TLC finds that property violated.

### Fairness

`FairSpec` of `EpochLifecycle` asks for weak fairness of the clock and of
`create_epoch`, `tally_weights`, `prescribe_epoch` and `distribute_epoch`. They
are permissionless and `docs/EPOCH_LIVENESS.md` assumes a cranker that keeps
calling. A tally and a distribution must make progress; an empty batch does not
count. Nobody is assumed to join, observe, close, write off or administer
anything. The other programs promise nothing that must eventually happen: every
instruction waits for a user who may never call.

### Finding

`disable`: a scheduled disable never flips `enabled`. `create_epoch` writes the
flag and returns an error, which reverts the write. Creation is refused from
then on, but the flag, and everything that reads it, stays on.

### Other divergences met while modelling

The models follow the code in each case.

* `pay_from_funding_plan` (`payment.rs:682`) spends a protected exit vault;
  `ario-gar/src/state/mod.rs:788` says that it cannot be drained that way.
  The single-source `deduct_withdrawal_for_payment` does refuse.
* A delegate removed from an allowlist who still has stake can add more
  (`delegate.rs:50`); `allowlist.rs:35` says it cannot.
* `admin_set_withdrawal_period` (`initialize.rs:345`) says that open vaults are
  unaffected; the penalty of an instant withdrawal (`withdrawal.rs:78`) decays
  over the current period, so it changes for them.
* `buy_returned_name` does not read reservations, which
  `docs/BEHAVIORAL_DIFFERENCES.md:230` lets it appear to: a name reserved while
  up for auction is sold to anybody.
* `ario-ant/src/lib.rs:1306` says that drift of the ACL heals permissionlessly;
  after a burn the owner's entry cannot be removed, since the asset to compare
  with is gone. The entry carries no authority. `record_acl_owner` can also list
  an owner on two pages.
* Tokens sent to a liquid escrow's token account stop both claim and cancel,
  because the account cannot be closed; the audit brief
  (`docs/ESCROW_SECURITY_AUDIT_BRIEF.md:233`) accepts this.

Two limits of what is promised: if an ANT is sold from A to B and back to A
without a call in between, A's own grants count again (they were made by the
present holder, so `NoInheritedAuthority` permits it); and a primary name may be
approved by the last known owner of an ANT that was sold directly and not
reconciled since (`NamesByRight` says so).

## 4. What is proved

The theorems hold for every value of the constants that satisfies the named
assumptions of their modules: any finite set of accounts, any amounts, rates,
periods and bounds. Each inductive invariant is described below; the last step
of each theorem is temporal (PTL), all others are first order.

**Ledger** (`StakeLedgerProofs`). `TypeCorrect` is proved on its own: the checked
subtractions stay natural numbers. `StakeFloorHolds` and `NextIdFreeHolds` are
inductive over the types. `GatewayCountersHold`, `NoStrandedDelegationHolds` and
`DebtNotAheadHolds` come out of one inductive invariant, because none is
inductive alone: a delegation's settlement is added to `total_delegated_stake`
only if the debt is not ahead, and `finalize_gone` resets the accumulator to 0
only because a zero `total_delegated_stake` means that no delegation with stake
is left, which is `GatewayCounters`. The invariant says that each gateway's
total is the sum of its delegations, that a gateway without an account has total
0, and that a delegation with stake has an account in the table, a gateway, and a
debt not ahead of the accumulator. A zero-amount delegation may keep a debt from
an earlier life of the gateway; the handlers overwrite it before they add stake.
`SumTheorems` has the facts about sums over a finite set that this needs: that
the sum exists, and how one changed entry, a constant factor, a comparison or a
re-indexing moves it.

*Supply counters.* `SupplyCountersHold` shows that no `saturating_sub` on
`total_staked`, `total_delegated` or `total_withdrawn` ever saturates. Its
invariant `SupplyInv` adds `ClosedEmpty`: a vault account that is closed has
amount 0 in the table, so that opening one adds its amount to the sum and
nothing else. Each of the three counters has a lemma of its own over all steps
(`StakedStep` and its siblings).

*The pool.* `PoolSolvent` is not inductive: it counts rewards rounded to whole
tokens, and the fractions of two distributions can make up a token that the
second alone does not bring in. What is inductive is `PoolBacked`: the tokens
of the pool that are nobody's stake and in nobody's vault, times
`REWARD_PRECISION`, cover everything owed *before* rounding (`AllOwed`). A
distribution raises what is owed by at most what it transfers, since the
quotient per token is rounded down; a settlement takes out at most what it
removes from the debt. `PoolSolventHolds` then follows, because rounding only
lowers a claim. For the same reason `DistributionCovered` compares
`ExactClaims`, counted to the fraction; a statement about the rounded claims is
false as soon as two delegators or two distributions are involved.
`DistributionCoveredHolds` covers any number of gateways in a batch and of
batches; the run has one batch. It also bounds the claims from below: scaling
loses less than a token per gateway that is paid (`ScaledLoss`), hence at most
one for all but one of them, and an accumulator less than one fraction per token
delegated (`DistributeOwed`). A share that no delegation can claim any more
exceeds that bound in the run when the code pays it into the pool.

*Locks.* `ProtectedUntilUnlockHolds` rests on `LockedLeaving`: a protected vault
that has not unlocked belongs to a gateway that is still leaving, and unlocks no
later than `finalize_gone` may run. So the operator cannot join again and cancel
the withdrawal while the lock lasts.

*Moves.* `MovesStep` classifies what any instruction does to the principal of
one delegation: it stays, is lowered to nothing or to the gateway's minimum at
least, or is raised, and then the gateway accepts stake and the allowlist lets
the delegator in, or the stake comes back from the delegator's own vault.
`NoDustLeftHolds`, `DisabledOnlyDrainsHolds` and `AllowlistKeepsOutHolds` are
read off it.

*Wealth.* `OnlyRewardsEnrichHolds` splits what an account could take out into
wallet, operator stake, principals and vaults, and follows each instruction
through the four parts. It needs `OwnVaults` (a vault of operator stake belongs
to the gateway's operator, or a cancellation would pay somebody else),
`GatewayCounters` and `ClosedEmpty`.

**Epochs** (`EpochLifecycleProofs`). The inductive invariant `EpochInv` joins
`TypeOK`, `LatestOnlyOpen`, `RegistryIndexed`, `TallyStamps`, `TreasuryCovers`
and `ReceiptKept`. `TallyStamps` is the strengthening: while an epoch is
unfinished, every slot its tally has passed holds either a gateway stamped with
the epoch, one that is leaving, or one that joined too late; and the registry is
never shorter than the epoch's gateway count. It is inductive because
`finalize_gone` (the only step that moves a slot) and `create_epoch` (which starts
the next tally) both wait for the latest epoch to be finished.
`NeverClobberedHolds` follows: the error `EpochWeightsClobbered` is unreachable,
as `docs/EPOCH_LIVENESS.md` claims. `PositionsFrozenHolds` is an action property
from the same invariant.

*Reports.* `ReportInv` says, per epoch, that the submitted reports are those of
prescribed observers, that a slot's failure count never exceeds them, that the
submitted are the closed and the open ones together, and that nothing has been
reported, paid or distributed before the prescription. `ReportsCountedHolds`
and `CloseStrandsNothingHolds` follow: two equal counters leave no `Observation`
account behind. `StreakNeedsEvidenceHolds` also needs that a wallet without a
gateway has no streak (`NoStreak`).

*Payments.* `PaidWithinPool` is not inductive: a late report raises what an
observer is due. `CapInv` ignores the reports and bounds what is paid so far by
the most the slots still ahead could get: a full share for every gateway with
weight and an observer's share for every prescribed one among them. It starts
with the prescription (`ShareWithin`: the shares times their numbers are at most
the pool), each batch uses up what it pays (`CapBatch`), and nobody who joins or
gains weight later enters it.

**Vaults** (`CoreVaultsProofs`). `SupplyAccountedHolds` needs the types and its
own statement as the induction hypothesis: from true books, opening a vault adds
its amount to the sum, the counter and the custody alike, and the next id is
above every live one. `VaultLocksKeptHolds` takes each instruction in turn: only
`revoke_vault` removes a vault that is still locked, it leaves no `Vault` account
behind and moves the whole balance of the token account it was given to the
vault's controller and to nobody else; `extend_vault` and `increase_vault` only
raise its end and its amount, and no instruction changes who may revoke it.

**Token escrow** (`EscrowTokensProofs`). The specification composes the escrow
with every step of `CoreVaults`, so the proof builds on the types of
`CoreVaultsProofs`. `EscrowInv`: an escrow that exists has a well-formed record,
its token accounts hold at least its amount, and its nonce names its depositor,
through every rotation. The last part makes `OneEscrowPerSignatureHolds`: two
escrows that accept one message agree on kind, asset id and nonce, hence on the
depositor, hence are one. For `EscrowLocksKeptHolds`, `RelockCarries` shows that
the time left at the claim, added to the present, is the deposit's own end.

**ANT escrow** (`EscrowAntProofs`). `CustodyKeptHolds` is the refinement. The
invariant is `InCustody`, `NonceBinds` (the nonce of an escrow names the slot in
which its recipient was last set, and its depositor) and `SignedIsGiven` (every
signature is a consent recorded under the trust its nonce names; nothing is
attested that was not signed). A claim verifies a message with the escrow's own
nonce, so its consent is one given under the trust in force.

**ANT records** (`AntRecordsProofs`). Authority is decided against the asset, but
the accounts know only the owner the program saw last. `Stamped` ties every
controller to the owner in `AntConfig` and every delegate to its record's stamp;
a permission check that compares those with the asset then yields
`NoInheritedAuthorityHolds`. `AclIndexedHolds` is a second induction, over the
pages: the counter is the sum of page sizes, and a controller's entry is pushed
with the listing and removed only once the list no longer names it.

**Primary names** (also `AntRecordsProofs`). `AntInv` carries over to the
composition. `PairCases` reduces every instruction to three effects on the pair
of accounts; `NamesPairedHolds` and `NamesByRightHolds` follow from them.

**ArNS** (`ArnsNamesProofs`). What a purchase is paid from plays no part, so
`StepEffects` first reduces all thirty-odd instructions to five effects on the
accounts of a name. The invariant adds to `RegistryMirrors` that the entries are
distinct, without which a swap removal could leave a second entry of the removed
name; `RemoveDistinct` is the lemma about the removal. `ExtensionBounded` is the
arithmetic of `extend_lease`: the years left are rounded up, so an extension is
bounded from the present. `GraceProtectsHolds` is an action property from the
same invariant.

*The demand factor.* `ClosedFormIsTheLoop` says that
`advance_zero_activity_periods` leaves what its per-period loop would leave, for
every fee table, every factor, and every number of periods the window fits into;
the tests of the code compare the two on samples. `RollingComposes` says that
`maybe_roll_demand_period` to one moment and then to a later one is the same as
to the later one at once, for any two moments, and `LazyIsEagerHolds` follows
for every reachable account. The argument has four parts.

1. The loops are recursive functions on the natural numbers. `IteratesExist`
   shows that such a function exists, `AllNaturals` is induction stated with a
   set of naturals instead of an operator; `RollsRun`, `IdleRun` and
   `FeeCutsRun` give the equations the rest uses.
2. From an account without a sale, rolling is the idle walk of factor, floor
   count and cuts, with the fees cut as often as the walk says (`RollsFollow`).
   Once `Window` periods have gone by, every slot of the ring buffers has been
   overwritten with 0 (`RingCovered`).
3. The walk from the boundary comes to its first cut: the factor falls while it
   is above its floor (`DecayFalls`), then the floor count rises, so
   `zero_activity_cycle_length` terminates and is the length of the cycle
   (`DistanceFalls`, `CycleIs`). Nothing here depends on the rates but
   `DownAdjustment < Scale` and `FactorMin < Scale`.
4. Whole cycles change nothing but the number of cuts (`WholeCycles`), wherever
   the walk starts (`WalkFromBoundary`). The code stops cutting once all fees are
   zero; the model cuts on, which is the same, since the cut of zero is zero.

`ArnsTypeCorrect` is what makes this apply to reachable accounts: prices,
discounts and what each of the five sources pays are natural numbers, so no
balance is driven below zero. It uses that the constants are natural numbers and
that the discount is at most the whole price.

### Only model-checked

* Liveness (`EpochsFinish`, `EpochsAdvance`): fairness and `ENABLED` are beyond
  the prover.
* `DisableTakesEffect`, which the code does not satisfy.

No module uses a `RECURSIVE` operator.

### What the proofs changed in the model

* `FullReward` was a `CASE` whose guards overlapped, so that TLA+ left open
  which reward a failed observer gets; it is now decided in the order of the
  code's branches.
* `DistributionCovered` counted rounded claims, which holds on the run's single
  batch only (see above).
* `NoEscrow` was a constant that an instance could have given the value of a
  record; it is defined.
* The demand factor's loops were local to the operators that ran them; they are
  definitions now (`Rolls`, `FeeCuts`, `IdleWalk`), and `PricingAssumption` says
  what the constants are: natural numbers, a discount of at most everything.

## 5. Plan

Worth proving next: that the outcomes of a batch in `StakeLedger` are ones that
`EpochLifecycle` can produce, once the two are composed; that what an extension
and a purchase cost together does not depend on how the years are split, up to
rounding; bounds on the demand factor and on the steps of its closed form. Worth
modelling next: the observer keys (`update_observer_address` and
`ObserverLookup`) as a module of their own, `close_epoch_settings` with a new
`initialize_epochs`, and the composition of `StakeLedger` and `EpochLifecycle`.

## 6. What is not modelled

* Metadata and address updates of a gateway, and the uniqueness of observer keys
  through `ObserverLookup`.
* `close_epoch_settings` with a new `initialize_epochs`: it orphans the open
  epochs by design, and the authority repairs them by hand.
* The one-off repairs `admin_reconcile_delegated_stake` and
  `admin_resync_supply_counters`, and the import of `ario-gar` accounts: `Init`
  of `StakeLedger` is a network started on chain, so the over-counted totals they
  repair are not reachable. The import of `ario-core` is modelled.
* `import_account` and `finalize_migration` of `ario-ant` and `ario-arns`, and
  `import_registry_entry`: while the migration is open its authority writes
  whole accounts, unchecked against the others, so nothing could be promised of
  the accounts it wrote. `Init` of `ArnsNames` has leases that were imported as
  they should be (`Imported`: within the term, one registry entry each); the ANT
  accounts of `AntRecords` are registered on chain.
* Schema migrations: they grow an account and rewrite its bytes.
* The attribute plugin of an ANT (`sync_attributes`, clear, adopt) and all string
  formats: names, targets, logos, transaction ids, hashes.
* `get_token_cost`, a view of the formulas in `DemandPricing`.
* Overflow of 64-bit counters: additions are `checked_add` in the source and the
  supply of tokens bounds them.
* Rent lamports, except for who holds an epoch's receipt.
* Clients, IDLs and scripts.
