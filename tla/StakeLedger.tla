---------------------------- MODULE StakeLedger ----------------------------
(***************************************************************************)
(* The staking ledger of the ario-gar program: who owns which part of the  *)
(* shared stake pool, and every instruction that moves it.                 *)
(*                                                                         *)
(* One transaction is one step: Solana runs an instruction to completion   *)
(* or reverts all of it, so an action is a whole handler and a failed      *)
(* require! is a disabled action.  Fields of an account are functions from *)
(* the accounts' keys: operator_stake[g] is Gateway.operator_stake of the  *)
(* gateway that g operates, del_amount[<<g, d>>] is Delegation.amount.     *)
(*                                                                         *)
(* Left to the module EpochLifecycle: the registry, the epoch accounts and *)
(* the scoring of gateways.  Here a distribution batch takes its outcomes  *)
(* from the set Outcomes, and finalize_gone may run in any epoch state.    *)
(***************************************************************************)
EXTENDS Integers, FiniteSets, Functions

CONSTANTS
    Accounts,            \* wallets that may stake
    Operators,           \* the wallets that may run a gateway
    NoVault,             \* the value of a Withdrawal PDA that is not open
    InitialWallet,       \* tokens of each account at genesis
    InitialTreasury,     \* protocol_token_account at genesis
    MinOperatorStake,    \* GatewaySettings.min_operator_stake
    MinDelegations,      \* values of Gateway min_delegation_amount
    Periods,             \* values of GatewaySettings.withdrawal_period
    LeavePeriod,         \* GATEWAY_LEAVE_PERIOD
    EpochWindow,         \* 7 * epoch_duration, the extra wait of finalize_gone
    RateScale,           \* RATE_SCALE
    RewardPrecision,     \* REWARD_PRECISION
    ShareScale,          \* 10_000, the basis of delegate_reward_share_ratio
    MaxPenalty,          \* max_expedited_withdrawal_penalty
    MinPenalty,          \* min_expedited_withdrawal_penalty
    MinExpedited,        \* min_expedited_withdrawal_amount
    FeeStep,             \* percent per redelegation (10)
    FeeCap,              \* most percent of a redelegation (60)
    FeeResetInterval,    \* FEE_RESET_INTERVAL
    MaxConsecutiveFailures, \* EpochSettings.max_consecutive_failures
    Amounts,             \* amounts a caller may pass
    Outcomes,            \* outcomes of a gateway in a distribution batch
    Plans,               \* funding plans a payer may pass
    AllowlistChoices,    \* values set_allowlist_enabled may be called with
    MaxTime,             \* bound on the clock
    MaxVaults,           \* bound on the withdrawals of one account
    MaxRounds            \* bound on the distribution batches

VARIABLES
    now,                    \* Clock::unix_timestamp
    rounds,                 \* distribution batches so far
    wallet,                 \* the accounts' own token accounts
    stake_pool,             \* stake_token_account
    treasury,               \* protocol_token_account
    total_staked,           \* GatewaySettings.total_staked
    total_delegated,        \* GatewaySettings.total_delegated
    total_withdrawn,        \* GatewaySettings.total_withdrawn
    withdrawal_period,      \* GatewaySettings.withdrawal_period
    status,                 \* Gateway.status, "None" without a Gateway PDA
    operator_stake,         \* Gateway.operator_stake
    total_delegated_stake,  \* Gateway.total_delegated_stake
    cumulative_reward,      \* Gateway.cumulative_reward_per_token
    settings,               \* Gateway.settings
    failed_consecutive,     \* Gateway.stats.failed_consecutive
    leave_timestamp,        \* Gateway.leave_timestamp
    delegations,            \* the Delegation PDAs that exist
    del_amount,             \* Delegation.amount
    reward_debt,            \* Delegation.reward_debt
    allowlist,              \* the AllowlistEntry PDAs that exist
    vault,                  \* Withdrawal PDAs, without their amount
    vault_amount,           \* Withdrawal.amount
    next_id,                \* WithdrawalCounter.next_id
    redelegation            \* RedelegationRecord

clockVars == <<now, rounds>>
tokenVars == <<wallet, stake_pool, treasury>>
counterVars == <<total_staked, total_delegated, total_withdrawn>>
stakeVars == <<operator_stake, total_delegated_stake, cumulative_reward>>
gatewayVars == <<status, settings, failed_consecutive, leave_timestamp>>
delegationVars == <<delegations, del_amount, reward_debt>>
vaultVars == <<vault, vault_amount, next_id>>
otherVars == <<withdrawal_period, allowlist, redelegation>>
vars == <<clockVars, tokenVars, counterVars, stakeVars, gatewayVars,
          delegationVars, vaultVars, otherVars>>

None == -1                                  \* Option::None of a timestamp
Pairs == Operators \X Accounts              \* the Delegation PDAs
VaultIds == Accounts \X (0 .. MaxVaults - 1) \* the Withdrawal PDAs

VaultRecord ==
    [gateway : Operators, created_at : Nat, available_at : Nat,
     is_delegate : BOOLEAN, is_protected : BOOLEAN]

SettingsRecord ==
    [allow : BOOLEAN, disabled_at : Nat \cup {None},
     min_delegation : Nat, allowlist : BOOLEAN]

BlankSettings ==
    [allow |-> FALSE, disabled_at |-> None, min_delegation |-> 0,
     allowlist |-> FALSE]

(***************************************************************************)
(* What distribute_epoch works out for a gateway before it pays: the full  *)
(* reward, the delegates' share in basis points, whether there was         *)
(* delegated stake at the tally, whether the gateway takes part at all and *)
(* whether it failed.  Idle stands for a gateway outside the batch, one    *)
(* that is leaving and one that is not eligible.                           *)
(***************************************************************************)
OutcomeRecord ==
    [reward : Nat, share : 0 .. ShareScale, at_tally : BOOLEAN,
     eligible : BOOLEAN, failed : BOOLEAN]

Idle == [reward |-> 0, share |-> 0, at_tally |-> FALSE,
         eligible |-> FALSE, failed |-> FALSE]

(***************************************************************************)
(* A funding plan after equal sources have been added up: what it takes    *)
(* from the payer's wallet, from each of its delegations, from its own     *)
(* gateway's stake and from each of its vaults.                            *)
(***************************************************************************)
PlanRecord ==
    [balance : Nat, delegation : [Operators -> Nat], stake : Nat,
     vaults : [0 .. MaxVaults - 1 -> Nat]]

ASSUME SetAssumption ==
    /\ IsFiniteSet(Accounts)
    /\ Operators \subseteq Accounts
    /\ NoVault \notin VaultRecord

ASSUME GenesisAssumption ==
    /\ InitialWallet \in [Accounts -> Nat]
    /\ InitialTreasury \in Nat

ASSUME ScaleAssumption ==
    /\ RateScale \in Nat \ {0}
    /\ RewardPrecision \in Nat \ {0}
    /\ ShareScale \in Nat \ {0}
    /\ MinPenalty \in 0 .. RateScale
    /\ MaxPenalty \in MinPenalty .. RateScale
    /\ FeeStep \in Nat
    /\ FeeCap \in 0 .. 100

ASSUME PeriodAssumption ==
    /\ Periods \subseteq Nat \ {0}
    /\ Periods # {}
    /\ LeavePeriod \in Nat
    /\ EpochWindow \in Nat
    /\ FeeResetInterval \in Nat

ASSUME LimitAssumption ==
    /\ MinOperatorStake \in Nat \ {0}
    /\ MinDelegations \subseteq Nat \ {0}
    /\ MinExpedited \in Nat
    /\ MaxConsecutiveFailures \in Nat \ {0}

ASSUME InputAssumption ==
    /\ Amounts \subseteq Nat
    /\ Outcomes \subseteq OutcomeRecord
    /\ Idle \in Outcomes
    /\ Plans \subseteq PlanRecord
    /\ AllowlistChoices \subseteq BOOLEAN

ASSUME BoundAssumption ==
    /\ MaxTime \in Nat
    /\ MaxVaults \in Nat
    /\ MaxRounds \in Nat

-----------------------------------------------------------------------------
(***************************************************************************)
(* Arithmetic.  A checked_sub is a guard; a saturating_sub is SatSub.      *)
(***************************************************************************)
SatSub(a, b) == IF a >= b THEN a - b ELSE 0
MinOf(a, b) == IF a <= b THEN a ELSE b
MaxOf(a, b) == IF a >= b THEN a ELSE b

(***************************************************************************)
(* settle_delegate_rewards: the reward a delegation has earned since its   *)
(* last settlement.  The program's fallback for a product beyond u128      *)
(* computes the same quotient from delta's quotient and remainder.         *)
(***************************************************************************)
Pending(g, d) ==
    IF del_amount[<<g, d>>] > 0 /\ cumulative_reward[g] > reward_debt[<<g, d>>]
      THEN (del_amount[<<g, d>>] * (cumulative_reward[g] - reward_debt[<<g, d>>]))
             \div RewardPrecision
      ELSE 0

\* Mutant: rewards not yet settled are left out.
PrincipalUnsettled(g, d) == del_amount[<<g, d>>]

\* The principal of a delegation once it is settled.
Principal(g, d) == del_amount[<<g, d>>] + Pending(g, d)

\* Mutant: the delegation keeps its old reward_debt.
SetPrincipalKeepDebt(g, d, p) ==
    /\ del_amount' = [del_amount EXCEPT ![<<g, d>>] = p]
    /\ UNCHANGED reward_debt

\* Mutant: a reward_debt only ever grows.
SetPrincipalMaxDebt(g, d, p) ==
    /\ del_amount' = [del_amount EXCEPT ![<<g, d>>] = p]
    /\ reward_debt' = [reward_debt EXCEPT ![<<g, d>>] = MaxOf(@, cumulative_reward[g])]

\* Settle <<g, d>> and leave it with the principal p.
SetPrincipal(g, d, p) ==
    /\ del_amount' = [del_amount EXCEPT ![<<g, d>>] = p]
    /\ reward_debt' = [reward_debt EXCEPT ![<<g, d>>] = cumulative_reward[g]]

Exists(g) == status[g] # "None"

Joined(g) == status[g] = "Joined"

\* Mutant: the allow_delegated_staking switch is not looked at.
AcceptsAlways(g) == Joined(g)

\* Whether stake may be delegated to g at all.
Accepts(g) == Joined(g) /\ settings[g].allow

Open(v) == vault[v] # NoVault

\* RedelegationRecord::get_fee_rate
FeeRate(d) ==
    LET count == IF now >= redelegation[d].fee_reset_at
                   THEN 0 ELSE redelegation[d].count
    IN  (MinOf(FeeStep * count, FeeCap) * RateScale) \div 100

\* The decaying penalty of instant_withdrawal.
PenaltyRate(v) ==
    LET elapsed == now - vault[v].created_at
        decay   == ((MaxPenalty - MinPenalty) * elapsed) \div withdrawal_period
    IN  IF elapsed >= withdrawal_period
          THEN MinPenalty
          ELSE MinOf(MaxOf(SatSub(MaxPenalty, decay), MinPenalty), MaxPenalty)

-----------------------------------------------------------------------------
(***************************************************************************)
(* SPL transfers.                                                          *)
(***************************************************************************)
WalletToPool(a, amount) ==
    /\ wallet[a] >= amount
    /\ wallet' = [wallet EXCEPT ![a] = @ - amount]
    /\ stake_pool' = stake_pool + amount
    /\ UNCHANGED treasury

PoolToTreasury(amount) ==
    /\ stake_pool >= amount
    /\ stake_pool' = stake_pool - amount
    /\ treasury' = treasury + amount
    /\ UNCHANGED wallet

PoolToWallet(a, payout, fee) ==
    /\ stake_pool >= payout + fee
    /\ stake_pool' = stake_pool - (payout + fee)
    /\ wallet' = [wallet EXCEPT ![a] = @ + payout]
    /\ treasury' = treasury + fee

(***************************************************************************)
(* Withdrawal PDAs.  Anchor's init fails on a PDA that exists, so the next *)
(* id has to be free.                                                      *)
(***************************************************************************)
VaultOf(g, period, isDelegate, isProtected) ==
    [gateway |-> g, created_at |-> now, available_at |-> now + period,
     is_delegate |-> isDelegate, is_protected |-> isProtected]

OpenVault(o, g, amount, isDelegate) ==
    LET v == <<o, next_id[o]>> IN
    /\ v \in VaultIds
    /\ ~Open(v)
    /\ vault' = [vault EXCEPT ![v] = VaultOf(g, withdrawal_period, isDelegate, FALSE)]
    /\ vault_amount' = [vault_amount EXCEPT ![v] = amount]
    /\ next_id' = [next_id EXCEPT ![o] = @ + 1]

CloseVault(v) ==
    /\ vault' = [vault EXCEPT ![v] = NoVault]
    /\ vault_amount' = [vault_amount EXCEPT ![v] = 0]
    /\ UNCHANGED next_id

(***************************************************************************)
(* leave_network and prune_gateway split what is left of the operator's    *)
(* stake: the minimum goes to a protected vault locked for the leave       *)
(* period, the excess to a plain vault, and the counter moves by one or by *)
(* two.  With nothing to protect the exit vault is an empty placeholder.   *)
(***************************************************************************)
\* Mutant: the counter forgets the second vault.
ExitIdsOne(g, amount) == 1

\* The ids that an exit takes.
ExitIds(g, amount) ==
    IF amount > MinOperatorStake THEN 2 ELSE 1

OpenExitVaults(g, amount) ==
    LET protected == MinOf(amount, MinOperatorStake)
        excess    == SatSub(amount, MinOperatorStake)
        exit      == <<g, next_id[g]>>
        other     == <<g, next_id[g] + 1>>
    IN  /\ exit \in VaultIds
        /\ ~Open(exit)
        /\ excess > 0 => other \in VaultIds /\ ~Open(other)
        /\ vault' = [v \in VaultIds |->
             CASE v = exit -> VaultOf(g, IF protected > 0 THEN LeavePeriod ELSE 0,
                                      FALSE, protected > 0)
               [] v = other /\ excess > 0 ->
                    VaultOf(g, withdrawal_period, FALSE, FALSE)
               [] OTHER -> vault[v]]
        /\ vault_amount' = [v \in VaultIds |->
             CASE v = exit -> protected
               [] v = other /\ excess > 0 -> excess
               [] OTHER -> vault_amount[v]]
        /\ next_id' = [next_id EXCEPT ![g] = @ + ExitIds(g, amount)]

-----------------------------------------------------------------------------
(***************************************************************************)
(* Operators.                                                              *)
(***************************************************************************)
JoinNetwork(g, stake, allow, min) ==
    /\ ~Exists(g)
    /\ stake >= MinOperatorStake
    /\ WalletToPool(g, stake)
    /\ status' = [status EXCEPT ![g] = "Joined"]
    /\ operator_stake' = [operator_stake EXCEPT ![g] = stake]
    /\ total_delegated_stake' = [total_delegated_stake EXCEPT ![g] = 0]
    /\ cumulative_reward' = [cumulative_reward EXCEPT ![g] = 0]
    /\ settings' = [settings EXCEPT ![g] =
         [allow |-> allow, disabled_at |-> None, min_delegation |-> min,
          allowlist |-> FALSE]]
    /\ failed_consecutive' = [failed_consecutive EXCEPT ![g] = 0]
    /\ leave_timestamp' = [leave_timestamp EXCEPT ![g] = None]
    /\ total_staked' = total_staked + stake
    /\ UNCHANGED <<total_delegated, total_withdrawn, clockVars,
                   delegationVars, vaultVars, otherVars>>

IncreaseOperatorStake(g, amount) ==
    /\ amount > 0
    /\ Joined(g)
    /\ WalletToPool(g, amount)
    /\ operator_stake' = [operator_stake EXCEPT ![g] = @ + amount]
    /\ total_staked' = total_staked + amount
    /\ UNCHANGED <<total_delegated, total_withdrawn, total_delegated_stake,
                   cumulative_reward, clockVars, gatewayVars,
                   delegationVars, vaultVars, otherVars>>

DecreaseOperatorStake(g, amount) ==
    LET remaining == operator_stake[g] - amount IN
    /\ Exists(g)
    /\ amount > 0
    /\ remaining >= 0
    /\ remaining >= MinOperatorStake \/ remaining = 0
    /\ remaining = 0 => status[g] = "Leaving"
    /\ operator_stake' = [operator_stake EXCEPT ![g] = remaining]
    /\ OpenVault(g, g, amount, FALSE)
    /\ total_staked' = SatSub(total_staked, amount)
    /\ total_withdrawn' = total_withdrawn + amount
    /\ UNCHANGED <<total_delegated, total_delegated_stake, cumulative_reward,
                   clockVars, tokenVars, gatewayVars, delegationVars, otherVars>>

\* Mutant: the supply counter keeps the stake that left.
MarkLeavingKeepTotal(g) ==
    /\ status' = [status EXCEPT ![g] = "Leaving"]
    /\ leave_timestamp' = [leave_timestamp EXCEPT ![g] = now]
    /\ operator_stake' = [operator_stake EXCEPT ![g] = 0]
    /\ UNCHANGED total_staked

\* The part of leave_network and prune_gateway that marks the gateway.
MarkLeaving(g) ==
    /\ status' = [status EXCEPT ![g] = "Leaving"]
    /\ leave_timestamp' = [leave_timestamp EXCEPT ![g] = now]
    /\ operator_stake' = [operator_stake EXCEPT ![g] = 0]
    /\ total_staked' = SatSub(total_staked, operator_stake[g])

LeaveNetwork(g) ==
    /\ Joined(g)
    /\ MarkLeaving(g)
    /\ OpenExitVaults(g, operator_stake[g])
    /\ total_withdrawn' = total_withdrawn + operator_stake[g]
    /\ UNCHANGED <<total_delegated, total_delegated_stake, cumulative_reward,
                   settings, failed_consecutive, clockVars, tokenVars,
                   delegationVars, otherVars>>

PruneGateway(g) ==
    LET slash == MinOf(MinOperatorStake, operator_stake[g])
        rest  == SatSub(operator_stake[g], slash)
    IN  /\ Joined(g)
        /\ failed_consecutive[g] >= MaxConsecutiveFailures
        /\ MarkLeaving(g)
        /\ OpenExitVaults(g, rest)
        /\ PoolToTreasury(slash)
        /\ total_withdrawn' = total_withdrawn + rest
        /\ UNCHANGED <<total_delegated, total_delegated_stake,
                       cumulative_reward, settings, failed_consecutive,
                       clockVars, delegationVars, otherVars>>

\* Mutant: the Gateway PDA may go as soon as the operator has left.
FinalizeAtOnce(g) == leave_timestamp[g] + EpochWindow

\* finalize_gone_expiry
FinalizeExpiry(g) == leave_timestamp[g] + LeavePeriod + EpochWindow

\* Mutant: the delegates are not looked at.
MayFinalizeAny(g) == status[g] = "Leaving" /\ now >= FinalizeExpiry(g)

MayFinalize(g) ==
    /\ status[g] = "Leaving"
    /\ now >= FinalizeExpiry(g)
    /\ total_delegated_stake[g] = 0

FinalizeGone(g) ==
    /\ MayFinalize(g)
    /\ status' = [status EXCEPT ![g] = "None"]
    /\ operator_stake' = [operator_stake EXCEPT ![g] = 0]
    /\ cumulative_reward' = [cumulative_reward EXCEPT ![g] = 0]
    /\ failed_consecutive' = [failed_consecutive EXCEPT ![g] = 0]
    /\ leave_timestamp' = [leave_timestamp EXCEPT ![g] = None]
    /\ settings' = [settings EXCEPT ![g] = BlankSettings]
    /\ UNCHANGED <<total_delegated_stake, clockVars, tokenVars, counterVars,
                   delegationVars, vaultVars, otherVars>>

(***************************************************************************)
(* update_gateway_settings, the two fields that carry stake: switching     *)
(* delegation off starts the cooldown; switching it on again needs every   *)
(* delegate gone and the cooldown over.                                    *)
(***************************************************************************)
MayReenable(g) ==
    /\ total_delegated_stake[g] = 0
    /\ settings[g].disabled_at # None =>
         now >= settings[g].disabled_at + withdrawal_period

UpdatedSettings(g, allow, min) ==
    LET was == settings[g].allow IN
    [allow |-> allow,
     disabled_at |-> IF allow /\ ~was THEN None
                     ELSE IF ~allow /\ was THEN now
                     ELSE settings[g].disabled_at,
     min_delegation |-> min,
     allowlist |-> settings[g].allowlist]

UpdateGatewaySettings(g, allow, min) ==
    /\ Joined(g)
    /\ allow /\ ~settings[g].allow => MayReenable(g)
    /\ settings' = [settings EXCEPT ![g] = UpdatedSettings(g, allow, min)]
    /\ UNCHANGED <<status, failed_consecutive, leave_timestamp, clockVars,
                   tokenVars, counterVars, stakeVars, delegationVars,
                   vaultVars, otherVars>>

AllowDelegate(g, d) ==
    /\ Exists(g)
    /\ <<g, d>> \notin allowlist
    /\ allowlist' = allowlist \cup {<<g, d>>}
    /\ UNCHANGED <<withdrawal_period, redelegation, clockVars, tokenVars,
                   counterVars, stakeVars, gatewayVars, delegationVars,
                   vaultVars>>

DisallowDelegate(g, d) ==
    /\ Exists(g)
    /\ <<g, d>> \in allowlist
    /\ allowlist' = allowlist \ {<<g, d>>}
    /\ UNCHANGED <<withdrawal_period, redelegation, clockVars, tokenVars,
                   counterVars, stakeVars, gatewayVars, delegationVars,
                   vaultVars>>

SetAllowlistEnabled(g, enabled) ==
    /\ Exists(g)
    /\ settings' = [settings EXCEPT ![g].allowlist = enabled]
    /\ UNCHANGED <<status, failed_consecutive, leave_timestamp, clockVars,
                   tokenVars, counterVars, stakeVars, delegationVars,
                   vaultVars, otherVars>>

-----------------------------------------------------------------------------
(***************************************************************************)
(* Delegators.                                                             *)
(***************************************************************************)

\* Mutant: nobody looks at the allowlist.
MayEnterAlways(g, d) == TRUE

\* The allowlist lets in those it names and those who hold stake already.
MayEnter(g, d) ==
    settings[g].allowlist => <<g, d>> \in allowlist \/ del_amount[<<g, d>>] > 0

DelegateStake(d, g, amount) ==
    LET settled == Pending(g, d) IN
    /\ amount > 0
    /\ Accepts(g)
    /\ del_amount[<<g, d>>] = 0 => amount >= settings[g].min_delegation
    /\ d # g
    /\ MayEnter(g, d)
    /\ WalletToPool(d, amount)
    /\ delegations' = delegations \cup {<<g, d>>}
    /\ SetPrincipal(g, d, Principal(g, d) + amount)
    /\ total_delegated_stake' =
         [total_delegated_stake EXCEPT ![g] = @ + settled + amount]
    /\ total_delegated' = total_delegated + settled + amount
    /\ UNCHANGED <<total_staked, total_withdrawn, operator_stake,
                   cumulative_reward, clockVars, gatewayVars, vaultVars,
                   otherVars>>

\* Settle a delegation and move part of its principal to a new vault.
DelegationToVault(g, d, amount) ==
    LET settled == Pending(g, d) IN
    /\ SetPrincipal(g, d, Principal(g, d) - amount)
    /\ total_delegated_stake' =
         [total_delegated_stake EXCEPT ![g] = SatSub(@ + settled, amount)]
    /\ total_delegated' = SatSub(total_delegated + settled, amount)
    /\ total_withdrawn' = total_withdrawn + amount
    /\ OpenVault(d, g, amount, TRUE)
    /\ UNCHANGED <<delegations, total_staked, operator_stake,
                   cumulative_reward, clockVars, tokenVars, gatewayVars,
                   otherVars>>

DecreaseDelegateStake(d, g, amount) ==
    LET remaining == Principal(g, d) - amount IN
    /\ Exists(g)
    /\ <<g, d>> \in delegations
    /\ amount > 0
    /\ remaining >= 0
    /\ remaining = 0 \/ remaining >= settings[g].min_delegation
    /\ DelegationToVault(g, d, amount)

ClaimDelegateFromLeavingGateway(g, d) ==
    /\ status[g] = "Leaving"
    /\ <<g, d>> \in delegations
    /\ del_amount[<<g, d>>] > 0
    /\ DelegationToVault(g, d, Principal(g, d))

ClaimDelegateFromDisabledGateway(g, d) ==
    /\ Exists(g)
    /\ ~settings[g].allow
    /\ <<g, d>> \in delegations
    /\ del_amount[<<g, d>>] > 0
    /\ DelegationToVault(g, d, Principal(g, d))

CloseEmptyDelegation(g, d) ==
    /\ Exists(g)
    /\ <<g, d>> \in delegations
    /\ del_amount[<<g, d>>] = 0
    /\ delegations' = delegations \ {<<g, d>>}
    /\ reward_debt' = [reward_debt EXCEPT ![<<g, d>>] = 0]
    /\ UNCHANGED <<del_amount, clockVars, tokenVars, counterVars, stakeVars,
                   gatewayVars, vaultVars, otherVars>>

CompoundDelegationRewards(g, d) ==
    LET settled == Pending(g, d) IN
    /\ Exists(g)
    /\ <<g, d>> \in delegations
    /\ SetPrincipal(g, d, Principal(g, d))
    /\ total_delegated_stake' =
         [total_delegated_stake EXCEPT ![g] = @ + settled]
    /\ total_delegated' = total_delegated + settled
    /\ UNCHANGED <<delegations, total_staked, total_withdrawn, operator_stake,
                   cumulative_reward, clockVars, tokenVars, gatewayVars,
                   vaultVars, otherVars>>

(***************************************************************************)
(* redelegate_stake settles both delegations, takes the fee out of the     *)
(* moved amount and charges more for the next move within the window.      *)
(***************************************************************************)
RedelegateStake(d, g, h, amount) ==
    LET settledG  == Pending(g, d)
        settledH  == Pending(h, d)
        remaining == Principal(g, d) - amount
        fee       == (amount * FeeRate(d)) \div RateScale
        net       == SatSub(amount, fee)
    IN  /\ amount > 0
        /\ g # h
        /\ Exists(g)
        /\ <<g, d>> \in delegations
        /\ Accepts(h)
        /\ d # h
        /\ MayEnter(h, d)
        /\ remaining >= 0
        /\ remaining = 0 \/ remaining >= settings[g].min_delegation
        /\ net > 0
        /\ Principal(h, d) = 0 => net >= settings[h].min_delegation
        /\ delegations' = delegations \cup {<<h, d>>}
        /\ del_amount' = [del_amount EXCEPT
             ![<<g, d>>] = remaining, ![<<h, d>>] = Principal(h, d) + net]
        /\ reward_debt' = [reward_debt EXCEPT
             ![<<g, d>>] = cumulative_reward[g], ![<<h, d>>] = cumulative_reward[h]]
        /\ total_delegated_stake' = [total_delegated_stake EXCEPT
             ![g] = SatSub(@ + settledG, amount), ![h] = @ + settledH + net]
        /\ PoolToTreasury(fee)
        /\ total_delegated' = SatSub(total_delegated + settledG + settledH, fee)
        /\ redelegation' = [redelegation EXCEPT ![d] =
             [count |-> IF now >= @.fee_reset_at THEN 1 ELSE @.count + 1,
              fee_reset_at |-> now + FeeResetInterval]]
        /\ UNCHANGED <<withdrawal_period, allowlist, total_staked,
                       total_withdrawn, operator_stake, cumulative_reward,
                       clockVars, gatewayVars, vaultVars>>

-----------------------------------------------------------------------------
(***************************************************************************)
(* Withdrawal vaults.                                                      *)
(***************************************************************************)
ClaimWithdrawal(v) ==
    /\ Open(v)
    /\ now >= vault[v].available_at
    /\ PoolToWallet(v[1], vault_amount[v], 0)
    /\ CloseVault(v)
    /\ total_withdrawn' = SatSub(total_withdrawn, vault_amount[v])
    /\ UNCHANGED <<total_staked, total_delegated, clockVars, stakeVars,
                   gatewayVars, delegationVars, otherVars>>

InstantWithdrawal(v) ==
    LET amount == vault_amount[v]
        fee    == (amount * PenaltyRate(v)) \div RateScale
    IN  /\ Open(v)
        /\ ~vault[v].is_protected
        /\ amount >= MinExpedited
        /\ PoolToWallet(v[1], SatSub(amount, fee), fee)
        /\ CloseVault(v)
        /\ total_withdrawn' = SatSub(total_withdrawn, amount)
        /\ UNCHANGED <<total_staked, total_delegated, clockVars, stakeVars,
                       gatewayVars, delegationVars, otherVars>>

CloseDrainedWithdrawal(v) ==
    /\ Open(v)
    /\ vault_amount[v] = 0
    /\ CloseVault(v)
    /\ UNCHANGED <<clockVars, tokenVars, counterVars, stakeVars, gatewayVars,
                   delegationVars, otherVars>>

(***************************************************************************)
(* cancel_withdrawal returns a vault to the stake it came from, on a       *)
(* gateway that is Joined now: it may have left and joined again since.    *)
(***************************************************************************)
CancelOperatorWithdrawal(v) ==
    LET g == vault[v].gateway IN
    /\ Open(v)
    /\ ~vault[v].is_delegate
    /\ Joined(g)
    /\ operator_stake' = [operator_stake EXCEPT ![g] = @ + vault_amount[v]]
    /\ total_staked' = total_staked + vault_amount[v]
    /\ total_withdrawn' = SatSub(total_withdrawn, vault_amount[v])
    /\ CloseVault(v)
    /\ UNCHANGED <<total_delegated, total_delegated_stake, cumulative_reward,
                   clockVars, tokenVars, gatewayVars, delegationVars,
                   otherVars>>

CancelDelegateWithdrawal(v) ==
    LET g       == vault[v].gateway
        d       == v[1]
        settled == Pending(g, d)
        amount  == vault_amount[v]
    IN  /\ Open(v)
        /\ vault[v].is_delegate
        /\ Accepts(g)
        /\ <<g, d>> \in delegations
        /\ SetPrincipal(g, d, Principal(g, d) + amount)
        /\ total_delegated_stake' =
             [total_delegated_stake EXCEPT ![g] = @ + settled + amount]
        /\ total_delegated' = total_delegated + settled + amount
        /\ total_withdrawn' = SatSub(total_withdrawn, amount)
        /\ CloseVault(v)
        /\ UNCHANGED <<delegations, total_staked, operator_stake,
                       cumulative_reward, clockVars, tokenVars, gatewayVars,
                       otherVars>>

-----------------------------------------------------------------------------
(***************************************************************************)
(* Payments out of stake, for names bought through ario-arns.              *)
(***************************************************************************)
DeductDelegationForPayment(d, g, amount) ==
    LET settled   == Pending(g, d)
        remaining == Principal(g, d) - amount
    IN  /\ amount > 0
        /\ Joined(g)
        /\ <<g, d>> \in delegations
        /\ remaining >= 0
        /\ remaining = 0 \/ remaining >= settings[g].min_delegation
        /\ total_delegated_stake[g] + settled >= amount
        /\ SetPrincipal(g, d, remaining)
        /\ total_delegated_stake' =
             [total_delegated_stake EXCEPT ![g] = @ + settled - amount]
        /\ PoolToTreasury(amount)
        /\ total_delegated' = SatSub(total_delegated + settled, amount)
        /\ UNCHANGED <<delegations, total_staked, total_withdrawn,
                       operator_stake, cumulative_reward, clockVars,
                       gatewayVars, vaultVars, otherVars>>

DeductOperatorStakeForPayment(g, amount) ==
    LET remaining == operator_stake[g] - amount IN
    /\ amount > 0
    /\ Joined(g)
    /\ remaining >= MinOperatorStake
    /\ operator_stake' = [operator_stake EXCEPT ![g] = remaining]
    /\ PoolToTreasury(amount)
    /\ total_staked' = SatSub(total_staked, amount)
    /\ UNCHANGED <<total_delegated, total_withdrawn, total_delegated_stake,
                   cumulative_reward, clockVars, gatewayVars, delegationVars,
                   vaultVars, otherVars>>

\* Mutant: the vault's balance is not checked.
DeductWithdrawalUnchecked(v, amount) ==
    /\ amount > 0
    /\ Open(v)
    /\ ~vault[v].is_protected
    /\ vault_amount' = [vault_amount EXCEPT ![v] = @ - amount]
    /\ PoolToTreasury(amount)
    /\ total_withdrawn' = SatSub(total_withdrawn, amount)
    /\ UNCHANGED <<vault, next_id, total_staked, total_delegated, clockVars,
                   stakeVars, gatewayVars, delegationVars, otherVars>>

DeductWithdrawalForPayment(v, amount) ==
    /\ amount > 0
    /\ Open(v)
    /\ ~vault[v].is_protected
    /\ vault_amount[v] >= amount
    /\ vault_amount' = [vault_amount EXCEPT ![v] = @ - amount]
    /\ PoolToTreasury(amount)
    /\ total_withdrawn' = SatSub(total_withdrawn, amount)
    /\ UNCHANGED <<vault, next_id, total_staked, total_delegated, clockVars,
                   stakeVars, gatewayVars, delegationVars, otherVars>>

(***************************************************************************)
(* pay_from_funding_plan.  The sources touch different accounts (one       *)
(* source per gateway, and what is taken from one vault or from the wallet *)
(* adds up), so they apply together.  A delegation left under its          *)
(* gateway's minimum is emptied and the residue goes to a new vault; the   *)
(* new vaults take the payer's next ids in the order the plan names the    *)
(* delegations, which is any order.                                        *)
(***************************************************************************)
MAX_FUNDING_SOURCES == 5
MAX_DELEGATION_SOURCES == 3

PlanDelegations(p) == {g \in Operators : p.delegation[g] > 0}
PlanVaults(p) == {i \in 0 .. MaxVaults - 1 : p.vaults[i] > 0}
PlanSources(p) ==
    Cardinality(PlanDelegations(p)) + Cardinality(PlanVaults(p))
      + (IF p.balance > 0 THEN 1 ELSE 0) + (IF p.stake > 0 THEN 1 ELSE 0)

\* What settling adds to g, what stays with g and what is left over.
PlanSettled(a, p, g) == IF p.delegation[g] > 0 THEN Pending(g, a) ELSE 0
PlanPost(a, p, g) ==
    del_amount[<<g, a>>] + PlanSettled(a, p, g) - p.delegation[g]

\* Mutant: what is left under the minimum stays where it is.
PlanResidueNone(a, p, g) == 0

PlanResidue(a, p, g) ==
    IF /\ p.delegation[g] > 0
       /\ PlanPost(a, p, g) < settings[g].min_delegation
      THEN PlanPost(a, p, g) ELSE 0
PlanResidues(a, p) == {g \in Operators : PlanResidue(a, p, g) > 0}

\* The ids that the plan's residue vaults take.
PlanVaultIds(a, p) == Cardinality(PlanResidues(a, p))

\* The sources' own conditions.
PlanAllowed(a, p) ==
    /\ PlanSources(p) \in 1 .. MAX_FUNDING_SOURCES
    /\ Cardinality(PlanDelegations(p)) <= MAX_DELEGATION_SOURCES
    /\ wallet[a] >= p.balance
    /\ \A g \in PlanDelegations(p) :
         /\ Joined(g)
         /\ <<g, a>> \in delegations
         /\ PlanPost(a, p, g) >= 0
         /\ total_delegated_stake[g] + PlanSettled(a, p, g)
              >= p.delegation[g] + PlanResidue(a, p, g)
    /\ p.stake > 0 =>
         /\ a \in Operators
         /\ a \notin PlanDelegations(p)
         /\ Joined(a)
         /\ operator_stake[a] - p.stake >= MinOperatorStake
    /\ \A i \in PlanVaults(p) : Open(<<a, i>>) /\ vault_amount[<<a, i>>] >= p.vaults[i]

\* slot[g] is the id of the new vault for the residue of g.
PayFromFundingPlan(a, p, slot) ==
    LET R       == PlanResidues(a, p)
        settled == SumFunctionOnSet([g \in Operators |-> PlanSettled(a, p, g)], Operators)
        paid    == SumFunctionOnSet(p.delegation, Operators)
        residue == SumFunctionOnSet([g \in Operators |-> PlanResidue(a, p, g)], Operators)
        drained == SumFunctionOnSet(p.vaults, 0 .. MaxVaults - 1)
        fromPool == paid + p.stake + drained
    IN  /\ PlanAllowed(a, p)
        /\ \A g \in R : <<a, slot[g]>> \in VaultIds /\ ~Open(<<a, slot[g]>>)
        /\ stake_pool >= fromPool
        /\ wallet' = [wallet EXCEPT ![a] = @ - p.balance]
        /\ stake_pool' = stake_pool - fromPool
        /\ treasury' = treasury + fromPool + p.balance
        /\ del_amount' = [q \in Pairs |->
             IF q[2] = a /\ p.delegation[q[1]] > 0
               THEN PlanPost(a, p, q[1]) - PlanResidue(a, p, q[1])
               ELSE del_amount[q]]
        /\ reward_debt' = [q \in Pairs |->
             IF q[2] = a /\ p.delegation[q[1]] > 0
               THEN cumulative_reward[q[1]] ELSE reward_debt[q]]
        /\ total_delegated_stake' = [g \in Operators |->
             total_delegated_stake[g] + PlanSettled(a, p, g)
               - p.delegation[g] - PlanResidue(a, p, g)]
        /\ operator_stake' = [g \in Operators |->
             IF g = a THEN operator_stake[g] - p.stake ELSE operator_stake[g]]
        /\ vault' = [v \in VaultIds |->
             IF \E g \in R : v = <<a, slot[g]>>
               THEN VaultOf(CHOOSE g \in R : v = <<a, slot[g]>>,
                            withdrawal_period, TRUE, FALSE)
               ELSE vault[v]]
        /\ vault_amount' = [v \in VaultIds |->
             IF \E g \in R : v = <<a, slot[g]>>
               THEN PlanResidue(a, p, CHOOSE g \in R : v = <<a, slot[g]>>)
             ELSE IF v[1] = a THEN vault_amount[v] - p.vaults[v[2]]
             ELSE vault_amount[v]]
        /\ next_id' = [next_id EXCEPT ![a] = @ + PlanVaultIds(a, p)]
        /\ total_delegated' = SatSub(SatSub(total_delegated + settled, paid), residue)
        /\ total_staked' = SatSub(total_staked, p.stake)
        /\ total_withdrawn' = SatSub(total_withdrawn, drained) + residue
        /\ UNCHANGED <<delegations, cumulative_reward, clockVars, gatewayVars,
                       otherVars>>

\* The ways to number the residue vaults.
PlanSlots(a, p) ==
    LET R == PlanResidues(a, p)
        ids == next_id[a] .. next_id[a] + Cardinality(R) - 1
    IN  {slot \in [R -> ids] : \A g, h \in R : slot[g] = slot[h] => g = h}

-----------------------------------------------------------------------------
(***************************************************************************)
(* distribute_epoch, one batch.  The transfer is capped at what the        *)
(* treasury holds and every reward is scaled to it, rounded down.  The     *)
(* delegates' share raises the gateway's accumulator; when no delegated    *)
(* stake is left to receive it, it stays in the treasury.                  *)
(***************************************************************************)
BatchTotal(o) == SumFunctionOnSet([g \in Operators |-> o[g].reward], Operators)
Transferred(o) == MinOf(BatchTotal(o), treasury)

\* Mutant: the gateway is paid in full whatever the treasury held.
ScaledFull(o, g) == o[g].reward

Scaled(o, g) ==
    IF o[g].reward > 0
      THEN (o[g].reward * Transferred(o)) \div BatchTotal(o) ELSE 0

\* split_scaled_reward
DelegatePool(o, g) ==
    IF o[g].at_tally THEN (Scaled(o, g) * o[g].share) \div ShareScale ELSE 0

OperatorReward(o, g) == SatSub(Scaled(o, g), DelegatePool(o, g))

\* Mutant: the share of delegates that are gone is paid into the pool.
OrphanedNever(o, g) == 0

Orphaned(o, g) == IF total_delegated_stake[g] = 0 THEN DelegatePool(o, g) ELSE 0
Increment(o, g) ==
    IF total_delegated_stake[g] > 0
      THEN (DelegatePool(o, g) * RewardPrecision) \div total_delegated_stake[g]
      ELSE 0

DistributeEpoch(o) ==
    LET orphaned == SumFunctionOnSet([g \in Operators |-> Orphaned(o, g)], Operators)
        earned   == SumFunctionOnSet([g \in Operators |-> OperatorReward(o, g)], Operators)
        paid     == SatSub(Transferred(o), orphaned)
    IN  /\ rounds < MaxRounds
        /\ \A g \in Operators : o[g] # Idle => Joined(g)
        /\ operator_stake' = [g \in Operators |->
             operator_stake[g] + OperatorReward(o, g)]
        /\ cumulative_reward' = [g \in Operators |->
             cumulative_reward[g] + Increment(o, g)]
        /\ failed_consecutive' = [g \in Operators |->
             IF ~o[g].eligible THEN failed_consecutive[g]
             ELSE IF o[g].failed THEN failed_consecutive[g] + 1 ELSE 0]
        /\ stake_pool' = stake_pool + paid
        /\ treasury' = treasury - paid
        /\ total_staked' = total_staked + earned
        /\ rounds' = rounds + 1
        /\ UNCHANGED <<now, wallet, total_delegated, total_withdrawn,
                       total_delegated_stake, status, settings,
                       leave_timestamp, delegationVars, vaultVars, otherVars>>

AdminSetWithdrawalPeriod(period) ==
    /\ withdrawal_period' = period
    /\ UNCHANGED <<allowlist, redelegation, clockVars, tokenVars, counterVars,
                   stakeVars, gatewayVars, delegationVars, vaultVars>>

\* The cluster's clock advances.
Tick ==
    /\ now < MaxTime
    /\ now' = now + 1
    /\ UNCHANGED <<rounds, tokenVars, counterVars, stakeVars, gatewayVars,
                   delegationVars, vaultVars, otherVars>>

-----------------------------------------------------------------------------
\* A fresh network: the program's initialize, no gateway and no stake.
Init ==
    /\ now = 0
    /\ rounds = 0
    /\ wallet = InitialWallet
    /\ stake_pool = 0
    /\ treasury = InitialTreasury
    /\ total_staked = 0
    /\ total_delegated = 0
    /\ total_withdrawn = 0
    /\ withdrawal_period \in Periods
    /\ status = [g \in Operators |-> "None"]
    /\ operator_stake = [g \in Operators |-> 0]
    /\ total_delegated_stake = [g \in Operators |-> 0]
    /\ cumulative_reward = [g \in Operators |-> 0]
    /\ settings = [g \in Operators |-> BlankSettings]
    /\ failed_consecutive = [g \in Operators |-> 0]
    /\ leave_timestamp = [g \in Operators |-> None]
    /\ delegations = {}
    /\ del_amount = [q \in Pairs |-> 0]
    /\ reward_debt = [q \in Pairs |-> 0]
    /\ allowlist = {}
    /\ vault = [v \in VaultIds |-> NoVault]
    /\ vault_amount = [v \in VaultIds |-> 0]
    /\ next_id = [a \in Accounts |-> 0]
    /\ redelegation = [a \in Accounts |-> [count |-> 0, fee_reset_at |-> 0]]

OperatorNext ==
    \E g \in Operators :
      \/ \E stake \in Amounts, allow \in BOOLEAN, min \in MinDelegations :
           JoinNetwork(g, stake, allow, min)
      \/ \E amount \in Amounts :
           \/ IncreaseOperatorStake(g, amount)
           \/ DecreaseOperatorStake(g, amount)
           \/ DeductOperatorStakeForPayment(g, amount)
      \/ LeaveNetwork(g)
      \/ PruneGateway(g)
      \/ FinalizeGone(g)
      \/ \E allow \in BOOLEAN, min \in MinDelegations :
           UpdateGatewaySettings(g, allow, min)
      \/ \E enabled \in AllowlistChoices : SetAllowlistEnabled(g, enabled)

DelegatorNext ==
    \E g \in Operators, d \in Accounts :
      \/ \E amount \in Amounts :
           \/ DelegateStake(d, g, amount)
           \/ DecreaseDelegateStake(d, g, amount)
           \/ DeductDelegationForPayment(d, g, amount)
           \/ \E h \in Operators : RedelegateStake(d, g, h, amount)
      \/ ClaimDelegateFromLeavingGateway(g, d)
      \/ ClaimDelegateFromDisabledGateway(g, d)
      \/ CloseEmptyDelegation(g, d)
      \/ CompoundDelegationRewards(g, d)
      \/ TRUE \in AllowlistChoices /\ AllowDelegate(g, d)
      \/ DisallowDelegate(g, d)

VaultNext ==
    \E v \in VaultIds :
      \/ ClaimWithdrawal(v)
      \/ InstantWithdrawal(v)
      \/ CloseDrainedWithdrawal(v)
      \/ CancelOperatorWithdrawal(v)
      \/ CancelDelegateWithdrawal(v)
      \/ \E amount \in Amounts : DeductWithdrawalForPayment(v, amount)

PlanNext ==
    \E a \in Accounts, p \in Plans :
      \E slot \in PlanSlots(a, p) : PayFromFundingPlan(a, p, slot)

Next ==
    \/ OperatorNext
    \/ DelegatorNext
    \/ VaultNext
    \/ PlanNext
    \/ \E o \in [Operators -> Outcomes] : DistributeEpoch(o)
    \/ \E period \in Periods : AdminSetWithdrawalPeriod(period)
    \/ Tick

Spec == Init /\ [][Next]_vars
-----------------------------------------------------------------------------
(***************************************************************************)
(* Totals of the ledger.                                                   *)
(***************************************************************************)
Total(f, S) == SumFunctionOnSet(f, S)

DelegatedTo(g) == Total([d \in Accounts |-> del_amount[<<g, d>>]], Accounts)
PendingOf(g) == Total([d \in Accounts |-> Pending(g, d)], Accounts)
AllPending == Total([g \in Operators |-> PendingOf(g)], Operators)

\* What the stake pool owes: stake, settled delegations, vaults, rewards due.
Claims ==
    Total(operator_stake, Operators) + Total(total_delegated_stake, Operators)
      + Total(vault_amount, VaultIds) + AllPending

(***************************************************************************)
(* The rewards due before they are rounded down, in units of one           *)
(* RewardPrecision-th of a token.  A fraction that is left over in one     *)
(* distribution counts in the next one.                                    *)
(***************************************************************************)
OwedOf(principal, level, debt) == IF level > debt THEN principal * (level - debt) ELSE 0
Owed(g, d) == OwedOf(del_amount[<<g, d>>], cumulative_reward[g], reward_debt[<<g, d>>])
OwedBy(g) == Total([d \in Accounts |-> Owed(g, d)], Accounts)
AllOwed == Total([g \in Operators |-> OwedBy(g)], Operators)

ExactClaims ==
    RewardPrecision * (Total(operator_stake, Operators)
                         + Total(total_delegated_stake, Operators)
                         + Total(vault_amount, VaultIds))
      + AllOwed

\* All that one account could take out of the ledger, its wallet included.
Wealth(a) ==
    wallet[a]
      + (IF a \in Operators THEN operator_stake[a] ELSE 0)
      + Total([g \in Operators |-> Principal(g, a)], Operators)
      + Total([i \in 0 .. MaxVaults - 1 |-> vault_amount[<<a, i>>]], 0 .. MaxVaults - 1)

-----------------------------------------------------------------------------
(***************************************************************************)
(* Every variable keeps its type: balances, counters, stakes and vaults    *)
(* never go below zero, the clock and the batches stay within their bounds *)
(***************************************************************************)
ClockTypes ==
    /\ now \in 0 .. MaxTime
    /\ rounds \in 0 .. MaxRounds
    /\ withdrawal_period \in Periods

TokenTypes ==
    /\ wallet \in [Accounts -> Nat]
    /\ stake_pool \in Nat
    /\ treasury \in Nat

CounterTypes ==
    /\ total_staked \in Nat
    /\ total_delegated \in Nat
    /\ total_withdrawn \in Nat

StakeTypes ==
    /\ operator_stake \in [Operators -> Nat]
    /\ total_delegated_stake \in [Operators -> Nat]
    /\ cumulative_reward \in [Operators -> Nat]

GatewayTypes ==
    /\ status \in [Operators -> {"None", "Joined", "Leaving"}]
    /\ settings \in [Operators -> SettingsRecord]
    /\ failed_consecutive \in [Operators -> Nat]
    /\ leave_timestamp \in [Operators -> Nat \cup {None}]

DelegationTypes ==
    /\ delegations \subseteq Pairs
    /\ del_amount \in [Pairs -> Nat]
    /\ reward_debt \in [Pairs -> Nat]
    /\ allowlist \subseteq Pairs
    /\ redelegation \in [Accounts -> [count : Nat, fee_reset_at : Nat]]

VaultTypes ==
    /\ vault \in [VaultIds -> VaultRecord \cup {NoVault}]
    /\ vault_amount \in [VaultIds -> Nat]
    /\ next_id \in [Accounts -> Nat]

TypeOK ==
    /\ ClockTypes
    /\ TokenTypes
    /\ CounterTypes
    /\ StakeTypes
    /\ GatewayTypes
    /\ DelegationTypes
    /\ VaultTypes

(***************************************************************************)
(* Invariant 2 of INVARIANTS.md: the supply counters of GatewaySettings    *)
(* equal the sums over the accounts they stand for, after any sequence of  *)
(* instructions.  Each handler updates them by hand, several with a        *)
(* saturating_sub that would hide a mistake.                               *)
(***************************************************************************)
SupplyCounters ==
    /\ total_staked = Total(operator_stake, Operators)
    /\ total_delegated = Total(total_delegated_stake, Operators)
    /\ total_withdrawn = Total(vault_amount, VaultIds)

(***************************************************************************)
(* Invariant 4 of INVARIANTS.md: Gateway.total_delegated_stake is the sum  *)
(* of the gateway's Delegation.amount.  finalize_gone, the re-enable gate  *)
(* and the reward accumulator trust the counter without seeing the         *)
(* delegations.                                                            *)
(***************************************************************************)
GatewayCounters ==
    \A g \in Operators : total_delegated_stake[g] = DelegatedTo(g)

(***************************************************************************)
(* Invariant 1 of INVARIANTS.md, as far as rounding allows: the pool's     *)
(* tokens cover every claim on it, the unsettled rewards of every          *)
(* delegation included, so the last one out is paid in full.               *)
(***************************************************************************)
PoolSolvent == stake_pool >= Claims

(***************************************************************************)
(* A Joined gateway holds at least the minimum stake: no sequence of       *)
(* withdrawals, payments, leaving, pruning and rejoining gets under it.    *)
(* Any other gateway holds none.                                           *)
(***************************************************************************)
StakeFloor ==
    \A g \in Operators :
      IF Joined(g) THEN operator_stake[g] >= MinOperatorStake
                   ELSE operator_stake[g] = 0

(***************************************************************************)
(* finalize_gone strands nobody: a delegation with principal always has    *)
(* the Gateway PDA that every way of taking the principal out needs.       *)
(***************************************************************************)
NoStrandedDelegation ==
    \A q \in Pairs : del_amount[q] > 0 => Exists(q[1]) /\ q \in delegations

(***************************************************************************)
(* The next withdrawal id of an account is free, so Anchor's init of the   *)
(* next Withdrawal PDA cannot fail and lock the account's stake in.        *)
(***************************************************************************)
NextIdFree ==
    \A v \in VaultIds : Open(v) => v[2] < next_id[v[1]]

(***************************************************************************)
(* No delegation with principal has a reward_debt ahead of its gateway's   *)
(* accumulator, so it earns from the next distribution on.  The debt of an *)
(* emptied Delegation PDA outlives finalize_gone, and the gateway that     *)
(* joins again starts from zero.                                           *)
(***************************************************************************)
DebtNotAhead ==
    \A q \in Pairs : del_amount[q] > 0 => reward_debt[q] <= cumulative_reward[q[1]]

(***************************************************************************)
(* Only distribute_epoch makes anyone richer.  No other instruction, by    *)
(* anyone, raises what an account could take out: principal that returns   *)
(* from a vault, arrives by redelegation or re-enters after the gateway    *)
(* left earns nothing for the time it was away.                            *)
(***************************************************************************)
OnlyRewardsEnrich ==
    [][ rounds' = rounds => \A a \in Accounts : Wealth(a)' <= Wealth(a) ]_vars

\* The most that rounding down keeps from everybody in one batch: a token for
\* every gateway but one, and a fraction for every token delegated.
RoundingLoss ==
    LET n == Cardinality({g \in Operators : Joined(g)}) IN
    RewardPrecision * (IF n > 0 THEN n - 1 ELSE 0)
      + Total(total_delegated_stake, Operators)

(***************************************************************************)
(* A distribution takes from the treasury only, promises no more than it   *)
(* takes and strands nothing: nobody's claim shrinks, the claims grow by   *)
(* at most what the pool receives, and all that the pool receives is       *)
(* somebody's claim, but for the rounding.  A share for delegates that are *)
(* gone must therefore stay in the treasury.  The claims are counted to    *)
(* the fraction of a token: the fractions of two distributions may make up *)
(* whole tokens, which the second one alone does not bring in.             *)
(***************************************************************************)
DistributionCovered ==
    [][ rounds' # rounds =>
          /\ \A a \in Accounts : Wealth(a)' >= Wealth(a)
          /\ ExactClaims' - ExactClaims <= RewardPrecision * (stake_pool' - stake_pool)
          /\ RewardPrecision * (stake_pool' - stake_pool) - (ExactClaims' - ExactClaims)
               <= RoundingLoss
          /\ stake_pool' + treasury' = stake_pool + treasury ]_vars

(***************************************************************************)
(* The operator's minimum stake is held for the whole leave period: until  *)
(* it unlocks, a protected vault with tokens in it is neither claimed nor  *)
(* reopened under other terms.  An operator cannot get at it by leaving,   *)
(* being finalized, joining again and cancelling the withdrawal.  (A       *)
(* funding plan may still spend from it.)                                  *)
(***************************************************************************)
ProtectedUntilUnlock ==
    [][ \A v \in VaultIds :
          (/\ Open(v)
           /\ vault[v].is_protected
           /\ vault_amount[v] > 0
           /\ now < vault[v].available_at) => vault'[v] = vault[v] ]_vars

(***************************************************************************)
(* While a gateway has delegation switched off, its delegators' principal  *)
(* can only leave: no deposit, redelegation or cancelled withdrawal adds   *)
(* to what is staked with it.                                              *)
(***************************************************************************)
DisabledOnlyDrains ==
    [][ \A g \in Operators :
          (Exists(g) /\ ~settings[g].allow /\ rounds' = rounds) =>
            \A d \in Accounts :
              Principal(g, d)' <= Principal(g, d) ]_vars

\* What d has staked with g or is withdrawing from g.
Committed(g, d) ==
    Principal(g, d)
      + Total([i \in 0 .. MaxVaults - 1 |->
                 IF Open(<<d, i>>) /\ vault[<<d, i>>].gateway = g
                   THEN vault_amount[<<d, i>>] ELSE 0], 0 .. MaxVaults - 1)

(***************************************************************************)
(* A gateway's allowlist keeps newcomers out: while it is on, an account   *)
(* that it does not name and that has nothing staked with the gateway and  *)
(* nothing on its way out of it gets no stake there, neither by delegating *)
(* nor by redelegating nor by cancelling.                                  *)
(***************************************************************************)
AllowlistKeepsOut ==
    [][ \A q \in Pairs :
          (/\ Exists(q[1])
           /\ settings[q[1]].allowlist
           /\ q \notin allowlist
           /\ Committed(q[1], q[2]) = 0) => del_amount'[q] = 0 ]_vars

(***************************************************************************)
(* No instruction leaves a delegation with dust: whatever takes principal  *)
(* out of a delegation (a withdrawal, a payment, a redelegation, a source  *)
(* of a funding plan) leaves it empty or at the gateway's minimum at least *)
(***************************************************************************)
NoDustLeft ==
    [][ \A q \in Pairs :
          Principal(q[1], q[2])' < Principal(q[1], q[2]) =>
            \/ del_amount'[q] = 0
            \/ del_amount'[q] >= settings[q[1]].min_delegation ]_vars

=============================================================================
