--------------------------- MODULE EpochLifecycle ---------------------------
(***************************************************************************)
(* The epoch machine of the ario-gar program: the gateway registry, the    *)
(* Epoch accounts that anybody may crank through their stages, and the     *)
(* observations that decide what a gateway is paid.                        *)
(*                                                                         *)
(* An epoch addresses gateways by their position in the registry, from its *)
(* creation to its distribution, and takes their weights from fields that  *)
(* every tally overwrites.  Gateways join, leave, are pruned and collected *)
(* in between, in any order with the cranks.                               *)
(*                                                                         *)
(* One transaction is one step.  The stake of a gateway is the business of *)
(* the module StakeLedger: here a composite weight is zero or not, chosen  *)
(* at the tally, and the gates on stake (join_network's minimum,           *)
(* finalize_gone's outstanding delegations) may or may not hold.           *)
(***************************************************************************)
EXTENDS Integers, Sequences, FiniteSets, Functions

CONSTANTS
    Operators,           \* the wallets that may run a gateway
    NoEpoch,             \* the value of an Epoch PDA that does not exist
    InitialTreasury,     \* protocol_token_account at genesis
    SlashAmount,         \* what prune_gateway sends to the treasury
    Durations,           \* values of EpochSettings.epoch_duration
    Retunes,             \* those that admin_set_epoch_duration is called with
    FirstIndices,        \* what admin_set_current_epoch_index is called with
    ReceiptChoices,      \* whether create_epoch is given a rent receipt
    DisableDelay,        \* EPOCH_DISABLE_DELAY
    LeavePeriod,         \* GATEWAY_LEAVE_PERIOD
    GoneEpochs,          \* 7, the epochs finalize_gone waits on top
    RetentionGap,        \* 7, the epochs close_epoch waits
    ObserverLimit,       \* EpochSettings.prescribed_observer_count
    MaxConsecutiveFailures, \* EpochSettings.max_consecutive_failures
    RateScale,           \* RATE_SCALE
    MaxRewardRate,       \* EpochSettings.max_reward_rate
    MinRewardRate,       \* EpochSettings.min_reward_rate
    DecayStart,          \* EpochSettings.reward_decay_start_epoch
    DecayLast,           \* EpochSettings.reward_decay_last_epoch
    GatewayRatio,        \* EpochSettings.gateway_reward_ratio
    PenaltyRate,         \* EpochSettings.missed_observation_penalty_rate
    Switches,            \* values set_epochs_enabled may be called with
    MaxTime,             \* bound on the clock
    MaxEpochs            \* bound on the epochs created

VARIABLES
    now,                 \* Clock::unix_timestamp
    treasury,            \* protocol_token_account
    enabled,             \* EpochSettings.enabled
    disable_at,          \* EpochSettings.disable_at, 0 for none
    epoch_duration,      \* EpochSettings.epoch_duration
    genesis,             \* EpochSettings.genesis_timestamp
    current_epoch_index, \* EpochSettings.current_epoch_index
    registry,            \* GatewayRegistry: the slots' addresses, in order
    composite_weight,    \* GatewaySlot.composite_weight of the slot of g
    status,              \* Gateway.status, "None" without a Gateway PDA
    start_timestamp,     \* Gateway.start_timestamp
    leave_timestamp,     \* Gateway.leave_timestamp, 0 unless leaving
    leave_epoch_duration, \* Gateway.leave_epoch_duration
    registry_index,      \* Gateway.registry_index, counted from 1
    weights_epoch,       \* Gateway.weights.weights_epoch
    failed_consecutive,  \* Gateway.stats.failed_consecutive
    epoch,               \* the Epoch PDAs
    observations,        \* the Observation PDAs that exist
    receipts,            \* the EpochRentReceipt PDAs that exist
    paid                 \* history: what each epoch has paid out

settingsVars == <<enabled, disable_at, epoch_duration, genesis, current_epoch_index>>
slotVars == <<registry, registry_index>>
gatewayVars == <<status, start_timestamp, leave_timestamp, leave_epoch_duration>>
scoreVars == <<composite_weight, weights_epoch, failed_consecutive>>
epochVars == <<epoch, observations, receipts, paid>>
vars == <<now, treasury, settingsVars, slotVars, gatewayVars, scoreVars, epochVars>>

Epochs == 0 .. MaxEpochs - 1
Slots == 1 .. Cardinality(Operators)

EpochRecord ==
    [start : Int, end : Int,            \* start_timestamp, end_timestamp
     active : Nat,                      \* active_gateway_count
     tally_index : Nat, weights_tallied : BOOLEAN,
     prescriptions_done : BOOLEAN,
     observers : SUBSET Operators,      \* prescribed_observer_gateways
     observed : SUBSET Operators,       \* has_observed
     failure_counts : [Slots -> Nat],
     submitted : Nat, closed : Nat,     \* observations_submitted, _closed
     total : Nat,                       \* total_eligible_rewards
     per_gateway : Nat, per_observer : Nat,
     distribution_index : Nat, distributed : BOOLEAN, \* rewards_distributed
     has_rent_receipt : BOOLEAN]

ASSUME SetAssumption ==
    /\ IsFiniteSet(Operators)
    /\ NoEpoch \notin EpochRecord
    /\ Switches \subseteq BOOLEAN
    /\ Durations \subseteq Nat \ {0}
    /\ Durations # {}
    /\ Retunes \subseteq Durations
    /\ FirstIndices \subseteq Nat
    /\ ReceiptChoices \subseteq BOOLEAN
    /\ ReceiptChoices # {}

ASSUME NumberAssumption ==
    /\ InitialTreasury \in Nat
    /\ SlashAmount \in Nat
    /\ DisableDelay \in Nat \ {0}
    /\ LeavePeriod \in Nat
    /\ GoneEpochs \in Nat
    /\ RetentionGap \in Nat \ {0}
    /\ ObserverLimit \in Nat
    /\ MaxConsecutiveFailures \in Nat \ {0}
    /\ MaxTime \in Nat
    /\ MaxEpochs \in Nat

ASSUME RateAssumption ==
    /\ RateScale \in Nat \ {0}
    /\ MaxRewardRate \in 0 .. RateScale
    /\ MinRewardRate \in 0 .. MaxRewardRate
    /\ DecayStart \in Nat
    /\ DecayLast \in Nat
    /\ DecayStart < DecayLast
    /\ GatewayRatio \in 0 .. RateScale
    /\ PenaltyRate \in 0 .. RateScale

-----------------------------------------------------------------------------
MinOf(a, b) == IF a <= b THEN a ELSE b
MaxOf(a, b) == IF a >= b THEN a ELSE b

Joined(g) == status[g] = "Joined"
Exists(e) == e \in Epochs /\ epoch[e] # NoEpoch
Unfinished(e) == Exists(e) /\ ~epoch[e].distributed

\* The gateways whose slots an epoch reaches, by position.
Covered(e) == 1 .. MinOf(epoch[e].active, Len(registry))

\* Mutant: nobody asks how the latest epoch stands.
LatestEpochIgnored == TRUE

\* Mutant: an epoch that was written off still counts as unfinished.
LatestEpochDistributed ==
    current_epoch_index > 0 =>
      Exists(current_epoch_index - 1) /\ epoch[current_epoch_index - 1].distributed

\* require_latest_epoch_finished: distributed, or not there (any more).
LatestEpochFinished ==
    current_epoch_index > 0 => ~Unfinished(current_epoch_index - 1)

\* Mutant: the rate climbs through the decay window instead of falling.
RewardRateClimbing(e) ==
    IF e < DecayStart \/ e > DecayLast THEN MaxRewardRate
    ELSE MaxRewardRate
           + ((MaxRewardRate - MinRewardRate) * (e - DecayStart))
               \div (DecayLast - DecayStart)

\* compute_reward_rate
RewardRate(e) ==
    CASE e < DecayStart -> MaxRewardRate
      [] e > DecayLast  -> MinRewardRate
      [] OTHER -> MaxRewardRate
                    - ((MaxRewardRate - MinRewardRate) * (e - DecayStart))
                        \div (DecayLast - DecayStart)

-----------------------------------------------------------------------------
(***************************************************************************)
(* EpochSettings.                                                          *)
(***************************************************************************)

\* set_epochs_enabled: on at once, off after a delay.
SetEpochsEnabled(on) ==
    /\ enabled' = (enabled \/ on)
    /\ disable_at' = IF on THEN 0 ELSE now + DisableDelay
    /\ UNCHANGED <<now, treasury, epoch_duration, genesis, current_epoch_index,
                   slotVars, gatewayVars, scoreVars, epochVars>>

\* admin_set_epoch_duration: the next epoch to be created starts now.
AdminSetEpochDuration(duration) ==
    /\ epoch_duration' = duration
    /\ genesis' = now - current_epoch_index * duration
    /\ UNCHANGED <<now, treasury, enabled, disable_at, current_epoch_index,
                   slotVars, gatewayVars, scoreVars, epochVars>>

\* admin_set_current_epoch_index: once, before the first epoch.
AdminSetCurrentEpochIndex(index) ==
    /\ index > 0
    /\ ~enabled
    /\ current_epoch_index = 0
    /\ current_epoch_index' = index
    /\ genesis' = now - index * epoch_duration
    /\ UNCHANGED <<now, treasury, enabled, disable_at, epoch_duration,
                   slotVars, gatewayVars, scoreVars, epochVars>>

-----------------------------------------------------------------------------
(***************************************************************************)
(* The cranks.                                                             *)
(***************************************************************************)
EpochStart == genesis + current_epoch_index * epoch_duration

\* Past disable_at create_epoch fails; what it writes first is rolled back.
MayCreate ==
    /\ enabled
    /\ ~(disable_at > 0 /\ now >= disable_at)
    /\ now >= EpochStart

CreateEpoch(receipt) ==
    LET e == current_epoch_index IN
    /\ e \in Epochs
    /\ MayCreate
    /\ LatestEpochFinished
    /\ ~Exists(e)
    /\ receipt => e \notin receipts
    /\ epoch' = [epoch EXCEPT ![e] =
         [start |-> EpochStart, end |-> EpochStart + epoch_duration,
          active |-> Len(registry),
          tally_index |-> 0, weights_tallied |-> FALSE,
          prescriptions_done |-> FALSE, observers |-> {}, observed |-> {},
          failure_counts |-> [i \in Slots |-> 0], submitted |-> 0, closed |-> 0,
          total |-> (treasury * RewardRate(e)) \div RateScale,
          per_gateway |-> 0, per_observer |-> 0,
          distribution_index |-> 0, distributed |-> FALSE,
          has_rent_receipt |-> receipt]]
    /\ receipts' = IF receipt THEN receipts \cup {e} ELSE receipts
    /\ current_epoch_index' = e + 1
    /\ UNCHANGED <<now, treasury, enabled, disable_at, epoch_duration, genesis,
                   slotVars, gatewayVars, scoreVars, observations, paid>>

\* Mutant: an epoch may be tallied only while it runs.
TallyInTime(e) ==
    /\ Exists(e)
    /\ ~epoch[e].weights_tallied
    /\ e = current_epoch_index - 1
    /\ now < epoch[e].end

MayTally(e) ==
    /\ Exists(e)
    /\ ~epoch[e].weights_tallied
    /\ e = current_epoch_index - 1

\* Whether g was in the network when the epoch started.
InEarningSet(e, g) == start_timestamp[g] <= epoch[e].start

\* Mutant: a gateway without weight is not stamped.
StampedWeighty(batch, weighty) == {g \in weighty : Joined(g)}

\* The gateways whose weights_epoch a batch sets.
Stamped(batch, weighty) == {g \in batch : Joined(g)}

(***************************************************************************)
(* tally_weights, one batch: the slots after tally_index up to n.  weighty *)
(* are the gateways whose stake, tenure and record give a weight above     *)
(* zero.  A slot past the registry's end is passed over.                   *)
(***************************************************************************)
TallyWeights(e, n, weighty) ==
    LET batch == {registry[i] : i \in Covered(e) \cap (epoch[e].tally_index + 1 .. n)} IN
    /\ MayTally(e)
    /\ n \in epoch[e].tally_index .. epoch[e].active
    /\ weighty \subseteq batch
    /\ composite_weight' = [g \in Operators |->
         IF g \in batch
           THEN IF Joined(g) /\ InEarningSet(e, g) /\ g \in weighty THEN 1 ELSE 0
           ELSE composite_weight[g]]
    /\ weights_epoch' = [g \in Operators |->
         IF g \in Stamped(batch, weighty) THEN e ELSE weights_epoch[g]]
    /\ epoch' = [epoch EXCEPT ![e].tally_index = n,
                              ![e].weights_tallied = (n >= epoch[e].active)]
    /\ UNCHANGED <<now, treasury, settingsVars, slotVars, gatewayVars,
                   failed_consecutive, observations, receipts, paid>>

\* The gateways that the roulette may draw and that share the gateway pool.
Weighted(e) == {registry[i] : i \in {j \in Covered(e) : composite_weight[registry[j]] > 0}}

\* Mutant: the gateway pool is divided among the joined gateways drawn.
SharersObservers(e, S) == Cardinality(S)

\* joined_count
Sharers(e, S) == Cardinality(Weighted(e))

(***************************************************************************)
(* prescribe_epoch.  The roulette draws at least one gateway when any has  *)
(* weight, at most ObserverLimit, and possibly fewer: its rounds are       *)
(* bounded.  S is the set drawn.                                           *)
(***************************************************************************)
PrescribeEpoch(e, S) ==
    /\ Exists(e)
    /\ epoch[e].weights_tallied
    /\ ~epoch[e].prescriptions_done
    /\ S \subseteq Weighted(e)
    /\ Cardinality(S) <= MinOf(ObserverLimit, epoch[e].active)
    /\ S = {} => Weighted(e) = {} \/ ObserverLimit = 0
    /\ epoch' = [epoch EXCEPT
         ![e].observers = S,
         ![e].per_gateway =
            IF Weighted(e) = {} THEN 0
            ELSE ((epoch[e].total * GatewayRatio) \div RateScale) \div Sharers(e, S),
         ![e].per_observer =
            IF S = {} THEN 0
            ELSE ((epoch[e].total * (RateScale - GatewayRatio)) \div RateScale)
                   \div Cardinality(S),
         ![e].prescriptions_done = TRUE]
    /\ UNCHANGED <<now, treasury, settingsVars, slotVars, gatewayVars, scoreVars,
                   observations, receipts, paid>>

-----------------------------------------------------------------------------
(***************************************************************************)
(* Observations.                                                           *)
(***************************************************************************)

\* Mutant: a second report of the same observer is taken.
ReportAgain(e, g) == TRUE

\* Anchor's init fails on an Observation PDA that exists.
FirstReport(e, g) == <<e, g>> \notin observations

\* save_observations: the observer prescribed for g fails the slots in bad.
SaveObservations(e, g, bad) ==
    /\ Exists(e)
    /\ epoch[e].prescriptions_done
    /\ now >= epoch[e].start
    /\ now < epoch[e].end
    /\ bad \subseteq 1 .. epoch[e].active
    /\ g \in epoch[e].observers
    /\ FirstReport(e, g)
    /\ epoch' = [epoch EXCEPT
         ![e].observed = epoch[e].observed \cup {g},
         ![e].failure_counts = [i \in Slots |->
            epoch[e].failure_counts[i] + (IF i \in bad THEN 1 ELSE 0)],
         ![e].submitted = epoch[e].submitted + 1]
    /\ observations' = observations \cup {<<e, g>>}
    /\ UNCHANGED <<now, treasury, settingsVars, slotVars, gatewayVars, scoreVars,
                   receipts, paid>>

CloseObservation(e, g) ==
    /\ Exists(e)
    /\ epoch[e].distributed
    /\ <<e, g>> \in observations
    /\ observations' = observations \ {<<e, g>>}
    /\ epoch' = [epoch EXCEPT ![e].closed = epoch[e].closed + 1]
    /\ UNCHANGED <<now, treasury, settingsVars, slotVars, gatewayVars, scoreVars,
                   receipts, paid>>

-----------------------------------------------------------------------------
(***************************************************************************)
(* distribute_epoch.                                                       *)
(***************************************************************************)
Fresh(e, g) == weights_epoch[g] = e

Eligible(e, g) == composite_weight[g] > 0 /\ Fresh(e, g)

\* More than half of the reports fail the slot.
Failed(e, i) ==
    epoch[e].submitted > 0 /\ epoch[e].failure_counts[i] > epoch[e].submitted \div 2

\* The six cases of the reward of the gateway in slot i.
FullReward(e, i) ==
    LET g        == registry[i]
        observer == g \in epoch[e].observers
        observed == observer /\ g \in epoch[e].observed
    IN  IF status[g] = "Leaving" \/ ~Eligible(e, g) THEN 0
        ELSE IF Failed(e, i) THEN IF observed THEN epoch[e].per_observer ELSE 0
        ELSE IF observed THEN epoch[e].per_gateway + epoch[e].per_observer
        ELSE IF observer
          THEN (epoch[e].per_gateway * (RateScale - PenaltyRate)) \div RateScale
        ELSE epoch[e].per_gateway

\* Does the batch's freshness check let g through?
NotClobbered(e, g) == status[g] = "Leaving" \/ Fresh(e, g) \/ ~InEarningSet(e, g)

\* What the slots in S are due.
Due(e, S) == SumFunctionOnSet([i \in S |-> FullReward(e, i)], S)

MayDistribute(e) ==
    /\ Exists(e)
    /\ epoch[e].prescriptions_done
    /\ now >= epoch[e].end
    /\ ~epoch[e].distributed

\* Mutant: an epoch without reports is paid like any other.
UnobservedNever(e) == FALSE

Unobserved(e) == epoch[e].submitted = 0 /\ epoch[e].distribution_index = 0

\* An epoch without reports pays nothing and scores nobody.
SkipUnobserved(e) ==
    /\ MayDistribute(e)
    /\ Unobserved(e)
    /\ epoch' = [epoch EXCEPT ![e].distribution_index = epoch[e].active,
                              ![e].distributed = TRUE]
    /\ UNCHANGED <<now, treasury, settingsVars, slotVars, gatewayVars, scoreVars,
                   observations, receipts, paid>>

(***************************************************************************)
(* One batch: the slots after distribution_index up to n.  The transfer is *)
(* capped at what the treasury holds; how it is divided, and the delegate  *)
(* shares that stay behind, are in StakeLedger.                            *)
(***************************************************************************)
DistributeEpoch(e, n) ==
    LET slots    == Covered(e) \cap (epoch[e].distribution_index + 1 .. n)
        transfer == MinOf(Due(e, slots), treasury)
        scored   == {i \in slots : Joined(registry[i]) /\ Eligible(e, registry[i])}
    IN  /\ MayDistribute(e)
        /\ ~Unobserved(e)
        /\ n \in epoch[e].distribution_index + 1 .. epoch[e].active
        /\ \A i \in slots : NotClobbered(e, registry[i])
        /\ treasury' = treasury - transfer
        /\ paid' = [paid EXCEPT ![e] = @ + transfer]
        /\ failed_consecutive' = [g \in Operators |->
             IF \E i \in scored : registry[i] = g
               THEN IF \E i \in scored : registry[i] = g /\ Failed(e, i)
                      THEN failed_consecutive[g] + 1 ELSE 0
               ELSE failed_consecutive[g]]
        /\ epoch' = [epoch EXCEPT ![e].distribution_index = n,
                                  ![e].distributed = (n >= epoch[e].active)]
        /\ UNCHANGED <<now, settingsVars, slotVars, gatewayVars,
                       composite_weight, weights_epoch, observations, receipts>>

-----------------------------------------------------------------------------
(***************************************************************************)
(* Closing accounts.                                                       *)
(***************************************************************************)

\* Mutant: open reports do not keep the epoch.
MayCloseAnyway(e) ==
    /\ Exists(e)
    /\ epoch[e].distributed
    /\ current_epoch_index >= e + RetentionGap

MayClose(e) ==
    /\ Exists(e)
    /\ epoch[e].distributed
    /\ current_epoch_index >= e + RetentionGap
    /\ epoch[e].closed = epoch[e].submitted

\* close_epoch takes the rent receipt along when the epoch has one.
CloseEpoch(e) ==
    /\ MayClose(e)
    /\ epoch[e].has_rent_receipt => e \in receipts
    /\ epoch' = [epoch EXCEPT ![e] = NoEpoch]
    /\ receipts' = IF epoch[e].has_rent_receipt THEN receipts \ {e} ELSE receipts
    /\ UNCHANGED <<now, treasury, settingsVars, slotVars, gatewayVars, scoreVars,
                   observations, paid>>

\* admin_close_stale_epoch writes off an epoch that ended undistributed.
AdminCloseStaleEpoch(e) ==
    /\ Unfinished(e)
    /\ now >= epoch[e].end
    /\ epoch' = [epoch EXCEPT ![e] = NoEpoch]
    /\ UNCHANGED <<now, treasury, settingsVars, slotVars, gatewayVars, scoreVars,
                   observations, receipts, paid>>

\* Mutant: the receipt of an epoch that still exists may be closed.
ReceiptAny(e) == TRUE

ReceiptOrphaned(e) == ~Exists(e)

AdminCloseOrphanedEpochRentReceipt(e) ==
    /\ e \in receipts
    /\ ReceiptOrphaned(e)
    /\ receipts' = receipts \ {e}
    /\ UNCHANGED <<now, treasury, settingsVars, slotVars, gatewayVars, scoreVars,
                   epoch, observations, paid>>

-----------------------------------------------------------------------------
(***************************************************************************)
(* Gateways, as far as the registry and the epochs see them.               *)
(***************************************************************************)
JoinNetwork(g) ==
    /\ status[g] = "None"
    /\ status' = [status EXCEPT ![g] = "Joined"]
    /\ start_timestamp' = [start_timestamp EXCEPT ![g] = now]
    /\ leave_timestamp' = [leave_timestamp EXCEPT ![g] = 0]
    /\ leave_epoch_duration' = [leave_epoch_duration EXCEPT ![g] = 0]
    /\ weights_epoch' = [weights_epoch EXCEPT ![g] = 0]
    /\ failed_consecutive' = [failed_consecutive EXCEPT ![g] = 0]
    /\ composite_weight' = [composite_weight EXCEPT ![g] = 0]
    /\ registry' = Append(registry, g)
    /\ registry_index' = [registry_index EXCEPT ![g] = Len(registry) + 1]
    /\ UNCHANGED <<now, treasury, settingsVars, epochVars>>

\* The slot stays where it is, without weight.
MarkLeaving(g) ==
    /\ Joined(g)
    /\ status' = [status EXCEPT ![g] = "Leaving"]
    /\ leave_timestamp' = [leave_timestamp EXCEPT ![g] = now]
    /\ leave_epoch_duration' = [leave_epoch_duration EXCEPT ![g] = epoch_duration]
    /\ registry_index[g] \in 1 .. Len(registry)
    /\ registry[registry_index[g]] = g
    /\ composite_weight' = [composite_weight EXCEPT ![g] = 0]
    /\ UNCHANGED <<now, settingsVars, slotVars, start_timestamp, weights_epoch,
                   failed_consecutive, epochVars>>

LeaveNetwork(g) == MarkLeaving(g) /\ UNCHANGED treasury

PruneGateway(g) ==
    /\ failed_consecutive[g] >= MaxConsecutiveFailures
    /\ MarkLeaving(g)
    /\ treasury' = treasury + SlashAmount

\* finalize_gone_expiry
GoneAt(g) ==
    leave_timestamp[g] + LeavePeriod
      + GoneEpochs * MaxOf(leave_epoch_duration[g], epoch_duration)

\* Mutant: the gateway that moves down keeps its old index.
SwappedIndexStale(g) == registry_index

\* The indices once the last slot has moved into that of g.
SwappedIndex(g) ==
    [registry_index EXCEPT ![registry[Len(registry)]] = registry_index[g]]

\* Mutant: slots move at any time.
PositionsReleasedAlways == TRUE

\* ADR-0036: no slot moves while an epoch is unfinished.
PositionsReleased == LatestEpochFinished

FinalizeGone(g) ==
    LET last == Len(registry) IN
    /\ status[g] = "Leaving"
    /\ now >= GoneAt(g)
    /\ PositionsReleased
    /\ registry_index[g] \in 1 .. last
    /\ registry[registry_index[g]] = g
    /\ status' = [status EXCEPT ![g] = "None"]
    /\ registry' = SubSeq([registry EXCEPT ![registry_index[g]] = registry[last]],
                          1, last - 1)
    /\ registry_index' = [SwappedIndex(g) EXCEPT ![g] = 0]
    /\ start_timestamp' = [start_timestamp EXCEPT ![g] = 0]
    /\ leave_timestamp' = [leave_timestamp EXCEPT ![g] = 0]
    /\ leave_epoch_duration' = [leave_epoch_duration EXCEPT ![g] = 0]
    /\ weights_epoch' = [weights_epoch EXCEPT ![g] = 0]
    /\ failed_consecutive' = [failed_consecutive EXCEPT ![g] = 0]
    /\ composite_weight' = [composite_weight EXCEPT ![g] = 0]
    /\ UNCHANGED <<now, treasury, settingsVars, epochVars>>

Tick ==
    /\ now < MaxTime
    /\ now' = now + 1
    /\ UNCHANGED <<treasury, settingsVars, slotVars, gatewayVars, scoreVars, epochVars>>

-----------------------------------------------------------------------------
\* After initialize and initialize_epochs: no gateway, epochs off.
Init ==
    /\ now = 0
    /\ treasury = InitialTreasury
    /\ enabled = FALSE
    /\ disable_at = 0
    /\ epoch_duration \in Durations
    /\ genesis = 0
    /\ current_epoch_index = 0
    /\ registry = <<>>
    /\ composite_weight = [g \in Operators |-> 0]
    /\ status = [g \in Operators |-> "None"]
    /\ start_timestamp = [g \in Operators |-> 0]
    /\ leave_timestamp = [g \in Operators |-> 0]
    /\ leave_epoch_duration = [g \in Operators |-> 0]
    /\ registry_index = [g \in Operators |-> 0]
    /\ weights_epoch = [g \in Operators |-> 0]
    /\ failed_consecutive = [g \in Operators |-> 0]
    /\ epoch = [e \in Epochs |-> NoEpoch]
    /\ observations = {}
    /\ receipts = {}
    /\ paid = [e \in Epochs |-> 0]

AdminNext ==
    \/ \E on \in Switches : SetEpochsEnabled(on)
    \/ \E duration \in Retunes : AdminSetEpochDuration(duration)
    \/ \E index \in FirstIndices : AdminSetCurrentEpochIndex(index)
    \/ \E e \in Epochs :
         \/ AdminCloseStaleEpoch(e)
         \/ AdminCloseOrphanedEpochRentReceipt(e)

Tally(e) ==
    \E n \in 0 .. Cardinality(Operators), weighty \in SUBSET Operators :
      TallyWeights(e, n, weighty)
Prescribe(e) == \E S \in SUBSET Operators : PrescribeEpoch(e, S)
Distribute(e) ==
    \/ SkipUnobserved(e)
    \/ \E n \in Slots : DistributeEpoch(e, n)

CrankNext ==
    \/ \E receipt \in ReceiptChoices : CreateEpoch(receipt)
    \/ \E e \in Epochs :
         \/ Tally(e)
         \/ Prescribe(e)
         \/ Distribute(e)
         \/ CloseEpoch(e)

ObserverNext ==
    \E e \in Epochs, g \in Operators :
      \/ \E bad \in SUBSET Slots : SaveObservations(e, g, bad)
      \/ CloseObservation(e, g)

GatewayNext ==
    \E g \in Operators :
      \/ JoinNetwork(g)
      \/ LeaveNetwork(g)
      \/ PruneGateway(g)
      \/ FinalizeGone(g)

Next == AdminNext \/ CrankNext \/ ObserverNext \/ GatewayNext \/ Tick

Spec == Init /\ [][Next]_vars

(***************************************************************************)
(* Somebody keeps cranking: each stage that stays possible is run in the   *)
(* end, and a tally and a distribution move on.  Nobody has to join,       *)
(* observe, close or administer anything.                                  *)
(***************************************************************************)
TallyOn(e) == Tally(e) /\ epoch'[e] # epoch[e]
Fairness ==
    /\ WF_vars(Tick)
    /\ WF_vars(\E receipt \in ReceiptChoices : CreateEpoch(receipt))
    /\ \A e \in Epochs :
         /\ WF_vars(TallyOn(e))
         /\ WF_vars(Prescribe(e))
         /\ WF_vars(Distribute(e))

FairSpec == Spec /\ Fairness

-----------------------------------------------------------------------------
(***************************************************************************)
(* Properties.                                                             *)
(***************************************************************************)

\* Every account holds what its Rust type can hold.
TypeOK ==
    /\ now \in Nat
    /\ treasury \in Nat
    /\ enabled \in BOOLEAN
    /\ disable_at \in Nat
    /\ epoch_duration \in Durations
    /\ genesis \in Int
    /\ current_epoch_index \in Nat
    /\ registry \in Seq(Operators)
    /\ composite_weight \in [Operators -> {0, 1}]
    /\ status \in [Operators -> {"None", "Joined", "Leaving"}]
    /\ start_timestamp \in [Operators -> Nat]
    /\ leave_timestamp \in [Operators -> Nat]
    /\ leave_epoch_duration \in [Operators -> Nat]
    /\ registry_index \in [Operators -> Nat]
    /\ weights_epoch \in [Operators -> Nat]
    /\ failed_consecutive \in [Operators -> Nat]
    /\ epoch \in [Epochs -> EpochRecord \cup {NoEpoch}]
    /\ observations \subseteq Epochs \X Operators
    /\ receipts \subseteq Epochs
    /\ paid \in [Epochs -> Nat]

(***************************************************************************)
(* An epoch that is not distributed is the latest one (ADR-0034).  The     *)
(* checks of create_epoch and finalize_gone look at no other epoch, so     *)
(* both would be blind to an older one.                                    *)
(***************************************************************************)
LatestOnlyOpen ==
    \A e \in Epochs : Exists(e) =>
      /\ e < current_epoch_index
      /\ Unfinished(e) => e = current_epoch_index - 1

(***************************************************************************)
(* The slots and the gateways' own indices describe the same registry: no  *)
(* gateway is listed twice or is missing, whatever order joins and         *)
(* swap-removes came in.  leave_network, prune_gateway and finalize_gone   *)
(* find the slot through the index and fail for ever if it is wrong.       *)
(***************************************************************************)
RegistryIndexed ==
    /\ \A g \in Operators : status[g] # "None" =>
         /\ registry_index[g] \in DOMAIN registry
         /\ registry[registry_index[g]] = g
    /\ \A i \in DOMAIN registry :
         /\ status[registry[i]] # "None"
         /\ registry_index[registry[i]] = i

(***************************************************************************)
(* A tallied epoch stays distributable: no slot it has still to pay fails  *)
(* distribute_epoch's EpochWeightsClobbered check, which would stop the    *)
(* whole batch and with it the epoch for good.                             *)
(***************************************************************************)
NeverClobbered ==
    \A e \in Epochs : Unfinished(e) /\ epoch[e].weights_tallied =>
      \A i \in Covered(e) :
        i > epoch[e].distribution_index => NotClobbered(e, registry[i])

(***************************************************************************)
(* What an epoch has paid and what its remaining slots are due never       *)
(* exceed its total_eligible_rewards, although gateways leave, join and    *)
(* report between prescribe_epoch, which fixes the rewards per head, and   *)
(* the batches that pay them.                                              *)
(***************************************************************************)
PaidWithinPool ==
    \A e \in Epochs : Unfinished(e) /\ epoch[e].prescriptions_done =>
      paid[e] + Due(e, Covered(e) \cap (epoch[e].distribution_index + 1 .. epoch[e].active))
        <= epoch[e].total

(***************************************************************************)
(* The treasury holds what the open epoch may still pay.  With             *)
(* PaidWithinPool: distribute_epoch never has to prorate a batch.          *)
(***************************************************************************)
TreasuryCovers ==
    \A e \in Epochs : Unfinished(e) => epoch[e].total - paid[e] <= treasury

(***************************************************************************)
(* An epoch counts each prescribed observer's report once, so the majority *)
(* that distribute_epoch computes from failure_counts and                  *)
(* observations_submitted is one of observers; and each report is an open  *)
(* Observation account or a closed one.                                    *)
(***************************************************************************)
ReportsCounted ==
    \A e \in Epochs : Exists(e) =>
      /\ epoch[e].observed \subseteq epoch[e].observers
      /\ epoch[e].submitted = Cardinality(epoch[e].observed)
      /\ \A i \in Slots : epoch[e].failure_counts[i] <= epoch[e].submitted
      /\ epoch[e].submitted =
           epoch[e].closed + Cardinality({g \in Operators : <<e, g>> \in observations})

(***************************************************************************)
(* An epoch created with a rent receipt keeps it: close_epoch insists on   *)
(* the receipt, and the epoch could never be closed without it.            *)
(***************************************************************************)
ReceiptKept ==
    \A e \in Epochs : Exists(e) /\ epoch[e].has_rent_receipt => e \in receipts

(***************************************************************************)
(* While an epoch is unfinished its slots keep their gateways (ADR-0036):  *)
(* failure_counts[i] was recorded against the gateway then in slot i.      *)
(***************************************************************************)
PositionsFrozen ==
    [][\A e \in Epochs : Unfinished(e) =>
         \A i \in 1 .. epoch[e].active :
           i \in DOMAIN registry' /\ registry'[i] = registry[i]]_vars

(***************************************************************************)
(* close_epoch leaves no Observation account without its epoch; nothing    *)
(* could close it afterwards.                                              *)
(***************************************************************************)
CloseStrandsNothing ==
    [][\A e \in Epochs :
         Exists(e) /\ epoch[e].distributed /\ epoch'[e] = NoEpoch =>
           ~\E g \in Operators : <<e, g>> \in observations]_vars

(***************************************************************************)
(* A gateway's failure streak, which prune_gateway acts on, is cleared     *)
(* only when the gateway is gone or when a batch covers its slot and the   *)
(* reports of that epoch do not fail it by a majority.  An epoch nobody    *)
(* reported on clears nothing.                                             *)
(***************************************************************************)
StreakNeedsEvidence ==
    [][\A g \in Operators : failed_consecutive'[g] < failed_consecutive[g] =>
         \/ status[g] = "Leaving" /\ status'[g] = "None"
         \/ \E e \in Epochs : \E i \in DOMAIN registry :
              /\ registry[i] = g
              /\ Unfinished(e)
              /\ epoch[e].distribution_index < i
              /\ epoch'[e].distribution_index >= i
              /\ epoch[e].submitted > 0
              /\ 2 * epoch[e].failure_counts[i] <= epoch[e].submitted]_vars

(***************************************************************************)
(* Every epoch is distributed or written off in the end, however late its  *)
(* cranks come and whoever joins, leaves or stays silent meanwhile.  The   *)
(* epoch must end within the modelled time.                                *)
(***************************************************************************)
EpochsFinish ==
    \A e \in Epochs :
      Unfinished(e) /\ epoch[e].end <= MaxTime ~> ~Unfinished(e)

(***************************************************************************)
(* While epochs are on, the next epoch is created in the end, also after   *)
(* an outage and after the previous epoch was written off.                 *)
(***************************************************************************)
EpochsAdvance ==
    \A i \in Epochs :
      /\ enabled
      /\ disable_at = 0
      /\ current_epoch_index = i
      /\ EpochStart <= MaxTime
      /\ i > 0 /\ Unfinished(i - 1) => epoch[i - 1].end <= MaxTime
      ~> current_epoch_index > i \/ disable_at > 0

(***************************************************************************)
(* The comment on close_epoch_settings says that a disable scheduled by    *)
(* set_epochs_enabled takes effect when disable_at has elapsed and the     *)
(* next create_epoch runs.                                                 *)
(***************************************************************************)
DisableTakesEffect ==
    disable_at > 0 /\ now >= disable_at ~> ~enabled \/ disable_at = 0
=============================================================================
