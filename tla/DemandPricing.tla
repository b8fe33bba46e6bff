---------------------------- MODULE DemandPricing ----------------------------
(***************************************************************************)
(* What an ArNS name costs (ario-arns: pricing.rs, instructions/demand.rs). *)
(* A fee table, one base fee for each length of name, is scaled by a demand *)
(* factor that a state machine moves once per period: up when the period    *)
(* that closes earned more than the moving average, down otherwise, and     *)
(* once the factor has lain at its floor for too long the fee table itself  *)
(* is cut for good.  Nothing runs when a period ends: the instruction that  *)
(* next needs a price rolls every missed period first, the first few one by *)
(* one and a longer gap in closed form.                                     *)
(*                                                                         *)
(* Fixed-point numbers keep their form: n stands for n / Scale, and every   *)
(* division is the integer division of the code.  The u64 and u128 overflow *)
(* checks are left out: they refuse the instruction.                        *)
(***************************************************************************)
EXTENDS Integers, Sequences, FiniteSets, Functions

CONSTANTS
  Scale,            \* DEMAND_FACTOR_SCALE
  FactorMin,        \* DEMAND_FACTOR_MIN
  FactorMax,        \* MAX_DEMAND_FACTOR
  UpAdjustment,     \* DEMAND_FACTOR_UP_ADJUSTMENT
  DownAdjustment,   \* DEMAND_FACTOR_DOWN_ADJUSTMENT
  MaxPeriodsAtMin,  \* MAX_PERIODS_AT_MIN_DEMAND_FACTOR
  Window,           \* MOVING_AVG_PERIOD_COUNT
  MaxRollover,      \* MAX_ROLLOVER_PERIODS
  PeriodLength,     \* PERIOD_LENGTH_SECONDS
  GenesisFees,      \* GENESIS_FEES: base fee by length of name
  InitialFactor,    \* params.initial_demand_factor
  ByPurchases,      \* criteria = DEMAND_CRITERIA_PURCHASES (else revenue)
  AnnualPct,        \* ANNUAL_PERCENTAGE_FEE
  LeaseUndernamePct, PermabuyUndernamePct,  \* UNDERNAME_*_FEE_PCT
  DiscountPct,      \* GATEWAY_OPERATOR_DISCOUNT_PCT
  MaxMultiplier,    \* RETURNED_NAME_MAX_MULTIPLIER
  AuctionDuration   \* RETURNED_NAME_DURATION_SECONDS

ASSUME PricingAssumption ==
  /\ {Scale, FactorMin, Window, MaxRollover, PeriodLength, AuctionDuration}
       \subseteq Nat \ {0}
  /\ {FactorMax, UpAdjustment, DownAdjustment, MaxPeriodsAtMin, InitialFactor,
      AnnualPct, LeaseUndernamePct, PermabuyUndernamePct, DiscountPct,
      MaxMultiplier} \subseteq Nat
  /\ GenesisFees \in [DOMAIN GenesisFees -> Nat]
  /\ FactorMin < Scale /\ Scale <= FactorMax /\ FactorMin <= InitialFactor
  /\ UpAdjustment > Scale /\ DownAdjustment < Scale
  /\ MaxRollover > Window     \* PRECONDITION of advance_zero_activity_periods
  /\ MaxMultiplier >= 1 /\ DiscountPct <= Scale

Lengths == DOMAIN GenesisFees
Ring == 0 .. Window - 1

\* Account DemandFactor.
DemandFactor ==
  [factor : Nat, period : Nat, purchases : Nat, revenue : Nat, atMin : Nat,
   pastPurchases : [Ring -> Nat], pastRevenues : [Ring -> Nat],
   fees : [Lengths -> Nat]]

VARIABLES
  now,     \* Clock::unix_timestamp, from period_zero_start_timestamp on
  demand   \* the DemandFactor account

InitialDemand ==
  [factor |-> InitialFactor, period |-> 1, purchases |-> 0, revenue |-> 0,
   atMin |-> 0, pastPurchases |-> [i \in Ring |-> 0],
   pastRevenues |-> [i \in Ring |-> 0], fees |-> GenesisFees]

-----------------------------------------------------------------------------
(* The demand factor. *)

\* get_period_for_timestamp: periods are counted from one.
PeriodAt(t) == t \div PeriodLength + 1

\* mvg_avg_trailing_purchases, mvg_avg_trailing_revenues
MovingAverage(past) == SumFunctionOnSet(past, Ring) \div Window

IsDemandIncreasing(d) ==
  IF ByPurchases
    THEN d.purchases # 0 /\ d.purchases > MovingAverage(d.pastPurchases)
    ELSE d.revenue # 0 /\ d.revenue > MovingAverage(d.pastRevenues)

\* update_fees with the multiplier DEMAND_FACTOR_MIN
UpdateFees(fees) == [l \in Lengths |-> (fees[l] * FactorMin) \div Scale]

\* The trend adjustment of roll_one_period.
Adjusted(d) ==
  IF IsDemandIncreasing(d)
    THEN LET up == (d.factor * UpAdjustment) \div Scale
         IN  IF up < FactorMax THEN up ELSE FactorMax
    ELSE IF d.factor > FactorMin
           THEN (d.factor * DownAdjustment) \div Scale
           ELSE d.factor

\* The floor check of roll_one_period: at the floor the factor waits, and
\* after MaxPeriodsAtMin periods there the fees are cut and the factor reset.
Floored(d, factor) ==
  IF factor > FactorMin
    THEN [d EXCEPT !.factor = factor, !.atMin = 0]
    ELSE IF d.atMin >= MaxPeriodsAtMin
           THEN [d EXCEPT !.factor = Scale, !.atMin = 0, !.fees = UpdateFees(@)]
           ELSE [d EXCEPT !.factor = FactorMin, !.atMin = @ + 1]

RollOnePeriod(d) ==
  [Floored(d, Adjusted(d)) EXCEPT
     !.pastPurchases[d.period % Window] = d.purchases,
     !.pastRevenues[d.period % Window] = d.revenue,
     !.purchases = 0, !.revenue = 0, !.period = @ + 1]

\* Rolls(d)[k]: k periods rolled one by one.
Rolls(d) ==
  LET f[k \in Nat] == IF k = 0 THEN d ELSE RollOnePeriod(f[k - 1]) IN f

\* FeeCuts(fees)[k]: the fee table after k cuts.
FeeCuts(fees) ==
  LET f[k \in Nat] == IF k = 0 THEN fees ELSE UpdateFees(f[k - 1]) IN f

\* zero_activity_step: one period without a sale, of the factor, the count of
\* periods at the floor and the number of fee cuts made so far.
ZeroActivityStep(s) ==
  LET factor == IF s.factor > FactorMin
                  THEN (s.factor * DownAdjustment) \div Scale
                  ELSE s.factor
  IN  CASE factor > FactorMin -> [s EXCEPT !.factor = factor, !.atMin = 0]
        [] factor <= FactorMin /\ s.atMin >= MaxPeriodsAtMin ->
             [factor |-> Scale, atMin |-> 0, cuts |-> s.cuts + 1]
        [] OTHER -> [s EXCEPT !.factor = FactorMin, !.atMin = @ + 1]

\* IdleWalk(s)[k]: k periods without a sale from s.
IdleWalk(s) ==
  LET f[k \in Nat] == IF k = 0 THEN s ELSE ZeroActivityStep(f[k - 1]) IN f

\* zero_activity_cycle_length: idle periods from (Scale, 0) to the next cut.
CycleLength ==
  LET steps[s \in [factor : Nat, atMin : Nat, cuts : 0 .. 1]] ==
        IF s.cuts = 1 THEN 0 ELSE 1 + steps[ZeroActivityStep(s)]
  IN  steps[[factor |-> Scale, atMin |-> 0, cuts |-> 0]]

\* Where the idle walk of a demand account starts.
IdleFrom(d) == [factor |-> d.factor, atMin |-> d.atMin, cuts |-> 0]

AtBoundary(s) == s.factor = Scale /\ s.atMin = 0

\* Mutant: the closed form forgets the fee cuts of the whole cycles.
AdvanceWithoutCuts(d, n) ==
  LET last == IdleWalk(IdleFrom(d))[n]
  IN  [d EXCEPT !.pastPurchases = [i \in Ring |-> 0],
                !.pastRevenues = [i \in Ring |-> 0],
                !.purchases = 0, !.revenue = 0,
                !.factor = last.factor, !.atMin = last.atMin, !.period = @ + n]

\* advance_zero_activity_periods: step to a cycle boundary, take the whole
\* cycles at once (one fee cut each, until the fees are all zero), and step
\* through the remainder.
AdvanceZeroActivity(d, n) ==
  LET walk == IdleWalk(IdleFrom(d))            \* phase 1
      first == CHOOSE k \in 0 .. n :
                 /\ k = n \/ AtBoundary(walk[k])
                 /\ \A j \in 0 .. k - 1 : ~AtBoundary(walk[j])
      remaining == n - first
      whole == remaining \div CycleLength      \* phase 2
      last == IdleWalk(walk[first])[remaining % CycleLength]   \* phase 3
  IN  [d EXCEPT !.pastPurchases = [i \in Ring |-> 0],
                !.pastRevenues = [i \in Ring |-> 0],
                !.purchases = 0, !.revenue = 0,
                !.factor = last.factor, !.atMin = last.atMin,
                !.fees = FeeCuts(@)[last.cuts + whole], !.period = @ + n]

MaybeRollDemandPeriod(d, t) ==
  LET gap == PeriodAt(t) - d.period
  IN  CASE gap <= 0 -> d
        [] gap > 0 /\ gap <= MaxRollover -> Rolls(d)[gap]
        [] OTHER -> AdvanceZeroActivity(RollOnePeriod(d), gap - 1)

-----------------------------------------------------------------------------
(* Prices, at the base fee fee and the demand factor factor. *)

LeaseFee(fee, years, factor) ==
  ((fee * factor * (Scale + AnnualPct * years)) \div Scale) \div Scale

PermabuyFee(fee, factor) == (fee * factor * 5) \div Scale

ExtensionFee(fee, years, factor) ==
  ((fee * factor * AnnualPct * years) \div Scale) \div Scale

UndernameCost(fee, qty, pct, factor) ==
  ((fee * factor * pct * qty) \div Scale) \div Scale

\* calculate_returned_name_premium: the multiple of the fee falls linearly
\* from MaxMultiplier to one over the auction.
ReturnedNamePremium(fee, returnedAt, t) ==
  LET elapsed == t - returnedAt
      multiplier ==
        ((MaxMultiplier * AuctionDuration - (MaxMultiplier - 1) * elapsed)
           * Scale) \div AuctionDuration
  IN  IF elapsed >= AuctionDuration THEN fee
                                    ELSE (fee * multiplier) \div Scale

ApplyGatewayDiscount(cost) == cost - (cost * DiscountPct) \div Scale

-----------------------------------------------------------------------------
\* Instruction update_demand_factor: permissionless, moves nothing but demand.
UpdateDemandFactor ==
  /\ PeriodAt(now) > demand.period
  /\ demand' = MaybeRollDemandPeriod(demand, now)
  /\ now' = now

\* The account a pricing handler reads its price from, and what it leaves
\* there after a sale at cost.
Rolled == MaybeRollDemandPeriod(demand, now)
Tallied(d, cost) == [d EXCEPT !.purchases = @ + 1, !.revenue = @ + cost]

\* Rolling late changes nothing: whether the factor is brought up to date at
\* the start of the coming period or first touched k periods later, by the
\* per-period loop or by the closed form of maybe_roll_demand_period, the
\* account ends the same, so the price of a name at a moment does not depend
\* on who called when (RollHorizon periods ahead of every reachable account).
RollingIsTimely(RollHorizon) ==
  \A k \in 2 .. RollHorizon :
    LET next == PeriodLength * demand.period
        then == next + PeriodLength * (k - 1)
    IN  MaybeRollDemandPeriod(demand, then)
          = MaybeRollDemandPeriod(MaybeRollDemandPeriod(demand, next), then)
=============================================================================
