------------------------- MODULE StakeLedgerProofs -------------------------
(***************************************************************************)
(* Proofs about StakeLedger, for every set of accounts, every amount and   *)
(* every bound.                                                            *)
(***************************************************************************)
EXTENDS StakeLedger, SumTheorems

(* The accounts' keys are finitely many, so sums over them are defined. *)
LEMMA Finite ==
  /\ IsFiniteSet(Accounts)
  /\ IsFiniteSet(Operators)
  /\ IsFiniteSet(VaultIds)
  /\ IsFiniteSet(0 .. MaxVaults - 1)
<1>1. IsFiniteSet(Accounts)
  BY SetAssumption
<1>2. IsFiniteSet(Operators)
  BY SetAssumption, FS_Subset
<1>3. IsFiniteSet(0 .. MaxVaults - 1)
  BY BoundAssumption, FS_Interval
<1>4. IsFiniteSet(VaultIds)
  BY <1>1, <1>3, FS_Product DEF VaultIds
<1>. QED BY <1>1, <1>2, <1>3, <1>4

(* Rounding down: the quotient is a natural number and loses less than one *)
(* divisor.                                                                *)
LEMMA DivNat ==
  ASSUME NEW a \in Nat, NEW b \in Nat \ {0}
  PROVE  a \div b \in Nat /\ b * (a \div b) <= a /\ a < b * (a \div b) + b
OBVIOUS

(* A pair of keys is a Delegation's key. *)
LEMMA PairIn ==
  ASSUME NEW g \in Operators, NEW d \in Accounts
  PROVE  <<g, d>> \in Pairs
BY DEF Pairs

(* settle_delegate_rewards returns a natural number. *)
LEMMA PendingNat ==
  ASSUME TypeOK, NEW g \in Operators, NEW d \in Accounts
  PROVE  /\ del_amount[<<g, d>>] \in Nat /\ reward_debt[<<g, d>>] \in Nat
         /\ cumulative_reward[g] \in Nat
         /\ Pending(g, d) \in Nat
         /\ Principal(g, d) \in Nat
<1>1. <<g, d>> \in Pairs
  BY PairIn
<1>2. del_amount[<<g, d>>] \in Nat /\ reward_debt[<<g, d>>] \in Nat /\ cumulative_reward[g] \in Nat
  BY <1>1 DEF TypeOK, StakeTypes, DelegationTypes
<1>3. ASSUME cumulative_reward[g] > reward_debt[<<g, d>>]
      PROVE  del_amount[<<g, d>>] * (cumulative_reward[g] - reward_debt[<<g, d>>]) \in Nat
  BY <1>2, <1>3
<1>4. Pending(g, d) \in Nat
  BY <1>2, <1>3, DivNat, ScaleAssumption DEF Pending
<1>. QED BY <1>2, <1>4 DEF Principal

(* The redelegation fee's rate is a natural number. *)
LEMMA FeeRateNat ==
  ASSUME TypeOK, NEW d \in Accounts
  PROVE  FeeRate(d) \in Nat
<1>1. /\ now \in Nat
      /\ redelegation[d].count \in Nat
      /\ redelegation[d].fee_reset_at \in Nat
  BY DEF TypeOK, ClockTypes, DelegationTypes
<1>2. ASSUME NEW n \in Nat
      PROVE  (MinOf(FeeStep * n, FeeCap) * RateScale) \div 100 \in Nat
  <2>1. FeeStep * n \in Nat
    BY ScaleAssumption
  <2>2. MinOf(FeeStep * n, FeeCap) \in Nat
    BY <2>1, ScaleAssumption DEF MinOf
  <2>3. MinOf(FeeStep * n, FeeCap) * RateScale \in Nat
    BY <2>2, ScaleAssumption
  <2>. QED BY <2>3, DivNat
<1>. QED BY <1>1, <1>2 DEF FeeRate

(* The penalty's rate is a natural number. *)
LEMMA PenaltyRateNat ==
  ASSUME TypeOK, NEW v \in VaultIds, Open(v)
  PROVE  PenaltyRate(v) \in Nat
<1>. DEFINE elapsed == now - vault[v].created_at
            decay == ((MaxPenalty - MinPenalty) * elapsed) \div withdrawal_period
<1>1. /\ now \in Nat /\ vault[v].created_at \in Nat
      /\ withdrawal_period \in Nat \ {0}
  BY PeriodAssumption DEF TypeOK, ClockTypes, VaultTypes, Open, VaultRecord
<1>2. elapsed \in Int /\ MaxPenalty - MinPenalty \in Int
  BY <1>1, ScaleAssumption
<1>3. (MaxPenalty - MinPenalty) * elapsed \in Int
  BY <1>2
<1>4. decay \in Int
  BY <1>1, <1>3
<1>. HIDE DEF elapsed, decay
<1>5. \A n \in Int : MinOf(MaxOf(SatSub(MaxPenalty, n), MinPenalty), MaxPenalty) \in Nat
  BY ScaleAssumption DEF MinOf, MaxOf, SatSub
<1>6. MinPenalty \in Nat
  BY ScaleAssumption
<1>. QED BY <1>4, <1>5, <1>6 DEF PenaltyRate, elapsed, decay

(* A saturating subtraction of natural numbers. *)
LEMMA SatSubNat ==
  ASSUME NEW a \in Nat, NEW b \in Nat
  PROVE  SatSub(a, b) \in Nat /\ SatSub(a, b) <= a
BY DEF SatSub

(* What a distribution batch works out is natural, and it transfers no more *)
(* than the treasury holds.                                                 *)
LEMMA BatchNat ==
  ASSUME TypeOK, NEW o \in [Operators -> Outcomes]
  PROVE  /\ BatchTotal(o) \in Nat
         /\ Transferred(o) \in Nat
         /\ Transferred(o) <= treasury
         /\ Transferred(o) <= BatchTotal(o)
         /\ \A g \in Operators : /\ o[g].reward \in Nat
                                 /\ o[g].reward <= BatchTotal(o)
                                 /\ Scaled(o, g) \in Nat
                                 /\ DelegatePool(o, g) \in Nat
                                 /\ DelegatePool(o, g) <= Scaled(o, g)
                                 /\ OperatorReward(o, g) \in Nat
                                 /\ Orphaned(o, g) \in Nat
                                 /\ Increment(o, g) \in Nat
<1>. DEFINE r == [g \in Operators |-> o[g].reward]
<1>1. \A g \in Operators : o[g] \in OutcomeRecord
  BY InputAssumption
<1>2. \A g \in Operators : /\ o[g].reward \in Nat
                           /\ o[g].share \in 0 .. ShareScale
                           /\ r[g] = o[g].reward
  BY <1>1 DEF OutcomeRecord
<1>3. BatchTotal(o) \in Nat /\ \A g \in Operators : o[g].reward <= BatchTotal(o)
  <2>. HIDE DEF r
  <2>1. SumFunctionOnSet(r, Operators) \in Nat
    BY <1>2, Finite, SumNat
  <2>2. \A g \in Operators : r[g] <= SumFunctionOnSet(r, Operators)
    BY <1>2, Finite, SumMember
  <2>. QED BY <1>2, <2>1, <2>2 DEF BatchTotal, r
<1>4. treasury \in Nat
  BY DEF TypeOK, TokenTypes
<1>5. Transferred(o) \in Nat /\ Transferred(o) <= treasury /\ Transferred(o) <= BatchTotal(o)
  BY <1>3, <1>4 DEF Transferred, MinOf
<1>6. ASSUME NEW g \in Operators
      PROVE  /\ Scaled(o, g) \in Nat
             /\ DelegatePool(o, g) \in Nat
             /\ DelegatePool(o, g) <= Scaled(o, g)
             /\ OperatorReward(o, g) \in Nat
             /\ Orphaned(o, g) \in Nat
             /\ Increment(o, g) \in Nat
  <2>1. o[g].reward * Transferred(o) \in Nat
    BY <1>2, <1>5
  <2>2. o[g].reward > 0 => BatchTotal(o) \in Nat \ {0}
    BY <1>2, <1>3
  <2>3. Scaled(o, g) \in Nat
    BY <2>1, <2>2, DivNat DEF Scaled
  <2>4. Scaled(o, g) * o[g].share \in Nat /\ Scaled(o, g) * o[g].share <= Scaled(o, g) * ShareScale
    <3>1. \A n, s \in Nat : s <= ShareScale => n * s \in Nat /\ n * s <= n * ShareScale
      BY ScaleAssumption
    <3>. QED BY <3>1, <2>3, <1>2, ScaleAssumption
  <2>5. /\ (Scaled(o, g) * o[g].share) \div ShareScale \in Nat
        /\ (Scaled(o, g) * o[g].share) \div ShareScale <= Scaled(o, g)
    <3>1. \A m, n \in Nat : m <= n * ShareScale => m \div ShareScale <= n
      BY ScaleAssumption
    <3>. QED BY <2>3, <2>4, <3>1, DivNat, ScaleAssumption
  <2>6. DelegatePool(o, g) \in Nat /\ DelegatePool(o, g) <= Scaled(o, g)
    BY <2>3, <2>5 DEF DelegatePool
  <2>7. OperatorReward(o, g) \in Nat
    BY <2>3, <2>6, SatSubNat DEF OperatorReward
  <2>8. Orphaned(o, g) \in Nat
    BY <2>6 DEF Orphaned
  <2>9. DelegatePool(o, g) * RewardPrecision \in Nat
    BY <2>6, ScaleAssumption
  <2>10. total_delegated_stake[g] \in Nat
    BY DEF TypeOK, StakeTypes
  <2>11. Increment(o, g) \in Nat
    BY <2>9, <2>10, DivNat DEF Increment
  <2>. QED BY <2>3, <2>6, <2>7, <2>8, <2>11
<1>. QED BY <1>2, <1>3, <1>5, <1>6

(* The totals of a batch are natural. *)
LEMMA BatchSums ==
  ASSUME TypeOK, NEW o \in [Operators -> Outcomes]
  PROVE  /\ SumFunctionOnSet([g \in Operators |-> Orphaned(o, g)], Operators) \in Nat
         /\ SumFunctionOnSet([g \in Operators |-> OperatorReward(o, g)], Operators) \in Nat
<1>. DEFINE n == [g \in Operators |-> Orphaned(o, g)]
            e == [g \in Operators |-> OperatorReward(o, g)]
<1>1. \A g \in Operators : n[g] \in Nat /\ e[g] \in Nat
  BY BatchNat
<1>. HIDE DEF n, e
<1>2. SumFunctionOnSet(n, Operators) \in Nat /\ SumFunctionOnSet(e, Operators) \in Nat
  BY <1>1, Finite, SumNat
<1>. QED BY <1>2 DEF n, e

(* What a funding plan works out is natural. *)
LEMMA PlanNat ==
  ASSUME TypeOK, NEW a \in Accounts, NEW p \in Plans, PlanAllowed(a, p)
  PROVE  /\ p.balance \in Nat /\ p.stake \in Nat /\ p.balance <= wallet[a]
         /\ p.delegation \in [Operators -> Nat]
         /\ p.vaults \in [0 .. MaxVaults - 1 -> Nat]
         /\ \A g \in Operators :
              /\ PlanSettled(a, p, g) \in Nat
              /\ PlanPost(a, p, g) \in Nat
              /\ PlanResidue(a, p, g) \in Nat
              /\ PlanResidue(a, p, g) <= PlanPost(a, p, g)
              /\ total_delegated_stake[g] + PlanSettled(a, p, g)
                   - p.delegation[g] - PlanResidue(a, p, g) \in Nat
<1>1. p \in PlanRecord
  BY InputAssumption
<1>2. /\ p.balance \in Nat /\ p.stake \in Nat
      /\ p.delegation \in [Operators -> Nat]
      /\ p.vaults \in [0 .. MaxVaults - 1 -> Nat]
  BY <1>1 DEF PlanRecord
<1>3. p.balance <= wallet[a]
  BY <1>2 DEF PlanAllowed, TypeOK, TokenTypes
<1>4. ASSUME NEW g \in Operators
      PROVE  /\ PlanSettled(a, p, g) \in Nat
             /\ PlanPost(a, p, g) \in Nat
             /\ PlanResidue(a, p, g) \in Nat
             /\ PlanResidue(a, p, g) <= PlanPost(a, p, g)
             /\ total_delegated_stake[g] + PlanSettled(a, p, g)
                  - p.delegation[g] - PlanResidue(a, p, g) \in Nat
  <2>0. /\ p.delegation[g] \in Nat /\ total_delegated_stake[g] \in Nat
        /\ settings[g].min_delegation \in Nat
    BY <1>2 DEF TypeOK, StakeTypes, GatewayTypes, SettingsRecord
  <2>1. PlanSettled(a, p, g) \in Nat
    BY PendingNat DEF PlanSettled
  <2>2. del_amount[<<g, a>>] \in Nat
    BY PendingNat
  <2>3. PlanPost(a, p, g) \in Int
    BY <2>0, <2>1, <2>2 DEF PlanPost
  <2>4. CASE p.delegation[g] > 0
    <3>1. /\ PlanPost(a, p, g) >= 0
          /\ total_delegated_stake[g] + PlanSettled(a, p, g)
               >= p.delegation[g] + PlanResidue(a, p, g)
      BY <2>4, <2>0 DEF PlanAllowed, PlanDelegations
    <3>2. PlanResidue(a, p, g) \in Nat /\ PlanResidue(a, p, g) <= PlanPost(a, p, g)
      BY <3>1, <2>3, <2>0 DEF PlanResidue
    <3>. QED BY <3>1, <3>2, <2>0, <2>1, <2>3
  <2>5. CASE ~(p.delegation[g] > 0)
    BY <2>5, <2>0, <2>2 DEF PlanSettled, PlanPost, PlanResidue
  <2>. QED BY <2>4, <2>5
<1>. QED BY <1>2, <1>3, <1>4

(* The prices of a funding plan's parts add up to natural numbers. *)
LEMMA PlanSums ==
  ASSUME TypeOK, NEW a \in Accounts, NEW p \in Plans, PlanAllowed(a, p)
  PROVE  /\ SumFunctionOnSet([g \in Operators |-> PlanSettled(a, p, g)], Operators) \in Nat
         /\ SumFunctionOnSet(p.delegation, Operators) \in Nat
         /\ SumFunctionOnSet([g \in Operators |-> PlanResidue(a, p, g)], Operators) \in Nat
         /\ SumFunctionOnSet(p.vaults, 0 .. MaxVaults - 1) \in Nat
         /\ PlanVaultIds(a, p) \in Nat
<1>. DEFINE s == [g \in Operators |-> PlanSettled(a, p, g)]
            r == [g \in Operators |-> PlanResidue(a, p, g)]
<1>1. /\ \A g \in Operators : s[g] \in Nat /\ r[g] \in Nat /\ p.delegation[g] \in Nat
      /\ \A i \in 0 .. MaxVaults - 1 : p.vaults[i] \in Nat
  BY PlanNat
<1>2. PlanVaultIds(a, p) \in Nat
  <2>1. IsFiniteSet(PlanResidues(a, p))
    BY Finite, FS_Subset DEF PlanResidues
  <2>. QED BY <2>1, FS_CardinalityType DEF PlanVaultIds
<1>. HIDE DEF s, r
<1>3. /\ SumFunctionOnSet(s, Operators) \in Nat
      /\ SumFunctionOnSet(r, Operators) \in Nat
      /\ SumFunctionOnSet(p.delegation, Operators) \in Nat
      /\ SumFunctionOnSet(p.vaults, 0 .. MaxVaults - 1) \in Nat
  BY <1>1, Finite, SumNat
<1>. QED BY <1>2, <1>3 DEF s, r

(* The types of the values that the helpers write. *)
LEMMA VaultOfType ==
  ASSUME TypeOK, NEW g \in Operators, NEW period \in Nat,
         NEW isDelegate \in BOOLEAN, NEW isProtected \in BOOLEAN
  PROVE  VaultOf(g, period, isDelegate, isProtected) \in VaultRecord
BY DEF TypeOK, ClockTypes, VaultOf, VaultRecord

LEMMA OpenVaultType ==
  ASSUME TypeOK, NEW o \in Accounts, NEW g \in Operators, NEW amount \in Nat,
         NEW isDelegate \in BOOLEAN, OpenVault(o, g, amount, isDelegate)
  PROVE  VaultTypes'
<1>1. VaultOf(g, withdrawal_period, isDelegate, FALSE) \in VaultRecord
  BY VaultOfType, PeriodAssumption DEF TypeOK, ClockTypes
<1>2. vault' \in [VaultIds -> VaultRecord \cup {NoVault}]
  BY <1>1 DEF TypeOK, VaultTypes, OpenVault
<1>3. vault_amount' \in [VaultIds -> Nat]
  BY DEF TypeOK, VaultTypes, OpenVault
<1>4. next_id' \in [Accounts -> Nat]
  BY DEF TypeOK, VaultTypes, OpenVault
<1>. QED BY <1>2, <1>3, <1>4 DEF VaultTypes

LEMMA CloseVaultType ==
  ASSUME TypeOK, NEW v \in VaultIds, CloseVault(v)
  PROVE  VaultTypes'
BY DEF TypeOK, VaultTypes, CloseVault

LEMMA ExitVaultsType ==
  ASSUME TypeOK, NEW g \in Operators, NEW amount \in Nat, OpenExitVaults(g, amount)
  PROVE  VaultTypes'
<1>. DEFINE protected == MinOf(amount, MinOperatorStake)
            excess == SatSub(amount, MinOperatorStake)
<1>1. protected \in Nat /\ excess \in Nat
  BY LimitAssumption, SatSubNat DEF MinOf
<1>2. /\ VaultOf(g, IF protected > 0 THEN LeavePeriod ELSE 0, FALSE, protected > 0) \in VaultRecord
      /\ VaultOf(g, withdrawal_period, FALSE, FALSE) \in VaultRecord
  <2>1. /\ (IF protected > 0 THEN LeavePeriod ELSE 0) \in Nat
        /\ withdrawal_period \in Nat
        /\ (protected > 0) \in BOOLEAN
    BY PeriodAssumption DEF TypeOK, ClockTypes
  <2>. QED BY <2>1, VaultOfType, Zenon
<1>3. vault' \in [VaultIds -> VaultRecord \cup {NoVault}]
  <2>. DEFINE exitVault == VaultOf(g, IF protected > 0 THEN LeavePeriod ELSE 0, FALSE, protected > 0)
              otherVault == VaultOf(g, withdrawal_period, FALSE, FALSE)
              exit == <<g, next_id[g]>>
              other == <<g, next_id[g] + 1>>
  <2>1. vault' = [v \in VaultIds |-> CASE v = exit -> exitVault
                                      [] v = other /\ excess > 0 -> otherVault
                                      [] OTHER -> vault[v]]
    BY DEF OpenExitVaults
  <2>2. exitVault \in VaultRecord /\ otherVault \in VaultRecord
    BY <1>2
  <2>3. vault \in [VaultIds -> VaultRecord \cup {NoVault}]
    BY DEF TypeOK, VaultTypes
  <2>. HIDE DEF exitVault, otherVault, exit, other, excess
  <2>4. ASSUME NEW v \in VaultIds PROVE vault'[v] \in VaultRecord \cup {NoVault}
    BY <2>1, <2>2, <2>3
  <2>. QED BY <2>1, <2>4
<1>4. vault_amount' \in [VaultIds -> Nat]
  BY <1>1 DEF OpenExitVaults, TypeOK, VaultTypes
<1>5. next_id' \in [Accounts -> Nat]
  BY SetAssumption DEF OpenExitVaults, TypeOK, VaultTypes, ExitIds
<1>. QED BY <1>3, <1>4, <1>5 DEF VaultTypes

LEMMA SetPrincipalType ==
  ASSUME TypeOK, NEW g \in Operators, NEW d \in Accounts, NEW p \in Nat,
         SetPrincipal(g, d, p)
  PROVE  /\ del_amount' \in [Pairs -> Nat]
         /\ reward_debt' \in [Pairs -> Nat]
BY PairIn DEF TypeOK, StakeTypes, DelegationTypes, SetPrincipal

(* Moving a delegation to a vault keeps the types. *)
LEMMA DelegationToVaultType ==
  ASSUME TypeOK, NEW g \in Operators, NEW d \in Accounts, NEW amount \in Nat,
         Principal(g, d) - amount \in Nat, DelegationToVault(g, d, amount)
  PROVE  TypeOK'
<1>1. Pending(g, d) \in Nat
  BY PendingNat
<1>2. /\ total_delegated_stake[g] + Pending(g, d) \in Nat
      /\ total_delegated + Pending(g, d) \in Nat
  BY <1>1 DEF TypeOK, StakeTypes, CounterTypes
<1>3. del_amount' \in [Pairs -> Nat] /\ reward_debt' \in [Pairs -> Nat]
  BY SetPrincipalType DEF DelegationToVault
<1>4. VaultTypes'
  BY OpenVaultType DEF DelegationToVault
<1>5. CounterTypes'
  BY <1>2, SatSubNat DEF TypeOK, CounterTypes, DelegationToVault
<1>6. StakeTypes'
  BY <1>2, SatSubNat DEF TypeOK, StakeTypes, DelegationToVault
<1>7. DelegationTypes'
  BY <1>3 DEF TypeOK, DelegationTypes, DelegationToVault, otherVars
<1>8. ClockTypes' /\ TokenTypes' /\ GatewayTypes'
  BY DEF TypeOK, ClockTypes, TokenTypes, GatewayTypes, DelegationToVault,
         clockVars, tokenVars, gatewayVars, otherVars
<1>. QED BY <1>4, <1>5, <1>6, <1>7, <1>8 DEF TypeOK

(* Redelegating keeps the types. *)
LEMMA RedelegateType ==
  ASSUME TypeOK, NEW d \in Accounts, NEW g \in Operators, NEW h \in Operators,
         NEW amount \in Amounts, RedelegateStake(d, g, h, amount)
  PROVE  TypeOK'
<1>. DEFINE fee == (amount * FeeRate(d)) \div RateScale
            net == SatSub(amount, fee)
            remaining == Principal(g, d) - amount
<1>1. amount \in Nat /\ FeeRate(d) \in Nat
  BY InputAssumption, FeeRateNat
<1>2. amount * FeeRate(d) \in Nat
  BY <1>1
<1>3. fee \in Nat /\ net \in Nat
  BY <1>1, <1>2, DivNat, ScaleAssumption, SatSubNat
<1>4. /\ Pending(g, d) \in Nat /\ Pending(h, d) \in Nat
      /\ Principal(g, d) \in Nat /\ Principal(h, d) \in Nat
      /\ <<g, d>> \in Pairs /\ <<h, d>> \in Pairs
  BY PendingNat, PairIn
<1>5. remaining \in Nat
  BY <1>1, <1>4 DEF RedelegateStake
<1>6. /\ delegations' = delegations \cup {<<h, d>>}
      /\ del_amount' = [del_amount EXCEPT
           ![<<g, d>>] = remaining, ![<<h, d>>] = Principal(h, d) + net]
      /\ reward_debt' = [reward_debt EXCEPT
           ![<<g, d>>] = cumulative_reward[g], ![<<h, d>>] = cumulative_reward[h]]
      /\ total_delegated_stake' = [total_delegated_stake EXCEPT
           ![g] = SatSub(@ + Pending(g, d), amount), ![h] = @ + Pending(h, d) + net]
      /\ PoolToTreasury(fee)
      /\ total_delegated' = SatSub(total_delegated + Pending(g, d) + Pending(h, d), fee)
      /\ redelegation' = [redelegation EXCEPT ![d] =
           [count |-> IF now >= @.fee_reset_at THEN 1 ELSE @.count + 1,
            fee_reset_at |-> now + FeeResetInterval]]
      /\ UNCHANGED <<withdrawal_period, allowlist, total_staked,
                     total_withdrawn, operator_stake, cumulative_reward,
                     clockVars, gatewayVars, vaultVars>>
  BY DEF RedelegateStake
<1>. HIDE DEF fee, net, remaining
<1>7. DelegationTypes'
  <2>0. /\ del_amount \in [Pairs -> Nat] /\ reward_debt \in [Pairs -> Nat]
        /\ cumulative_reward[g] \in Nat /\ cumulative_reward[h] \in Nat
        /\ Principal(h, d) + net \in Nat
    BY <1>3, <1>4 DEF TypeOK, DelegationTypes, StakeTypes
  <2>1. del_amount' \in [Pairs -> Nat] /\ reward_debt' \in [Pairs -> Nat]
    BY <1>4, <1>5, <1>6, <2>0
  <2>2. redelegation' \in [Accounts -> [count : Nat, fee_reset_at : Nat]]
    BY <1>6, PeriodAssumption DEF TypeOK, DelegationTypes, ClockTypes
  <2>. QED BY <1>4, <1>6, <2>1, <2>2 DEF TypeOK, DelegationTypes
<1>8. StakeTypes'
  <2>1. total_delegated_stake[g] + Pending(g, d) \in Nat
    BY <1>4 DEF TypeOK, StakeTypes
  <2>2. SatSub(total_delegated_stake[g] + Pending(g, d), amount) \in Nat
    BY <1>1, <2>1, SatSubNat
  <2>. QED BY <1>3, <1>4, <1>6, <2>2 DEF TypeOK, StakeTypes
<1>9. CounterTypes'
  <2>1. total_delegated + Pending(g, d) + Pending(h, d) \in Nat
    BY <1>4 DEF TypeOK, CounterTypes
  <2>. QED BY <1>3, <1>6, <2>1, SatSubNat DEF TypeOK, CounterTypes
<1>10. TokenTypes'
  BY <1>3, <1>6 DEF TypeOK, TokenTypes, PoolToTreasury
<1>11. ClockTypes' /\ GatewayTypes' /\ VaultTypes'
  BY <1>6 DEF TypeOK, ClockTypes, GatewayTypes, VaultTypes,
              clockVars, gatewayVars, vaultVars
<1>. QED BY <1>7, <1>8, <1>9, <1>10, <1>11 DEF TypeOK

(* An instant withdrawal keeps the types. *)
LEMMA InstantType ==
  ASSUME TypeOK, NEW v \in VaultIds, InstantWithdrawal(v)
  PROVE  TypeOK'
<1>. DEFINE fee == (vault_amount[v] * PenaltyRate(v)) \div RateScale
            payout == SatSub(vault_amount[v], fee)
<1>1. vault_amount[v] \in Nat /\ v[1] \in Accounts /\ PenaltyRate(v) \in Nat
  BY PenaltyRateNat DEF TypeOK, VaultTypes, VaultIds, InstantWithdrawal
<1>2. vault_amount[v] * PenaltyRate(v) \in Nat
  BY <1>1
<1>3. fee \in Nat /\ payout \in Nat
  BY <1>1, <1>2, DivNat, ScaleAssumption, SatSubNat
<1>4. VaultTypes'
  BY CloseVaultType DEF InstantWithdrawal
<1>5. /\ PoolToWallet(v[1], payout, fee)
      /\ total_withdrawn' = SatSub(total_withdrawn, vault_amount[v])
      /\ UNCHANGED <<total_staked, total_delegated, clockVars, stakeVars,
                     gatewayVars, delegationVars, otherVars>>
  BY DEF InstantWithdrawal
<1>. HIDE DEF fee, payout
<1>6. TokenTypes'
  BY <1>1, <1>3, <1>5 DEF TypeOK, TokenTypes, PoolToWallet
<1>7. CounterTypes'
  BY <1>1, <1>5, SatSubNat DEF TypeOK, CounterTypes
<1>8. ClockTypes' /\ StakeTypes' /\ GatewayTypes' /\ DelegationTypes'
  BY <1>5 DEF TypeOK, ClockTypes, StakeTypes, GatewayTypes, DelegationTypes,
              clockVars, stakeVars, gatewayVars, delegationVars, otherVars
<1>. QED BY <1>4, <1>6, <1>7, <1>8 DEF TypeOK

(* Paying from a funding plan keeps the types. *)
LEMMA PlanType ==
  ASSUME TypeOK, NEW a \in Accounts, NEW p \in Plans, NEW slot \in PlanSlots(a, p),
         PayFromFundingPlan(a, p, slot)
  PROVE  TypeOK'
<1>. DEFINE R == PlanResidues(a, p)
            paid == SumFunctionOnSet(p.delegation, Operators)
            drained == SumFunctionOnSet(p.vaults, 0 .. MaxVaults - 1)
            settled == SumFunctionOnSet([g \in Operators |-> PlanSettled(a, p, g)], Operators)
            residue == SumFunctionOnSet([g \in Operators |-> PlanResidue(a, p, g)], Operators)
            fromPool == paid + p.stake + drained
<1>1. PlanAllowed(a, p)
  BY DEF PayFromFundingPlan
<1>2. /\ paid \in Nat /\ drained \in Nat /\ settled \in Nat /\ residue \in Nat
      /\ PlanVaultIds(a, p) \in Nat
  BY <1>1, PlanSums
<1>3. /\ stake_pool >= fromPool
      /\ wallet' = [wallet EXCEPT ![a] = @ - p.balance]
      /\ stake_pool' = stake_pool - fromPool
      /\ treasury' = treasury + fromPool + p.balance
      /\ next_id' = [next_id EXCEPT ![a] = @ + PlanVaultIds(a, p)]
      /\ total_delegated' = SatSub(SatSub(total_delegated + settled, paid), residue)
      /\ total_staked' = SatSub(total_staked, p.stake)
      /\ total_withdrawn' = SatSub(total_withdrawn, drained) + residue
      /\ UNCHANGED <<delegations, cumulative_reward, clockVars, gatewayVars, otherVars>>
  BY DEF PayFromFundingPlan
<1>4. p.balance \in Nat /\ p.stake \in Nat /\ p.balance <= wallet[a]
  BY <1>1, PlanNat
<1>5. VaultTypes'
  <2>1. vault' = [v \in VaultIds |->
             IF \E g \in R : v = <<a, slot[g]>>
               THEN VaultOf(CHOOSE g \in R : v = <<a, slot[g]>>,
                            withdrawal_period, TRUE, FALSE)
               ELSE vault[v]]
    BY DEF PayFromFundingPlan
  <2>2. vault_amount' = [v \in VaultIds |->
             IF \E g \in R : v = <<a, slot[g]>>
               THEN PlanResidue(a, p, CHOOSE g \in R : v = <<a, slot[g]>>)
             ELSE IF v[1] = a THEN vault_amount[v] - p.vaults[v[2]]
             ELSE vault_amount[v]]
    BY DEF PayFromFundingPlan
  <2>3. \A g \in R : g \in Operators
    BY DEF PlanResidues
  <2>. HIDE DEF R
  <2>4. ASSUME NEW v \in VaultIds, \E g \in R : v = <<a, slot[g]>>
        PROVE  (CHOOSE g \in R : v = <<a, slot[g]>>) \in Operators
    BY <2>3, <2>4
  <2>5. \A g \in Operators : /\ VaultOf(g, withdrawal_period, TRUE, FALSE) \in VaultRecord
                             /\ PlanResidue(a, p, g) \in Nat
    <3>1. withdrawal_period \in Nat /\ TRUE \in BOOLEAN /\ FALSE \in BOOLEAN
      BY PeriodAssumption DEF TypeOK, ClockTypes
    <3>2. ASSUME NEW g \in Operators
          PROVE  VaultOf(g, withdrawal_period, TRUE, FALSE) \in VaultRecord
      BY <3>1, VaultOfType
    <3>3. \A g \in Operators : PlanResidue(a, p, g) \in Nat
      BY <1>1, PlanNat
    <3>. QED BY <3>2, <3>3
  <2>6. ASSUME NEW v \in VaultIds, v[1] = a
        PROVE  vault_amount[v] - p.vaults[v[2]] \in Nat
    <3>1. v = <<a, v[2]>> /\ v[2] \in 0 .. MaxVaults - 1
      BY <2>6 DEF VaultIds
    <3>2. p.vaults[v[2]] \in Nat /\ vault_amount[v] \in Nat
      BY <1>1, <3>1, PlanNat DEF TypeOK, VaultTypes
    <3>3. p.vaults[v[2]] > 0 => vault_amount[v] >= p.vaults[v[2]]
      BY <1>1, <3>1 DEF PlanAllowed, PlanVaults
    <3>. QED BY <3>2, <3>3
  <2>7. /\ vault \in [VaultIds -> VaultRecord \cup {NoVault}]
        /\ vault_amount \in [VaultIds -> Nat]
    BY DEF TypeOK, VaultTypes
  <2>8. ASSUME NEW v \in VaultIds
        PROVE  vault'[v] \in VaultRecord \cup {NoVault}
    <3>1. CASE \E g \in R : v = <<a, slot[g]>>
      <4>1. vault'[v] = VaultOf(CHOOSE g \in R : v = <<a, slot[g]>>,
                                withdrawal_period, TRUE, FALSE)
        BY <2>1, <3>1
      <4>2. PICK g \in Operators : g = CHOOSE f \in R : v = <<a, slot[f]>>
        BY <2>4, <3>1
      <4>. QED BY <4>1, <4>2, <2>5
    <3>2. CASE ~ \E g \in R : v = <<a, slot[g]>>
      BY <2>1, <2>7, <3>2
    <3>. QED BY <3>1, <3>2
  <2>9. ASSUME NEW v \in VaultIds PROVE vault_amount'[v] \in Nat
    <3>1. CASE \E g \in R : v = <<a, slot[g]>>
      <4>1. vault_amount'[v] = PlanResidue(a, p, CHOOSE g \in R : v = <<a, slot[g]>>)
        BY <2>2, <3>1
      <4>2. PICK g \in Operators : g = CHOOSE f \in R : v = <<a, slot[f]>>
        BY <2>4, <3>1
      <4>. QED BY <4>1, <4>2, <2>5
    <3>2. CASE ~ \E g \in R : v = <<a, slot[g]>>
      BY <2>2, <2>6, <2>7, <3>2
    <3>. QED BY <3>1, <3>2
  <2>10. next_id' \in [Accounts -> Nat]
    BY <1>2, <1>3 DEF TypeOK, VaultTypes
  <2>. QED BY <2>1, <2>2, <2>8, <2>9, <2>10 DEF VaultTypes
<1>6. DelegationTypes'
  <2>1. \A q \in Pairs : q[1] \in Operators
    BY DEF Pairs
  <2>2. /\ del_amount' = [q \in Pairs |->
             IF q[2] = a /\ p.delegation[q[1]] > 0
               THEN PlanPost(a, p, q[1]) - PlanResidue(a, p, q[1])
               ELSE del_amount[q]]
        /\ reward_debt' = [q \in Pairs |->
             IF q[2] = a /\ p.delegation[q[1]] > 0
               THEN cumulative_reward[q[1]] ELSE reward_debt[q]]
    BY DEF PayFromFundingPlan
  <2>3. \A g \in Operators : PlanPost(a, p, g) - PlanResidue(a, p, g) \in Nat
    BY <1>1, PlanNat
  <2>4. del_amount' \in [Pairs -> Nat]
    BY <2>1, <2>2, <2>3 DEF TypeOK, DelegationTypes
  <2>5. reward_debt' \in [Pairs -> Nat]
    BY <2>1, <2>2 DEF TypeOK, DelegationTypes, StakeTypes
  <2>. QED BY <1>3, <2>4, <2>5 DEF TypeOK, DelegationTypes, otherVars
<1>7. StakeTypes'
  <2>1. /\ total_delegated_stake' = [g \in Operators |->
             total_delegated_stake[g] + PlanSettled(a, p, g)
               - p.delegation[g] - PlanResidue(a, p, g)]
        /\ operator_stake' = [g \in Operators |->
             IF g = a THEN operator_stake[g] - p.stake ELSE operator_stake[g]]
    BY DEF PayFromFundingPlan
  <2>2. total_delegated_stake' \in [Operators -> Nat]
    BY <1>1, <2>1, PlanNat
  <2>3. a \in Operators => operator_stake[a] - p.stake \in Nat
    BY <1>1, <1>4, LimitAssumption DEF TypeOK, StakeTypes, PlanAllowed
  <2>4. operator_stake' \in [Operators -> Nat]
    BY <2>1, <2>3 DEF TypeOK, StakeTypes
  <2>. QED BY <1>3, <2>2, <2>4 DEF TypeOK, StakeTypes
<1>. HIDE DEF paid, drained, settled, residue, R
<1>8. CounterTypes'
  <2>1. total_delegated + settled \in Nat
    BY <1>2 DEF TypeOK, CounterTypes
  <2>2. SatSub(total_delegated + settled, paid) \in Nat
    BY <2>1, <1>2, SatSubNat
  <2>3. SatSub(SatSub(total_delegated + settled, paid), residue) \in Nat
    BY <2>2, <1>2, SatSubNat
  <2>4. SatSub(total_staked, p.stake) \in Nat /\ SatSub(total_withdrawn, drained) \in Nat
    BY <1>2, <1>4, SatSubNat DEF TypeOK, CounterTypes
  <2>. QED BY <2>3, <2>4, <1>2, <1>3 DEF CounterTypes
<1>9. TokenTypes'
  BY <1>2, <1>3, <1>4 DEF TypeOK, TokenTypes
<1>10. ClockTypes' /\ GatewayTypes'
  BY <1>3 DEF TypeOK, ClockTypes, GatewayTypes, clockVars, gatewayVars, otherVars
<1>. QED BY <1>5, <1>6, <1>7, <1>8, <1>9, <1>10 DEF TypeOK

(* A distribution batch keeps the types; it never overdraws the treasury. *)
LEMMA BatchType ==
  ASSUME TypeOK, NEW o \in [Operators -> Outcomes], DistributeEpoch(o)
  PROVE  TypeOK'
<1>. DEFINE orphaned == SumFunctionOnSet([g \in Operators |-> Orphaned(o, g)], Operators)
            earned == SumFunctionOnSet([g \in Operators |-> OperatorReward(o, g)], Operators)
            paid == SatSub(Transferred(o), orphaned)
<1>1. orphaned \in Nat /\ earned \in Nat
  BY BatchSums
<1>2. /\ rounds < MaxRounds
      /\ operator_stake' = [g \in Operators |-> operator_stake[g] + OperatorReward(o, g)]
      /\ cumulative_reward' = [g \in Operators |-> cumulative_reward[g] + Increment(o, g)]
      /\ failed_consecutive' = [g \in Operators |->
           IF ~o[g].eligible THEN failed_consecutive[g]
           ELSE IF o[g].failed THEN failed_consecutive[g] + 1 ELSE 0]
      /\ stake_pool' = stake_pool + paid
      /\ treasury' = treasury - paid
      /\ total_staked' = total_staked + earned
      /\ rounds' = rounds + 1
      /\ UNCHANGED <<now, wallet, total_delegated, total_withdrawn,
                     total_delegated_stake, status, settings,
                     leave_timestamp, delegationVars, vaultVars, otherVars>>
  BY DEF DistributeEpoch
<1>. HIDE DEF orphaned, earned
<1>3. paid \in Nat /\ paid <= treasury
  <2>1. treasury \in Nat /\ Transferred(o) \in Nat /\ Transferred(o) <= treasury
    BY BatchNat DEF TypeOK, TokenTypes
  <2>. QED BY <1>1, <2>1 DEF SatSub
<1>. HIDE DEF paid
<1>4. StakeTypes'
  BY <1>2, BatchNat DEF TypeOK, StakeTypes
<1>5. GatewayTypes'
  BY <1>2 DEF TypeOK, GatewayTypes
<1>6. TokenTypes' /\ CounterTypes'
  BY <1>1, <1>2, <1>3 DEF TypeOK, TokenTypes, CounterTypes
<1>7. ClockTypes'
  BY <1>2, BoundAssumption DEF TypeOK, ClockTypes, otherVars
<1>8. DelegationTypes' /\ VaultTypes'
  BY <1>2 DEF TypeOK, DelegationTypes, VaultTypes, delegationVars, vaultVars, otherVars
<1>. QED BY <1>4, <1>5, <1>6, <1>7, <1>8 DEF TypeOK

(* Every step keeps the types. *)
LEMMA TypeStep == TypeOK /\ [Next]_vars => TypeOK'
<1>. SUFFICES ASSUME TypeOK, [Next]_vars PROVE TypeOK'
  OBVIOUS
<1>. USE DEF clockVars, tokenVars, counterVars, stakeVars, gatewayVars,
             delegationVars, vaultVars, otherVars
<1>1. ASSUME NEW g \in Operators, NEW stake \in Amounts,
             NEW allow \in BOOLEAN, NEW min \in MinDelegations,
             JoinNetwork(g, stake, allow, min)
      PROVE  TypeOK'
  <2>1. stake \in Nat /\ min \in Nat /\ g \in Accounts
    BY InputAssumption, LimitAssumption, SetAssumption
  <2>2. TokenTypes'
    BY <1>1, <2>1 DEF TypeOK, TokenTypes, JoinNetwork, WalletToPool
  <2>3. CounterTypes'
    BY <1>1, <2>1 DEF TypeOK, CounterTypes, JoinNetwork
  <2>4. StakeTypes'
    BY <1>1, <2>1 DEF TypeOK, StakeTypes, JoinNetwork
  <2>5. GatewayTypes'
    BY <1>1, <2>1 DEF TypeOK, GatewayTypes, JoinNetwork, SettingsRecord
  <2>6. ClockTypes' /\ DelegationTypes' /\ VaultTypes'
    BY <1>1 DEF TypeOK, ClockTypes, DelegationTypes, VaultTypes, JoinNetwork
  <2>. QED BY <2>2, <2>3, <2>4, <2>5, <2>6 DEF TypeOK
<1>2. ASSUME NEW g \in Operators, NEW amount \in Amounts,
             IncreaseOperatorStake(g, amount)
      PROVE  TypeOK'
  <2>1. amount \in Nat /\ g \in Accounts
    BY InputAssumption, SetAssumption
  <2>2. TokenTypes'
    BY <1>2, <2>1 DEF TypeOK, TokenTypes, IncreaseOperatorStake, WalletToPool
  <2>3. CounterTypes'
    BY <1>2, <2>1 DEF TypeOK, CounterTypes, IncreaseOperatorStake
  <2>4. StakeTypes'
    BY <1>2, <2>1 DEF TypeOK, StakeTypes, IncreaseOperatorStake
  <2>5. ClockTypes' /\ GatewayTypes' /\ DelegationTypes' /\ VaultTypes'
    BY <1>2 DEF TypeOK, ClockTypes, GatewayTypes, DelegationTypes, VaultTypes,
       IncreaseOperatorStake
  <2>. QED BY <2>2, <2>3, <2>4, <2>5 DEF TypeOK
<1>3. ASSUME NEW g \in Operators, NEW amount \in Amounts,
             DecreaseOperatorStake(g, amount)
      PROVE  TypeOK'
  <2>1. amount \in Nat /\ operator_stake[g] \in Nat /\ g \in Accounts
    BY InputAssumption, SetAssumption DEF TypeOK, StakeTypes
  <2>2. operator_stake[g] - amount \in Nat
    BY <2>1, <1>3 DEF DecreaseOperatorStake
  <2>3. CounterTypes'
    BY <1>3, <2>1 DEF TypeOK, CounterTypes, DecreaseOperatorStake, SatSub
  <2>4. StakeTypes'
    BY <1>3, <2>2 DEF TypeOK, StakeTypes, DecreaseOperatorStake
  <2>5. VaultTypes'
    BY <1>3, <2>1, OpenVaultType DEF DecreaseOperatorStake
  <2>6. ClockTypes' /\ TokenTypes' /\ GatewayTypes' /\ DelegationTypes'
    BY <1>3 DEF TypeOK, ClockTypes, TokenTypes, GatewayTypes, DelegationTypes,
       DecreaseOperatorStake
  <2>. QED BY <2>3, <2>4, <2>5, <2>6 DEF TypeOK
<1>4. ASSUME NEW g \in Operators, NEW amount \in Amounts,
             DeductOperatorStakeForPayment(g, amount)
      PROVE  TypeOK'
  <2>1. amount \in Nat /\ operator_stake[g] \in Nat
    BY InputAssumption DEF TypeOK, StakeTypes
  <2>2. operator_stake[g] - amount \in Nat
    BY <2>1, <1>4, LimitAssumption DEF DeductOperatorStakeForPayment
  <2>3. TokenTypes'
    BY <1>4, <2>1
       DEF TypeOK, TokenTypes, DeductOperatorStakeForPayment, PoolToTreasury
  <2>4. CounterTypes'
    BY <1>4, <2>1
       DEF TypeOK, CounterTypes, DeductOperatorStakeForPayment, SatSub
  <2>5. StakeTypes'
    BY <1>4, <2>2 DEF TypeOK, StakeTypes, DeductOperatorStakeForPayment
  <2>6. ClockTypes' /\ GatewayTypes' /\ DelegationTypes' /\ VaultTypes'
    BY <1>4 DEF TypeOK, ClockTypes, GatewayTypes, DelegationTypes, VaultTypes,
       DeductOperatorStakeForPayment
  <2>. QED BY <2>3, <2>4, <2>5, <2>6 DEF TypeOK
<1>5. ASSUME NEW g \in Operators, LeaveNetwork(g)
      PROVE  TypeOK'
  <2>1. operator_stake[g] \in Nat /\ now \in Nat
    BY DEF TypeOK, StakeTypes, ClockTypes
  <2>2. CounterTypes'
    BY <1>5, <2>1 DEF TypeOK, CounterTypes, LeaveNetwork, MarkLeaving, SatSub
  <2>3. StakeTypes'
    BY <1>5 DEF TypeOK, StakeTypes, LeaveNetwork, MarkLeaving
  <2>4. GatewayTypes'
    BY <1>5, <2>1 DEF TypeOK, GatewayTypes, LeaveNetwork, MarkLeaving
  <2>5. VaultTypes'
    BY <1>5, <2>1, ExitVaultsType DEF LeaveNetwork
  <2>6. ClockTypes' /\ TokenTypes' /\ DelegationTypes'
    BY <1>5 DEF TypeOK, ClockTypes, TokenTypes, DelegationTypes, LeaveNetwork
  <2>. QED BY <2>2, <2>3, <2>4, <2>5, <2>6 DEF TypeOK
<1>6. ASSUME NEW g \in Operators, PruneGateway(g)
      PROVE  TypeOK'
  <2>1. operator_stake[g] \in Nat /\ now \in Nat
    BY DEF TypeOK, StakeTypes, ClockTypes
  <2>2. MinOf(MinOperatorStake, operator_stake[g]) \in Nat
    BY <2>1, LimitAssumption DEF MinOf
  <2>3. SatSub(operator_stake[g], MinOf(MinOperatorStake, operator_stake[g])) \in Nat
    BY <2>1, <2>2, SatSubNat
  <2>4. TokenTypes'
    BY <1>6, <2>2 DEF TypeOK, TokenTypes, PruneGateway, PoolToTreasury
  <2>5. CounterTypes'
    BY <1>6, <2>1, <2>3
       DEF TypeOK, CounterTypes, PruneGateway, MarkLeaving, SatSub
  <2>6. StakeTypes'
    BY <1>6 DEF TypeOK, StakeTypes, PruneGateway, MarkLeaving
  <2>7. GatewayTypes'
    BY <1>6, <2>1 DEF TypeOK, GatewayTypes, PruneGateway, MarkLeaving
  <2>8. VaultTypes'
    BY <1>6, <2>3, ExitVaultsType DEF PruneGateway
  <2>9. ClockTypes' /\ DelegationTypes'
    BY <1>6 DEF TypeOK, ClockTypes, DelegationTypes, PruneGateway
  <2>. QED BY <2>4, <2>5, <2>6, <2>7, <2>8, <2>9 DEF TypeOK
<1>7. ASSUME NEW g \in Operators, FinalizeGone(g)
      PROVE  TypeOK'
  <2>1. StakeTypes'
    BY <1>7 DEF TypeOK, StakeTypes, FinalizeGone
  <2>2. GatewayTypes'
    BY <1>7
       DEF TypeOK, GatewayTypes, FinalizeGone, BlankSettings, SettingsRecord
  <2>3. ClockTypes' /\ TokenTypes' /\ CounterTypes' /\ DelegationTypes' /\
        VaultTypes'
    BY <1>7 DEF TypeOK, ClockTypes, TokenTypes, CounterTypes, DelegationTypes,
       VaultTypes, FinalizeGone
  <2>. QED BY <2>1, <2>2, <2>3 DEF TypeOK
<1>8. ASSUME NEW g \in Operators, NEW allow \in BOOLEAN,
             NEW min \in MinDelegations,
             UpdateGatewaySettings(g, allow, min)
      PROVE  TypeOK'
  <2>1. min \in Nat /\ now \in Nat /\ settings[g] \in SettingsRecord
    BY LimitAssumption DEF TypeOK, ClockTypes, GatewayTypes
  <2>2. UpdatedSettings(g, allow, min) \in SettingsRecord
    BY <2>1 DEF UpdatedSettings, SettingsRecord
  <2>3. GatewayTypes'
    BY <1>8, <2>2 DEF TypeOK, GatewayTypes, UpdateGatewaySettings
  <2>4. ClockTypes' /\ TokenTypes' /\ CounterTypes' /\ StakeTypes' /\
        DelegationTypes' /\ VaultTypes'
    BY <1>8 DEF TypeOK, ClockTypes, TokenTypes, CounterTypes, StakeTypes,
       DelegationTypes, VaultTypes, UpdateGatewaySettings
  <2>. QED BY <2>3, <2>4 DEF TypeOK
<1>9. ASSUME NEW g \in Operators, NEW enabled \in AllowlistChoices,
             SetAllowlistEnabled(g, enabled)
      PROVE  TypeOK'
  <2>1. GatewayTypes'
    BY <1>9, InputAssumption
       DEF TypeOK, GatewayTypes, SetAllowlistEnabled, SettingsRecord
  <2>2. ClockTypes' /\ TokenTypes' /\ CounterTypes' /\ StakeTypes' /\
        DelegationTypes' /\ VaultTypes'
    BY <1>9 DEF TypeOK, ClockTypes, TokenTypes, CounterTypes, StakeTypes,
       DelegationTypes, VaultTypes, SetAllowlistEnabled
  <2>. QED BY <2>1, <2>2 DEF TypeOK
<1>10. ASSUME NEW g \in Operators, NEW d \in Accounts,
             NEW amount \in Amounts,
             DelegateStake(d, g, amount)
      PROVE  TypeOK'
  <2>1. amount \in Nat
    BY InputAssumption
  <2>2. Pending(g, d) \in Nat /\ Principal(g, d) + amount \in Nat /\ <<g, d>> \in Pairs
    BY <2>1, PendingNat, PairIn
  <2>3. del_amount' \in [Pairs -> Nat] /\ reward_debt' \in [Pairs -> Nat]
    BY <1>10, <2>2, SetPrincipalType DEF DelegateStake
  <2>4. TokenTypes'
    BY <1>10, <2>1 DEF TypeOK, TokenTypes, DelegateStake, WalletToPool
  <2>5. CounterTypes'
    BY <1>10, <2>1, <2>2 DEF TypeOK, CounterTypes, DelegateStake
  <2>6. StakeTypes'
    BY <1>10, <2>1, <2>2 DEF TypeOK, StakeTypes, DelegateStake
  <2>7. DelegationTypes'
    BY <1>10, <2>2, <2>3 DEF TypeOK, DelegationTypes, DelegateStake
  <2>8. ClockTypes' /\ GatewayTypes' /\ VaultTypes'
    BY <1>10 DEF TypeOK, ClockTypes, GatewayTypes, VaultTypes, DelegateStake
  <2>. QED BY <2>4, <2>5, <2>6, <2>7, <2>8 DEF TypeOK
<1>11. ASSUME NEW g \in Operators, NEW d \in Accounts,
             NEW amount \in Amounts,
             DecreaseDelegateStake(d, g, amount)
      PROVE  TypeOK'
  <2>1. amount \in Nat
    BY InputAssumption
  <2>2. Principal(g, d) - amount \in Nat
    BY <1>11, <2>1, PendingNat DEF DecreaseDelegateStake
  <2>. QED BY <1>11, <2>1, <2>2, DelegationToVaultType DEF DecreaseDelegateStake
<1>12. ASSUME NEW g \in Operators, NEW d \in Accounts,
             NEW amount \in Amounts,
             DeductDelegationForPayment(d, g, amount)
      PROVE  TypeOK'
  <2>1. amount \in Nat
    BY InputAssumption
  <2>2. Pending(g, d) \in Nat /\ Principal(g, d) - amount \in Nat
    BY <1>12, <2>1, PendingNat DEF DeductDelegationForPayment
  <2>3. del_amount' \in [Pairs -> Nat] /\ reward_debt' \in [Pairs -> Nat]
    BY <1>12, <2>2, SetPrincipalType DEF DeductDelegationForPayment
  <2>4. total_delegated + Pending(g, d) \in Nat
    BY <2>2 DEF TypeOK, CounterTypes
  <2>5. TokenTypes'
    BY <1>12, <2>1
       DEF TypeOK, TokenTypes, DeductDelegationForPayment, PoolToTreasury
  <2>6. CounterTypes'
    BY <1>12, <2>1, <2>4
       DEF TypeOK, CounterTypes, DeductDelegationForPayment, SatSub
  <2>7. StakeTypes'
    BY <1>12, <2>1, <2>2 DEF TypeOK, StakeTypes, DeductDelegationForPayment
  <2>8. DelegationTypes'
    BY <1>12, <2>3 DEF TypeOK, DelegationTypes, DeductDelegationForPayment
  <2>9. ClockTypes' /\ GatewayTypes' /\ VaultTypes'
    BY <1>12 DEF TypeOK, ClockTypes, GatewayTypes, VaultTypes,
       DeductDelegationForPayment
  <2>. QED BY <2>5, <2>6, <2>7, <2>8, <2>9 DEF TypeOK
<1>13. ASSUME NEW g \in Operators, NEW d \in Accounts,
             NEW amount \in Amounts, NEW h \in Operators,
             RedelegateStake(d, g, h, amount)
      PROVE  TypeOK'
  BY <1>13, RedelegateType
<1>14. ASSUME NEW g \in Operators, NEW d \in Accounts,
             ClaimDelegateFromLeavingGateway(g, d)
      PROVE  TypeOK'
  <2>1. Principal(g, d) \in Nat
    BY PendingNat
  <2>2. Principal(g, d) - Principal(g, d) \in Nat
    BY <2>1
  <2>. QED BY <1>14, <2>1, <2>2, DelegationToVaultType DEF ClaimDelegateFromLeavingGateway
<1>15. ASSUME NEW g \in Operators, NEW d \in Accounts,
             ClaimDelegateFromDisabledGateway(g, d)
      PROVE  TypeOK'
  <2>1. Principal(g, d) \in Nat
    BY PendingNat
  <2>2. Principal(g, d) - Principal(g, d) \in Nat
    BY <2>1
  <2>. QED BY <1>15, <2>1, <2>2, DelegationToVaultType DEF ClaimDelegateFromDisabledGateway
<1>16. ASSUME NEW g \in Operators, NEW d \in Accounts,
             CloseEmptyDelegation(g, d)
      PROVE  TypeOK'
  <2>1. DelegationTypes'
    BY <1>16, PairIn DEF TypeOK, DelegationTypes, CloseEmptyDelegation
  <2>2. ClockTypes' /\ TokenTypes' /\ CounterTypes' /\ StakeTypes' /\
        GatewayTypes' /\ VaultTypes'
    BY <1>16 DEF TypeOK, ClockTypes, TokenTypes, CounterTypes, StakeTypes,
       GatewayTypes, VaultTypes, CloseEmptyDelegation
  <2>. QED BY <2>1, <2>2 DEF TypeOK
<1>17. ASSUME NEW g \in Operators, NEW d \in Accounts,
             CompoundDelegationRewards(g, d)
      PROVE  TypeOK'
  <2>1. Pending(g, d) \in Nat /\ Principal(g, d) \in Nat
    BY PendingNat
  <2>2. del_amount' \in [Pairs -> Nat] /\ reward_debt' \in [Pairs -> Nat]
    BY <1>17, <2>1, SetPrincipalType DEF CompoundDelegationRewards
  <2>3. CounterTypes'
    BY <1>17, <2>1 DEF TypeOK, CounterTypes, CompoundDelegationRewards
  <2>4. StakeTypes'
    BY <1>17, <2>1 DEF TypeOK, StakeTypes, CompoundDelegationRewards
  <2>5. DelegationTypes'
    BY <1>17, <2>2 DEF TypeOK, DelegationTypes, CompoundDelegationRewards
  <2>6. ClockTypes' /\ TokenTypes' /\ GatewayTypes' /\ VaultTypes'
    BY <1>17 DEF TypeOK, ClockTypes, TokenTypes, GatewayTypes, VaultTypes,
       CompoundDelegationRewards
  <2>. QED BY <2>3, <2>4, <2>5, <2>6 DEF TypeOK
<1>18. ASSUME NEW g \in Operators, NEW d \in Accounts,
             AllowDelegate(g, d)
      PROVE  TypeOK'
  <2>1. DelegationTypes'
    BY <1>18, PairIn DEF TypeOK, DelegationTypes, AllowDelegate
  <2>2. ClockTypes' /\ TokenTypes' /\ CounterTypes' /\ StakeTypes' /\
        GatewayTypes' /\ VaultTypes'
    BY <1>18 DEF TypeOK, ClockTypes, TokenTypes, CounterTypes, StakeTypes,
       GatewayTypes, VaultTypes, AllowDelegate
  <2>. QED BY <2>1, <2>2 DEF TypeOK
<1>19. ASSUME NEW g \in Operators, NEW d \in Accounts,
             DisallowDelegate(g, d)
      PROVE  TypeOK'
  <2>1. DelegationTypes'
    BY <1>19 DEF TypeOK, DelegationTypes, DisallowDelegate
  <2>2. ClockTypes' /\ TokenTypes' /\ CounterTypes' /\ StakeTypes' /\
        GatewayTypes' /\ VaultTypes'
    BY <1>19 DEF TypeOK, ClockTypes, TokenTypes, CounterTypes, StakeTypes,
       GatewayTypes, VaultTypes, DisallowDelegate
  <2>. QED BY <2>1, <2>2 DEF TypeOK
<1>20. ASSUME NEW v \in VaultIds, ClaimWithdrawal(v)
      PROVE  TypeOK'
  <2>1. vault_amount[v] \in Nat /\ v[1] \in Accounts
    BY DEF TypeOK, VaultTypes, VaultIds
  <2>2. TokenTypes'
    BY <1>20, <2>1 DEF TypeOK, TokenTypes, ClaimWithdrawal, PoolToWallet
  <2>3. CounterTypes'
    BY <1>20, <2>1 DEF TypeOK, CounterTypes, ClaimWithdrawal, SatSub
  <2>4. VaultTypes'
    BY <1>20, CloseVaultType DEF ClaimWithdrawal
  <2>5. ClockTypes' /\ StakeTypes' /\ GatewayTypes' /\ DelegationTypes'
    BY <1>20 DEF TypeOK, ClockTypes, StakeTypes, GatewayTypes,
       DelegationTypes, ClaimWithdrawal
  <2>. QED BY <2>2, <2>3, <2>4, <2>5 DEF TypeOK
<1>21. ASSUME NEW v \in VaultIds, InstantWithdrawal(v)
      PROVE  TypeOK'
  BY <1>21, InstantType
<1>22. ASSUME NEW v \in VaultIds, CloseDrainedWithdrawal(v)
      PROVE  TypeOK'
  <2>1. VaultTypes'
    BY <1>22, CloseVaultType DEF CloseDrainedWithdrawal
  <2>2. ClockTypes' /\ TokenTypes' /\ CounterTypes' /\ StakeTypes' /\
        GatewayTypes' /\ DelegationTypes'
    BY <1>22 DEF TypeOK, ClockTypes, TokenTypes, CounterTypes, StakeTypes,
       GatewayTypes, DelegationTypes, CloseDrainedWithdrawal
  <2>. QED BY <2>1, <2>2 DEF TypeOK
<1>23. ASSUME NEW v \in VaultIds, CancelOperatorWithdrawal(v)
      PROVE  TypeOK'
  <2>1. vault_amount[v] \in Nat /\ vault[v].gateway \in Operators
    BY <1>23 DEF TypeOK, VaultTypes, VaultRecord, CancelOperatorWithdrawal, Open
  <2>2. CounterTypes'
    BY <1>23, <2>1 DEF TypeOK, CounterTypes, CancelOperatorWithdrawal, SatSub
  <2>3. StakeTypes'
    BY <1>23, <2>1 DEF TypeOK, StakeTypes, CancelOperatorWithdrawal
  <2>4. VaultTypes'
    BY <1>23, CloseVaultType DEF CancelOperatorWithdrawal
  <2>5. ClockTypes' /\ TokenTypes' /\ GatewayTypes' /\ DelegationTypes'
    BY <1>23 DEF TypeOK, ClockTypes, TokenTypes, GatewayTypes,
       DelegationTypes, CancelOperatorWithdrawal
  <2>. QED BY <2>2, <2>3, <2>4, <2>5 DEF TypeOK
<1>24. ASSUME NEW v \in VaultIds, CancelDelegateWithdrawal(v)
      PROVE  TypeOK'
  <2>1. vault_amount[v] \in Nat /\ vault[v].gateway \in Operators /\ v[1] \in Accounts
    BY <1>24 DEF TypeOK, VaultTypes, VaultRecord, VaultIds, CancelDelegateWithdrawal, Open
  <2>2. /\ Pending(vault[v].gateway, v[1]) \in Nat
        /\ Principal(vault[v].gateway, v[1]) \in Nat
    BY <2>1, PendingNat
  <2>3. Principal(vault[v].gateway, v[1]) + vault_amount[v] \in Nat
    BY <2>1, <2>2
  <2>4. del_amount' \in [Pairs -> Nat] /\ reward_debt' \in [Pairs -> Nat]
    BY <1>24, <2>1, <2>3, SetPrincipalType DEF CancelDelegateWithdrawal
  <2>5. CounterTypes'
    BY <1>24, <2>1, <2>2
       DEF TypeOK, CounterTypes, CancelDelegateWithdrawal, SatSub
  <2>6. StakeTypes'
    BY <1>24, <2>1, <2>2 DEF TypeOK, StakeTypes, CancelDelegateWithdrawal
  <2>7. DelegationTypes'
    BY <1>24, <2>4 DEF TypeOK, DelegationTypes, CancelDelegateWithdrawal
  <2>8. VaultTypes'
    BY <1>24, CloseVaultType DEF CancelDelegateWithdrawal
  <2>9. ClockTypes' /\ TokenTypes' /\ GatewayTypes'
    BY <1>24 DEF TypeOK, ClockTypes, TokenTypes, GatewayTypes,
       CancelDelegateWithdrawal
  <2>. QED BY <2>5, <2>6, <2>7, <2>8, <2>9 DEF TypeOK
<1>25. ASSUME NEW v \in VaultIds, NEW amount \in Amounts,
             DeductWithdrawalForPayment(v, amount)
      PROVE  TypeOK'
  <2>1. amount \in Nat /\ vault_amount[v] - amount \in Nat
    BY <1>25, InputAssumption DEF TypeOK, VaultTypes, DeductWithdrawalForPayment
  <2>2. TokenTypes'
    BY <1>25, <2>1
       DEF TypeOK, TokenTypes, DeductWithdrawalForPayment, PoolToTreasury
  <2>3. CounterTypes'
    BY <1>25, <2>1 DEF TypeOK, CounterTypes, DeductWithdrawalForPayment, SatSub
  <2>4. VaultTypes'
    BY <1>25, <2>1 DEF TypeOK, VaultTypes, DeductWithdrawalForPayment
  <2>5. ClockTypes' /\ StakeTypes' /\ GatewayTypes' /\ DelegationTypes'
    BY <1>25 DEF TypeOK, ClockTypes, StakeTypes, GatewayTypes,
       DelegationTypes, DeductWithdrawalForPayment
  <2>. QED BY <2>2, <2>3, <2>4, <2>5 DEF TypeOK
<1>26. ASSUME NEW a \in Accounts, NEW p \in Plans,
             NEW slot \in PlanSlots(a, p),
             PayFromFundingPlan(a, p, slot)
      PROVE  TypeOK'
  BY <1>26, PlanType
<1>27. ASSUME NEW o \in [Operators -> Outcomes], DistributeEpoch(o)
      PROVE  TypeOK'
  BY <1>27, BatchType
<1>28. ASSUME NEW period \in Periods, AdminSetWithdrawalPeriod(period)
      PROVE  TypeOK'
  <2>1. ClockTypes'
    BY <1>28 DEF TypeOK, ClockTypes, AdminSetWithdrawalPeriod
  <2>2. DelegationTypes'
    BY <1>28 DEF TypeOK, DelegationTypes, AdminSetWithdrawalPeriod
  <2>3. TokenTypes' /\ CounterTypes' /\ StakeTypes' /\ GatewayTypes' /\
        VaultTypes'
    BY <1>28 DEF TypeOK, TokenTypes, CounterTypes, StakeTypes, GatewayTypes,
       VaultTypes, AdminSetWithdrawalPeriod
  <2>. QED BY <2>1, <2>2, <2>3 DEF TypeOK
<1>29. ASSUME Tick PROVE TypeOK'
  <2>1. ClockTypes'
    BY <1>29, BoundAssumption DEF TypeOK, ClockTypes, Tick
  <2>2. TokenTypes' /\ CounterTypes' /\ StakeTypes' /\ GatewayTypes' /\
        DelegationTypes' /\ VaultTypes'
    BY <1>29 DEF TypeOK, TokenTypes, CounterTypes, StakeTypes, GatewayTypes,
       DelegationTypes, VaultTypes, Tick
  <2>. QED BY <2>1, <2>2 DEF TypeOK
<1>30. ASSUME UNCHANGED vars PROVE TypeOK'
  BY <1>30 DEF TypeOK, vars, ClockTypes, TokenTypes, CounterTypes, StakeTypes,
              GatewayTypes, DelegationTypes, VaultTypes
<1>. QED
  BY <1>1, <1>2, <1>3, <1>4, <1>5, <1>6, <1>7, <1>8, <1>9, <1>10, <1>11,
     <1>12, <1>13, <1>14, <1>15, <1>16, <1>17, <1>18, <1>19, <1>20, <1>21,
     <1>22, <1>23, <1>24, <1>25, <1>26, <1>27, <1>28, <1>29, <1>30
     DEF Next, OperatorNext, DelegatorNext, VaultNext, PlanNext

(***************************************************************************)
(* Every instruction of the staking ledger keeps every account's fields in *)
(* their types: no balance, stake, counter or vault ever goes below zero.  *)
(***************************************************************************)
THEOREM TypeCorrect == Spec => []TypeOK
<1>1. Init => TypeOK
  <2>. SUFFICES ASSUME Init PROVE TypeOK
    OBVIOUS
  <2>1. BlankSettings \in SettingsRecord
    BY DEF BlankSettings, SettingsRecord
  <2>2. ClockTypes /\ TokenTypes /\ CounterTypes /\ StakeTypes
    BY GenesisAssumption, BoundAssumption
       DEF Init, ClockTypes, TokenTypes, CounterTypes, StakeTypes
  <2>3. GatewayTypes /\ DelegationTypes /\ VaultTypes
    BY <2>1 DEF Init, GatewayTypes, DelegationTypes, VaultTypes
  <2>. QED BY <2>2, <2>3 DEF TypeOK
<1>. QED BY <1>1, TypeStep, PTL DEF Spec

(* What an account pays from its own stake leaves the minimum there. *)
LEMMA FloorStep == TypeOK /\ StakeFloor /\ [Next]_vars => StakeFloor'
<1>. SUFFICES ASSUME TypeOK, StakeFloor, [Next]_vars PROVE StakeFloor'
  OBVIOUS
<1>. USE DEF clockVars, tokenVars, counterVars, stakeVars, gatewayVars,
             delegationVars, vaultVars, otherVars
<1>0. /\ status \in [Operators -> {"None", "Joined", "Leaving"}]
      /\ operator_stake \in [Operators -> Nat]
      /\ MinOperatorStake \in Nat \ {0}
      /\ \A amount \in Amounts : amount \in Nat
  BY LimitAssumption, InputAssumption DEF TypeOK, StakeTypes, GatewayTypes
<1>1. ASSUME NEW g \in Operators, NEW stake \in Amounts,
             NEW allow \in BOOLEAN, NEW min \in MinDelegations,
             JoinNetwork(g, stake, allow, min)
      PROVE  StakeFloor'
  BY <1>0, <1>1 DEF StakeFloor, Joined, JoinNetwork
<1>2. ASSUME NEW g \in Operators, NEW amount \in Amounts,
             \/ IncreaseOperatorStake(g, amount)
             \/ DecreaseOperatorStake(g, amount)
             \/ DeductOperatorStakeForPayment(g, amount)
      PROVE  StakeFloor'
  <2>1. CASE IncreaseOperatorStake(g, amount)
    BY <1>0, <2>1 DEF StakeFloor, Joined, IncreaseOperatorStake
  <2>2. CASE DecreaseOperatorStake(g, amount)
    BY <1>0, <2>2 DEF StakeFloor, Joined, Exists, DecreaseOperatorStake
  <2>3. CASE DeductOperatorStakeForPayment(g, amount)
    BY <1>0, <2>3 DEF StakeFloor, Joined, DeductOperatorStakeForPayment
  <2>. QED BY <1>2, <2>1, <2>2, <2>3
<1>3. ASSUME NEW g \in Operators, LeaveNetwork(g) \/ PruneGateway(g)
      PROVE  StakeFloor'
  <2>1. MarkLeaving(g)
    BY <1>3 DEF LeaveNetwork, PruneGateway
  <2>. QED BY <1>0, <2>1 DEF StakeFloor, Joined, MarkLeaving
<1>4. ASSUME NEW g \in Operators, FinalizeGone(g)
      PROVE  StakeFloor'
  BY <1>0, <1>4 DEF StakeFloor, Joined, FinalizeGone
<1>5. ASSUME NEW v \in VaultIds, CancelOperatorWithdrawal(v)
      PROVE  StakeFloor'
  <2>1. vault_amount[v] \in Nat /\ vault[v].gateway \in Operators
    BY <1>5 DEF TypeOK, VaultTypes, VaultRecord, CancelOperatorWithdrawal, Open
  <2>. QED BY <1>0, <1>5, <2>1 DEF StakeFloor, Joined, CancelOperatorWithdrawal
<1>6. ASSUME NEW a \in Accounts, NEW p \in Plans, NEW slot \in PlanSlots(a, p),
             PayFromFundingPlan(a, p, slot)
      PROVE  StakeFloor'
  <2>1. PlanAllowed(a, p)
    BY <1>6 DEF PayFromFundingPlan
  <2>2. p.stake \in Nat
    BY <2>1, PlanNat
  <2>3. /\ UNCHANGED status
        /\ operator_stake' = [g \in Operators |->
             IF g = a THEN operator_stake[g] - p.stake ELSE operator_stake[g]]
    BY <1>6 DEF PayFromFundingPlan
  <2>4. p.stake > 0 => /\ Joined(a) /\ a \in Operators
                       /\ operator_stake[a] - p.stake >= MinOperatorStake
    BY <2>1 DEF PlanAllowed
  <2>. QED BY <1>0, <2>2, <2>3, <2>4 DEF StakeFloor, Joined
<1>7. ASSUME NEW o \in [Operators -> Outcomes], DistributeEpoch(o)
      PROVE  StakeFloor'
  <2>1. \A g \in Operators : OperatorReward(o, g) \in Nat
    BY BatchNat
  <2>2. \A g \in Operators : ~Joined(g) => OperatorReward(o, g) = 0
    <3>. SUFFICES ASSUME NEW g \in Operators, ~Joined(g)
                  PROVE  OperatorReward(o, g) = 0
      OBVIOUS
    <3>1. o[g] = Idle
      BY <1>7 DEF DistributeEpoch
    <3>2. o[g].reward = 0 /\ o[g].at_tally = FALSE
      BY <3>1 DEF Idle
    <3>. QED BY <3>2 DEF OperatorReward, Scaled, DelegatePool, SatSub
  <2>3. /\ UNCHANGED status
        /\ operator_stake' = [g \in Operators |-> operator_stake[g] + OperatorReward(o, g)]
    BY <1>7 DEF DistributeEpoch
  <2>. QED BY <1>0, <2>1, <2>2, <2>3 DEF StakeFloor, Joined
<1>8. ASSUME UNCHANGED <<status, operator_stake>>
      PROVE  StakeFloor'
  BY <1>8 DEF StakeFloor, Joined
<1>9. ASSUME DelegatorNext PROVE UNCHANGED <<status, operator_stake>>
  <2>. PICK g \in Operators, d \in Accounts :
         \/ \E amount \in Amounts :
              \/ DelegateStake(d, g, amount)
              \/ DecreaseDelegateStake(d, g, amount)
              \/ DeductDelegationForPayment(d, g, amount)
              \/ \E h \in Operators : RedelegateStake(d, g, h, amount)
         \/ ClaimDelegateFromLeavingGateway(g, d)
         \/ ClaimDelegateFromDisabledGateway(g, d)
         \/ CloseEmptyDelegation(g, d)
         \/ CompoundDelegationRewards(g, d)
         \/ AllowDelegate(g, d)
         \/ DisallowDelegate(g, d)
    BY <1>9 DEF DelegatorNext
  <2>. QED BY DEF DelegateStake, DecreaseDelegateStake, DeductDelegationForPayment,
                  RedelegateStake, ClaimDelegateFromLeavingGateway,
                  ClaimDelegateFromDisabledGateway, CloseEmptyDelegation,
                  CompoundDelegationRewards, AllowDelegate, DisallowDelegate,
                  DelegationToVault
<1>10. ASSUME NEW v \in VaultIds,
              \/ ClaimWithdrawal(v)
              \/ InstantWithdrawal(v)
              \/ CloseDrainedWithdrawal(v)
              \/ CancelDelegateWithdrawal(v)
              \/ \E amount \in Amounts : DeductWithdrawalForPayment(v, amount)
       PROVE  UNCHANGED <<status, operator_stake>>
  BY <1>10 DEF ClaimWithdrawal, InstantWithdrawal, CloseDrainedWithdrawal,
               CancelDelegateWithdrawal, DeductWithdrawalForPayment
<1>11. ASSUME NEW g \in Operators,
              \/ \E allow \in BOOLEAN, min \in MinDelegations :
                   UpdateGatewaySettings(g, allow, min)
              \/ \E enabled \in AllowlistChoices : SetAllowlistEnabled(g, enabled)
       PROVE  UNCHANGED <<status, operator_stake>>
  BY <1>11 DEF UpdateGatewaySettings, SetAllowlistEnabled
<1>12. ASSUME \/ \E period \in Periods : AdminSetWithdrawalPeriod(period)
              \/ Tick
              \/ UNCHANGED vars
       PROVE  UNCHANGED <<status, operator_stake>>
  BY <1>12 DEF AdminSetWithdrawalPeriod, Tick, vars
<1>. QED
  BY <1>1, <1>2, <1>3, <1>4, <1>5, <1>6, <1>7, <1>8, <1>9, <1>10, <1>11, <1>12
     DEF Next, OperatorNext, VaultNext, PlanNext

(***************************************************************************)
(* A Joined gateway always holds the minimum stake and any other gateway   *)
(* holds none, whatever its operator withdraws, pays or cancels and        *)
(* however often it leaves, is pruned and joins again.                     *)
(***************************************************************************)
THEOREM StakeFloorHolds == Spec => []StakeFloor
<1>1. Init => StakeFloor
  BY DEF Init, StakeFloor, Joined
<1>. QED BY <1>1, FloorStep, TypeCorrect, PTL DEF Spec

(* The id that an account's next vault takes is above those of its vaults. *)
LEMMA NextIdStep == TypeOK /\ NextIdFree /\ [Next]_vars => NextIdFree'
<1>. SUFFICES ASSUME TypeOK, NextIdFree, [Next]_vars PROVE NextIdFree'
  OBVIOUS
<1>. USE DEF clockVars, tokenVars, counterVars, stakeVars, gatewayVars,
             delegationVars, vaultVars, otherVars
<1>0. /\ \A v \in VaultIds : v = <<v[1], v[2]>> /\ v[1] \in Accounts /\ v[2] \in Nat
      /\ next_id \in [Accounts -> Nat]
      /\ vault \in [VaultIds -> VaultRecord \cup {NoVault}]
  BY BoundAssumption DEF VaultIds, TypeOK, VaultTypes
<1>1. ASSUME NEW o \in Accounts, NEW g, NEW amount, NEW isDelegate,
             OpenVault(o, g, amount, isDelegate)
      PROVE  NextIdFree'
  <2>1. /\ next_id' = [next_id EXCEPT ![o] = @ + 1]
        /\ \A v \in VaultIds : v # <<o, next_id[o]>> => vault'[v] = vault[v]
    BY <1>0, <1>1 DEF OpenVault
  <2>2. ASSUME NEW v \in VaultIds, Open(v)'
        PROVE  v[2] < next_id'[v[1]]
    <3>1. CASE v = <<o, next_id[o]>>
      BY <1>0, <2>1, <3>1
    <3>2. CASE v # <<o, next_id[o]>>
      BY <1>0, <2>1, <2>2, <3>2 DEF NextIdFree, Open
    <3>. QED BY <3>1, <3>2
  <2>. QED BY <2>2 DEF NextIdFree
<1>2. ASSUME NEW v \in VaultIds, CloseVault(v)
      PROVE  NextIdFree'
  BY <1>0, <1>2 DEF CloseVault, NextIdFree, Open
<1>3. ASSUME NEW g \in Operators, NEW amount \in Nat, OpenExitVaults(g, amount)
      PROVE  NextIdFree'
  <2>. DEFINE exit == <<g, next_id[g]>>
              other == <<g, next_id[g] + 1>>
              excess == SatSub(amount, MinOperatorStake)
  <2>0. g \in Accounts
    BY SetAssumption
  <2>1. /\ next_id' = [next_id EXCEPT ![g] = @ + ExitIds(g, amount)]
        /\ \A v \in VaultIds : v # exit /\ ~(v = other /\ excess > 0) => vault'[v] = vault[v]
    BY <1>3 DEF OpenExitVaults
  <2>2. ExitIds(g, amount) \in {1, 2} /\ (excess > 0 => ExitIds(g, amount) = 2)
    BY LimitAssumption DEF ExitIds, SatSub
  <2>3. ASSUME NEW v \in VaultIds, Open(v)'
        PROVE  v[2] < next_id'[v[1]]
    <3>1. CASE v = exit
      BY <1>0, <2>0, <2>1, <2>2, <3>1
    <3>2. CASE v = other /\ excess > 0
      BY <1>0, <2>0, <2>1, <2>2, <3>2
    <3>3. CASE v # exit /\ ~(v = other /\ excess > 0)
      <4>1. v[2] < next_id[v[1]]
        BY <2>1, <2>3, <3>3 DEF NextIdFree, Open
      <4>2. next_id[v[1]] <= next_id'[v[1]]
        BY <1>0, <2>0, <2>1, <2>2
      <4>. QED BY <1>0, <2>0, <2>1, <2>2, <4>1, <4>2
    <3>. QED BY <3>1, <3>2, <3>3
  <2>. QED BY <2>3 DEF NextIdFree
<1>4. ASSUME NEW a \in Accounts, NEW p \in Plans, NEW slot \in PlanSlots(a, p),
             PayFromFundingPlan(a, p, slot)
      PROVE  NextIdFree'
  <2>. DEFINE R == PlanResidues(a, p)
              n == PlanVaultIds(a, p)
  <2>1. n \in Nat
    BY <1>4, PlanSums DEF PayFromFundingPlan
  <2>2. slot \in [R -> next_id[a] .. next_id[a] + n - 1]
    BY DEF PlanSlots, PlanVaultIds
  <2>3. /\ next_id' = [next_id EXCEPT ![a] = @ + n]
        /\ \A v \in VaultIds : (~ \E g \in R : v = <<a, slot[g]>>) => vault'[v] = vault[v]
    BY <1>4 DEF PayFromFundingPlan
  <2>. HIDE DEF R, n
  <2>4. ASSUME NEW v \in VaultIds, Open(v)'
        PROVE  v[2] < next_id'[v[1]]
    <3>1. CASE \E g \in R : v = <<a, slot[g]>>
      <4>1. PICK g \in R : v = <<a, slot[g]>>
        BY <3>1
      <4>2. slot[g] < next_id[a] + n
        BY <1>0, <2>1, <2>2
      <4>. QED BY <1>0, <2>3, <4>1, <4>2
    <3>2. CASE ~ \E g \in R : v = <<a, slot[g]>>
      <4>1. v[2] < next_id[v[1]]
        BY <2>3, <2>4, <3>2 DEF NextIdFree, Open
      <4>. QED BY <1>0, <2>1, <2>3, <4>1
    <3>. QED BY <3>1, <3>2
  <2>. QED BY <2>4 DEF NextIdFree
<1>5. ASSUME UNCHANGED <<vault, next_id>>
      PROVE  NextIdFree'
  BY <1>5 DEF NextIdFree, Open
<1>6. ASSUME OperatorNext PROVE NextIdFree'
  <2>. PICK g \in Operators :
         \/ \E stake \in Amounts, allow \in BOOLEAN, min \in MinDelegations :
              JoinNetwork(g, stake, allow, min)
         \/ \E amount \in Amounts :
              \/ IncreaseOperatorStake(g, amount)
              \/ DecreaseOperatorStake(g, amount)
              \/ DeductOperatorStakeForPayment(g, amount)
         \/ LeaveNetwork(g)
         \/ PruneGateway(g)
         \/ FinalizeGone(g)
         \/ \E allow \in BOOLEAN, min \in MinDelegations :
              UpdateGatewaySettings(g, allow, min)
         \/ \E enabled \in AllowlistChoices : SetAllowlistEnabled(g, enabled)
    BY <1>6 DEF OperatorNext
  <2>1. operator_stake[g] \in Nat /\ g \in Accounts
    BY SetAssumption DEF TypeOK, StakeTypes
  <2>2. CASE \E amount \in Amounts : DecreaseOperatorStake(g, amount)
    BY <1>1, <2>1, <2>2 DEF DecreaseOperatorStake
  <2>3. CASE LeaveNetwork(g)
    BY <1>3, <2>1, <2>3 DEF LeaveNetwork
  <2>4. CASE PruneGateway(g)
    <3>1. MinOf(MinOperatorStake, operator_stake[g]) \in Nat
      BY <2>1, LimitAssumption DEF MinOf
    <3>2. SatSub(operator_stake[g], MinOf(MinOperatorStake, operator_stake[g])) \in Nat
      BY <2>1, <3>1, SatSubNat
    <3>. QED BY <1>3, <2>4, <3>2 DEF PruneGateway
  <2>5. CASE UNCHANGED <<vault, next_id>>
    BY <1>5, <2>5
  <2>. QED BY <2>2, <2>3, <2>4, <2>5 DEF JoinNetwork, IncreaseOperatorStake,
             DeductOperatorStakeForPayment, FinalizeGone, UpdateGatewaySettings,
             SetAllowlistEnabled
<1>7. ASSUME DelegatorNext PROVE NextIdFree'
  <2>. PICK g \in Operators, d \in Accounts :
         \/ \E amount \in Amounts :
              \/ DelegateStake(d, g, amount)
              \/ DecreaseDelegateStake(d, g, amount)
              \/ DeductDelegationForPayment(d, g, amount)
              \/ \E h \in Operators : RedelegateStake(d, g, h, amount)
         \/ ClaimDelegateFromLeavingGateway(g, d)
         \/ ClaimDelegateFromDisabledGateway(g, d)
         \/ CloseEmptyDelegation(g, d)
         \/ CompoundDelegationRewards(g, d)
         \/ AllowDelegate(g, d)
         \/ DisallowDelegate(g, d)
    BY <1>7 DEF DelegatorNext
  <2>1. CASE \E amount : DelegationToVault(g, d, amount)
    BY <1>1, <2>1 DEF DelegationToVault
  <2>2. CASE UNCHANGED <<vault, next_id>>
    BY <1>5, <2>2
  <2>. QED BY <2>1, <2>2 DEF DelegateStake, DecreaseDelegateStake,
             DeductDelegationForPayment, RedelegateStake,
             ClaimDelegateFromLeavingGateway, ClaimDelegateFromDisabledGateway,
             CloseEmptyDelegation, CompoundDelegationRewards, AllowDelegate,
             DisallowDelegate
<1>8. ASSUME NEW v \in VaultIds,
             \/ ClaimWithdrawal(v)
             \/ InstantWithdrawal(v)
             \/ CloseDrainedWithdrawal(v)
             \/ CancelOperatorWithdrawal(v)
             \/ CancelDelegateWithdrawal(v)
             \/ \E amount \in Amounts : DeductWithdrawalForPayment(v, amount)
      PROVE  NextIdFree'
  <2>1. CloseVault(v) \/ UNCHANGED <<vault, next_id>>
    BY <1>8 DEF ClaimWithdrawal, InstantWithdrawal, CloseDrainedWithdrawal,
       CancelOperatorWithdrawal, CancelDelegateWithdrawal, DeductWithdrawalForPayment
  <2>. QED BY <1>2, <1>5, <2>1
<1>9. ASSUME \/ \E o \in [Operators -> Outcomes] : DistributeEpoch(o)
             \/ \E period \in Periods : AdminSetWithdrawalPeriod(period)
             \/ Tick
             \/ UNCHANGED vars
      PROVE  NextIdFree'
  <2>1. UNCHANGED <<vault, next_id>>
    BY <1>9 DEF DistributeEpoch, AdminSetWithdrawalPeriod, Tick, vars
  <2>. QED BY <1>5, <2>1
<1>. QED BY <1>4, <1>6, <1>7, <1>8, <1>9 DEF Next, VaultNext, PlanNext

(***************************************************************************)
(* The id of an account's next Withdrawal PDA is always free, so that      *)
(* Anchor's init cannot fail on it: however many vaults an exit or a       *)
(* funding plan opens at once, the counter moves past all of them.         *)
(***************************************************************************)
THEOREM NextIdFreeHolds == Spec => []NextIdFree
<1>1. Init => NextIdFree
  BY DEF Init, NextIdFree, Open
<1>. QED BY <1>1, NextIdStep, TypeCorrect, PTL DEF Spec

(* A gateway's delegations add up to a natural number, each of them below it. *)
LEMMA DelegatedNat ==
  ASSUME TypeOK, NEW g \in Operators
  PROVE  /\ DelegatedTo(g) \in Nat
         /\ \A d \in Accounts : del_amount[<<g, d>>] <= DelegatedTo(g)
<1>. DEFINE f == [d \in Accounts |-> del_amount[<<g, d>>]]
<1>1. \A d \in Accounts : f[d] \in Nat /\ f[d] = del_amount[<<g, d>>]
  BY PairIn DEF TypeOK, DelegationTypes
<1>2. DelegatedTo(g) = SumFunctionOnSet(f, Accounts)
  BY DEF DelegatedTo, Total
<1>. HIDE DEF f
<1>3. SumFunctionOnSet(f, Accounts) \in Nat
  BY <1>1, Finite, SumNat
<1>4. \A d \in Accounts : f[d] <= SumFunctionOnSet(f, Accounts)
  BY <1>1, Finite, SumMember
<1>. QED BY <1>1, <1>2, <1>3, <1>4

(* A step that leaves a gateway's delegations alone leaves their sum alone. *)
LEMMA DelegatedSame ==
  ASSUME NEW g \in Operators,
         \A d \in Accounts : del_amount'[<<g, d>>] = del_amount[<<g, d>>]
  PROVE  DelegatedTo(g)' = DelegatedTo(g)
BY DEF DelegatedTo, Total

(* A step that changes one delegation changes the sum by the difference. *)
LEMMA DelegatedUpdate ==
  ASSUME TypeOK, TypeOK', NEW g \in Operators, NEW d \in Accounts,
         \A e \in Accounts \ {d} : del_amount'[<<g, e>>] = del_amount[<<g, e>>]
  PROVE  DelegatedTo(g)' = DelegatedTo(g) - del_amount[<<g, d>>] + del_amount'[<<g, d>>]
<1>. DEFINE f == [e \in Accounts |-> del_amount[<<g, e>>]]
            h == [e \in Accounts |-> del_amount'[<<g, e>>]]
<1>1. /\ \A e \in Accounts : f[e] \in Int /\ h[e] \in Int
      /\ \A e \in Accounts \ {d} : h[e] = f[e]
      /\ f[d] = del_amount[<<g, d>>] /\ h[d] = del_amount'[<<g, d>>]
  BY PairIn DEF TypeOK, DelegationTypes
<1>2. /\ DelegatedTo(g) = SumFunctionOnSet(f, Accounts)
      /\ DelegatedTo(g)' = SumFunctionOnSet(h, Accounts)
  BY DEF DelegatedTo, Total
<1>. HIDE DEF f, h
<1>3. SumFunctionOnSet(h, Accounts) = SumFunctionOnSet(f, Accounts) - f[d] + h[d]
  BY <1>1, Finite, SumUpdate
<1>. QED BY <1>1, <1>2, <1>3

(***************************************************************************)
(* What the counter of a gateway and its delegations have to do with each  *)
(* other, and with the Gateway PDA and its accumulator.  The parts need    *)
(* one another: finalize_gone sees only the counter, join_network resets   *)
(* counter and accumulator without seeing the delegations.                 *)
(***************************************************************************)
DelegationInv == GatewayCounters /\ NoStrandedDelegation /\ DebtNotAhead

(* A step that changes one delegation keeps DelegationInv if it moves the  *)
(* counter along, and settles.                                             *)
LEMMA OneDelegation ==
  ASSUME TypeOK, TypeOK', DelegationInv, NEW g \in Operators, NEW d \in Accounts,
         Exists(g), UNCHANGED <<status, cumulative_reward>>,
         delegations \subseteq delegations', <<g, d>> \in delegations',
         SetPrincipal(g, d, del_amount'[<<g, d>>]),
         total_delegated_stake' = [total_delegated_stake EXCEPT ![g] =
           @ + del_amount'[<<g, d>>] - del_amount[<<g, d>>]]
  PROVE  DelegationInv'
<1>0. /\ del_amount \in [Pairs -> Nat] /\ reward_debt \in [Pairs -> Nat]
      /\ del_amount' \in [Pairs -> Nat]
      /\ cumulative_reward \in [Operators -> Nat]
      /\ total_delegated_stake \in [Operators -> Nat]
      /\ <<g, d>> \in Pairs
      /\ \A q \in Pairs : q[1] \in Operators
  BY PairIn DEF TypeOK, DelegationTypes, StakeTypes, Pairs
<1>1. /\ \A q \in Pairs : q # <<g, d>> => /\ del_amount'[q] = del_amount[q]
                                          /\ reward_debt'[q] = reward_debt[q]
      /\ reward_debt'[<<g, d>>] = cumulative_reward[g]
  BY <1>0 DEF SetPrincipal
<1>2. GatewayCounters'
  <2>. SUFFICES ASSUME NEW h \in Operators
                PROVE  total_delegated_stake'[h] = DelegatedTo(h)'
    BY DEF GatewayCounters
  <2>1. total_delegated_stake[h] = DelegatedTo(h)
    BY DEF GatewayCounters, DelegationInv
  <2>2. CASE h = g
    <3>1. \A e \in Accounts \ {d} : del_amount'[<<g, e>>] = del_amount[<<g, e>>]
      BY <1>1, PairIn
    <3>2. DelegatedTo(g)' = DelegatedTo(g) - del_amount[<<g, d>>] + del_amount'[<<g, d>>]
      BY <3>1, DelegatedUpdate
    <3>3. DelegatedTo(g) \in Nat
      BY DelegatedNat
    <3>. QED BY <1>0, <2>1, <2>2, <3>2, <3>3
  <2>3. CASE h # g
    <3>1. \A e \in Accounts : del_amount'[<<h, e>>] = del_amount[<<h, e>>]
      BY <1>1, <2>3, PairIn
    <3>2. DelegatedTo(h)' = DelegatedTo(h)
      BY <3>1, DelegatedSame
    <3>. QED BY <1>0, <2>1, <2>3, <3>2
  <2>. QED BY <2>2, <2>3
<1>3. NoStrandedDelegation'
  BY <1>0, <1>1 DEF DelegationInv, NoStrandedDelegation, Exists
<1>4. DebtNotAhead'
  BY <1>0, <1>1 DEF DelegationInv, DebtNotAhead
<1>. QED BY <1>2, <1>3, <1>4 DEF DelegationInv

(* Moving principal to a vault takes no more off the counter than it has. *)
LEMMA ToVaultDelegation ==
  ASSUME TypeOK, TypeOK', DelegationInv, NEW g \in Operators, NEW d \in Accounts,
         NEW amount \in Nat, Principal(g, d) - amount \in Nat, Exists(g),
         <<g, d>> \in delegations, DelegationToVault(g, d, amount)
  PROVE  DelegationInv'
<1>1. /\ del_amount[<<g, d>>] \in Nat /\ Pending(g, d) \in Nat
      /\ Principal(g, d) = del_amount[<<g, d>>] + Pending(g, d)
  BY PendingNat DEF Principal
<1>2. del_amount[<<g, d>>] <= total_delegated_stake[g] /\ total_delegated_stake[g] \in Nat
  BY DelegatedNat DEF DelegationInv, GatewayCounters
<1>3. SatSub(total_delegated_stake[g] + Pending(g, d), amount)
        = total_delegated_stake[g] + (Principal(g, d) - amount) - del_amount[<<g, d>>]
  BY <1>1, <1>2 DEF SatSub
<1>4. del_amount'[<<g, d>>] = Principal(g, d) - amount
  BY PairIn DEF DelegationToVault, SetPrincipal, TypeOK, DelegationTypes
<1>5. total_delegated_stake' = [total_delegated_stake EXCEPT ![g] =
         @ + del_amount'[<<g, d>>] - del_amount[<<g, d>>]]
  BY <1>3, <1>4 DEF DelegationToVault
<1>6. SetPrincipal(g, d, del_amount'[<<g, d>>])
  BY <1>4 DEF DelegationToVault
<1>7. UNCHANGED <<status, cumulative_reward, delegations>>
  BY DEF DelegationToVault, gatewayVars
<1>. QED BY <1>5, <1>6, <1>7, OneDelegation

(* A redelegation changes one delegation of each of two gateways. *)
LEMMA RedelegateDelegation ==
  ASSUME TypeOK, TypeOK', DelegationInv, NEW d \in Accounts, NEW g \in Operators,
         NEW h \in Operators, NEW amount \in Amounts, RedelegateStake(d, g, h, amount)
  PROVE  DelegationInv'
<1>. DEFINE net == SatSub(amount, (amount * FeeRate(d)) \div RateScale)
            remaining == Principal(g, d) - amount
<1>1. /\ amount \in Nat
      /\ Pending(g, d) \in Nat /\ Pending(h, d) \in Nat
      /\ Principal(g, d) = del_amount[<<g, d>>] + Pending(g, d)
      /\ Principal(h, d) = del_amount[<<h, d>>] + Pending(h, d)
      /\ del_amount[<<g, d>>] \in Nat /\ del_amount[<<h, d>>] \in Nat
      /\ <<g, d>> \in Pairs /\ <<h, d>> \in Pairs
      /\ \A q \in Pairs : q[1] \in Operators /\ q = <<q[1], q[2]>>
  BY InputAssumption, PendingNat, PairIn DEF Principal, Pairs
<1>2. /\ g # h /\ Exists(g) /\ Joined(h) /\ <<g, d>> \in delegations
      /\ remaining >= 0
      /\ delegations' = delegations \cup {<<h, d>>}
      /\ del_amount' = [del_amount EXCEPT
           ![<<g, d>>] = remaining, ![<<h, d>>] = Principal(h, d) + net]
      /\ reward_debt' = [reward_debt EXCEPT
           ![<<g, d>>] = cumulative_reward[g], ![<<h, d>>] = cumulative_reward[h]]
      /\ total_delegated_stake' = [total_delegated_stake EXCEPT
           ![g] = SatSub(@ + Pending(g, d), amount), ![h] = @ + Pending(h, d) + net]
      /\ UNCHANGED <<status, cumulative_reward>>
  BY DEF RedelegateStake, Accepts, gatewayVars
<1>3. net \in Nat
  <2>1. FeeRate(d) \in Nat
    BY FeeRateNat
  <2>2. amount * FeeRate(d) \in Nat
    BY <1>1, <2>1
  <2>. QED BY <1>1, <2>2, DivNat, ScaleAssumption, SatSubNat
<1>. HIDE DEF net
<1>4. /\ del_amount \in [Pairs -> Nat] /\ reward_debt \in [Pairs -> Nat]
      /\ total_delegated_stake \in [Operators -> Nat]
      /\ cumulative_reward \in [Operators -> Nat]
  BY DEF TypeOK, DelegationTypes, StakeTypes
<1>5. /\ del_amount'[<<g, d>>] = remaining
      /\ del_amount'[<<h, d>>] = Principal(h, d) + net
      /\ reward_debt'[<<g, d>>] = cumulative_reward[g]
      /\ reward_debt'[<<h, d>>] = cumulative_reward[h]
      /\ \A q \in Pairs : q # <<g, d>> /\ q # <<h, d>> =>
           /\ del_amount'[q] = del_amount[q]
           /\ reward_debt'[q] = reward_debt[q]
  BY <1>1, <1>2, <1>4
<1>6. GatewayCounters'
  <2>. SUFFICES ASSUME NEW k \in Operators
                PROVE  total_delegated_stake'[k] = DelegatedTo(k)'
    BY DEF GatewayCounters
  <2>1. /\ total_delegated_stake[k] = DelegatedTo(k) /\ DelegatedTo(k) \in Nat
        /\ del_amount[<<k, d>>] <= DelegatedTo(k)
    BY DelegatedNat DEF GatewayCounters, DelegationInv
  <2>2. \A e \in Accounts \ {d} : del_amount'[<<k, e>>] = del_amount[<<k, e>>]
    BY <1>5, PairIn
  <2>3. DelegatedTo(k)' = DelegatedTo(k) - del_amount[<<k, d>>] + del_amount'[<<k, d>>]
    BY <2>2, DelegatedUpdate
  <2>4. CASE k = g
    <3>1. total_delegated_stake'[g] = SatSub(total_delegated_stake[g] + Pending(g, d), amount)
      BY <1>2, <1>4
    <3>2. SatSub(total_delegated_stake[g] + Pending(g, d), amount)
            = total_delegated_stake[g] + Pending(g, d) - amount
      BY <1>1, <1>2, <2>1, <2>4 DEF SatSub
    <3>. QED BY <1>1, <1>5, <2>1, <2>3, <2>4, <3>1, <3>2
  <2>5. CASE k = h
    <3>1. total_delegated_stake'[h] = total_delegated_stake[h] + Pending(h, d) + net
      BY <1>2, <1>4
    <3>. QED BY <1>1, <1>3, <1>5, <2>1, <2>3, <2>5, <3>1
  <2>6. CASE k # g /\ k # h
    <3>1. \A e \in Accounts : del_amount'[<<k, e>>] = del_amount[<<k, e>>]
      BY <1>5, <2>6, PairIn
    <3>2. DelegatedTo(k)' = DelegatedTo(k)
      BY <3>1, DelegatedSame
    <3>3. total_delegated_stake'[k] = total_delegated_stake[k]
      BY <1>2, <1>4, <2>6
    <3>. QED BY <2>1, <3>2, <3>3
  <2>. QED BY <2>4, <2>5, <2>6
<1>7. NoStrandedDelegation'
  BY <1>1, <1>2, <1>5 DEF DelegationInv, NoStrandedDelegation, Exists, Joined
<1>8. DebtNotAhead'
  BY <1>1, <1>2, <1>4, <1>5 DEF DelegationInv, DebtNotAhead
<1>. QED BY <1>6, <1>7, <1>8 DEF DelegationInv

(* A funding plan changes one delegation of each gateway it names. *)
LEMMA PlanDelegation ==
  ASSUME TypeOK, TypeOK', DelegationInv, NEW a \in Accounts, NEW p \in Plans,
         NEW slot \in PlanSlots(a, p), PayFromFundingPlan(a, p, slot)
  PROVE  DelegationInv'
<1>1. PlanAllowed(a, p)
  BY DEF PayFromFundingPlan
<1>2. /\ del_amount' = [q \in Pairs |->
           IF q[2] = a /\ p.delegation[q[1]] > 0
             THEN PlanPost(a, p, q[1]) - PlanResidue(a, p, q[1])
             ELSE del_amount[q]]
      /\ reward_debt' = [q \in Pairs |->
           IF q[2] = a /\ p.delegation[q[1]] > 0
             THEN cumulative_reward[q[1]] ELSE reward_debt[q]]
      /\ total_delegated_stake' = [g \in Operators |->
           total_delegated_stake[g] + PlanSettled(a, p, g)
             - p.delegation[g] - PlanResidue(a, p, g)]
      /\ UNCHANGED <<status, cumulative_reward, delegations>>
  BY DEF PayFromFundingPlan, gatewayVars
<1>3. \A q \in Pairs : q[1] \in Operators /\ q[2] \in Accounts /\ q = <<q[1], q[2]>>
  BY DEF Pairs
<1>4. /\ cumulative_reward \in [Operators -> Nat] /\ p.delegation \in [Operators -> Nat]
      /\ del_amount \in [Pairs -> Nat] /\ total_delegated_stake \in [Operators -> Nat]
  BY <1>1, PlanNat DEF TypeOK, StakeTypes, DelegationTypes
<1>5. GatewayCounters'
  <2>. SUFFICES ASSUME NEW g \in Operators
                PROVE  total_delegated_stake'[g] = DelegatedTo(g)'
    BY DEF GatewayCounters
  <2>1. total_delegated_stake[g] = DelegatedTo(g) /\ DelegatedTo(g) \in Nat
    BY DelegatedNat DEF GatewayCounters, DelegationInv
  <2>2. <<g, a>> \in Pairs /\ \A e \in Accounts : <<g, e>> \in Pairs
    BY PairIn
  <2>3. \A e \in Accounts \ {a} : del_amount'[<<g, e>>] = del_amount[<<g, e>>]
    BY <1>2, <2>2
  <2>4. DelegatedTo(g)' = DelegatedTo(g) - del_amount[<<g, a>>] + del_amount'[<<g, a>>]
    BY <2>3, DelegatedUpdate
  <2>5. /\ PlanSettled(a, p, g) \in Nat /\ PlanResidue(a, p, g) \in Nat
        /\ del_amount[<<g, a>>] \in Nat /\ p.delegation[g] \in Nat
    BY <1>1, <1>4, <2>2, PlanNat
  <2>6. del_amount'[<<g, a>>] = del_amount[<<g, a>>] + PlanSettled(a, p, g)
                                  - p.delegation[g] - PlanResidue(a, p, g)
    <3>1. CASE p.delegation[g] > 0
      <4>1. del_amount'[<<g, a>>] = PlanPost(a, p, g) - PlanResidue(a, p, g)
        BY <1>2, <2>2, <3>1
      <4>. QED BY <2>5, <4>1 DEF PlanPost
    <3>2. CASE ~(p.delegation[g] > 0)
      <4>1. del_amount'[<<g, a>>] = del_amount[<<g, a>>]
        BY <1>2, <2>2, <3>2
      <4>2. PlanSettled(a, p, g) = 0 /\ PlanResidue(a, p, g) = 0 /\ p.delegation[g] = 0
        BY <2>5, <3>2 DEF PlanSettled, PlanResidue
      <4>. QED BY <2>5, <4>1, <4>2
    <3>. QED BY <3>1, <3>2
  <2>7. total_delegated_stake'[g] = total_delegated_stake[g] + PlanSettled(a, p, g)
                                      - p.delegation[g] - PlanResidue(a, p, g)
    BY <1>2
  <2>. QED BY <2>1, <2>4, <2>5, <2>6, <2>7
<1>6. NoStrandedDelegation'
  <2>. SUFFICES ASSUME NEW q \in Pairs, del_amount'[q] > 0
                PROVE  Exists(q[1]) /\ q \in delegations
    BY <1>2 DEF NoStrandedDelegation, Exists
  <2>1. CASE q[2] = a /\ p.delegation[q[1]] > 0
    BY <1>1, <1>3, <2>1 DEF PlanAllowed, PlanDelegations, Joined, Exists
  <2>2. CASE ~(q[2] = a /\ p.delegation[q[1]] > 0)
    BY <1>2, <2>2 DEF DelegationInv, NoStrandedDelegation
  <2>. QED BY <2>1, <2>2
<1>7. DebtNotAhead'
  <2>. SUFFICES ASSUME NEW q \in Pairs, del_amount'[q] > 0
                PROVE  reward_debt'[q] <= cumulative_reward[q[1]]
    BY <1>2 DEF DebtNotAhead
  <2>1. CASE q[2] = a /\ p.delegation[q[1]] > 0
    BY <1>2, <1>3, <1>4, <2>1
  <2>2. CASE ~(q[2] = a /\ p.delegation[q[1]] > 0)
    BY <1>2, <2>2 DEF DelegationInv, DebtNotAhead
  <2>. QED BY <2>1, <2>2
<1>. QED BY <1>5, <1>6, <1>7 DEF DelegationInv

(* Every step keeps DelegationInv. *)
LEMMA DelegationStep == TypeOK /\ DelegationInv /\ [Next]_vars => DelegationInv'
<1>. SUFFICES ASSUME TypeOK, DelegationInv, [Next]_vars PROVE DelegationInv'
  OBVIOUS
<1>. USE DEF clockVars, tokenVars, counterVars, stakeVars, gatewayVars,
             delegationVars, vaultVars, otherVars
<1>a. TypeOK'
  BY TypeStep
<1>b. /\ status \in [Operators -> {"None", "Joined", "Leaving"}]
      /\ del_amount \in [Pairs -> Nat]
      /\ reward_debt \in [Pairs -> Nat]
      /\ total_delegated_stake \in [Operators -> Nat]
      /\ cumulative_reward \in [Operators -> Nat]
      /\ \A q \in Pairs : q[1] \in Operators /\ q[2] \in Accounts /\ q = <<q[1], q[2]>>
  BY DEF TypeOK, DelegationTypes, StakeTypes, GatewayTypes, Pairs
<1>c. ASSUME UNCHANGED <<del_amount, total_delegated_stake, cumulative_reward, status>>,
             \A q \in Pairs : del_amount[q] > 0 =>
               /\ q \in delegations => q \in delegations'
               /\ reward_debt'[q] = reward_debt[q]
      PROVE  DelegationInv'
  <2>1. GatewayCounters'
    BY <1>c DEF DelegationInv, GatewayCounters, DelegatedTo, Total
  <2>2. NoStrandedDelegation' /\ DebtNotAhead'
    BY <1>c DEF DelegationInv, NoStrandedDelegation, DebtNotAhead, Exists
  <2>. QED BY <2>1, <2>2 DEF DelegationInv
<1>d. ASSUME NEW g \in Operators, \A d \in Accounts : del_amount[<<g, d>>] = 0,
             total_delegated_stake' = [total_delegated_stake EXCEPT ![g] = 0],
             cumulative_reward' = [cumulative_reward EXCEPT ![g] = 0],
             \A h \in Operators \ {g} : status'[h] = status[h],
             UNCHANGED delegationVars
      PROVE  DelegationInv'
  <2>1. \A h \in Operators : DelegatedTo(h)' = DelegatedTo(h)
    BY <1>d, DelegatedSame
  <2>2. DelegatedTo(g) = 0
    <3>. DEFINE f == [d \in Accounts |-> del_amount[<<g, d>>]]
    <3>1. \A d \in Accounts : f[d] = 0
      BY <1>d
    <3>2. DelegatedTo(g) = SumFunctionOnSet(f, Accounts)
      BY DEF DelegatedTo, Total
    <3>. HIDE DEF f
    <3>. QED BY <3>1, <3>2, Finite, SumZero
  <2>3. GatewayCounters'
    BY <1>b, <1>d, <2>1, <2>2 DEF DelegationInv, GatewayCounters
  <2>4. \A q \in Pairs : del_amount[q] > 0 => q[1] # g
    BY <1>b, <1>d
  <2>5. NoStrandedDelegation'
    BY <1>b, <1>d, <2>4 DEF DelegationInv, NoStrandedDelegation, Exists
  <2>6. DebtNotAhead'
    BY <1>b, <1>d, <2>4 DEF DelegationInv, DebtNotAhead
  <2>. QED BY <2>3, <2>5, <2>6 DEF DelegationInv
<1>1. ASSUME NEW g \in Operators, NEW stake \in Amounts,
             NEW allow \in BOOLEAN, NEW min \in MinDelegations,
             JoinNetwork(g, stake, allow, min)
      PROVE  DelegationInv'
  <2>1. ~Exists(g)
    BY <1>1 DEF JoinNetwork
  <2>2. \A d \in Accounts : del_amount[<<g, d>>] = 0
    BY <1>b, <2>1, PairIn DEF DelegationInv, NoStrandedDelegation
  <2>3. \A h \in Operators \ {g} : status'[h] = status[h]
    BY <1>b, <1>1 DEF JoinNetwork
  <2>. QED BY <1>1, <1>d, <2>2, <2>3 DEF JoinNetwork
<1>2. ASSUME NEW g \in Operators, NEW amount \in Amounts,
             \/ IncreaseOperatorStake(g, amount)
             \/ DecreaseOperatorStake(g, amount)
             \/ DeductOperatorStakeForPayment(g, amount)
      PROVE  DelegationInv'
  BY <1>2, <1>c DEF IncreaseOperatorStake, DecreaseOperatorStake,
                    DeductOperatorStakeForPayment
<1>3. ASSUME NEW g \in Operators, LeaveNetwork(g) \/ PruneGateway(g)
      PROVE  DelegationInv'
  <2>1. /\ status' = [status EXCEPT ![g] = "Leaving"]
        /\ UNCHANGED <<delegationVars, total_delegated_stake, cumulative_reward>>
    BY <1>3 DEF LeaveNetwork, PruneGateway, MarkLeaving
  <2>2. GatewayCounters'
    BY <2>1 DEF DelegationInv, GatewayCounters, DelegatedTo, Total
  <2>3. NoStrandedDelegation' /\ DebtNotAhead'
    BY <1>b, <2>1 DEF DelegationInv, NoStrandedDelegation, DebtNotAhead, Exists
  <2>. QED BY <2>2, <2>3 DEF DelegationInv
<1>4. ASSUME NEW g \in Operators, FinalizeGone(g)
      PROVE  DelegationInv'
  <2>1. total_delegated_stake[g] = 0 /\ DelegatedTo(g) = 0
    BY <1>4 DEF FinalizeGone, MayFinalize, DelegationInv, GatewayCounters
  <2>2. \A d \in Accounts : del_amount[<<g, d>>] = 0
    BY <1>b, <2>1, DelegatedNat, PairIn
  <2>3. /\ \A h \in Operators \ {g} : status'[h] = status[h]
        /\ total_delegated_stake' = [total_delegated_stake EXCEPT ![g] = 0]
    BY <1>b, <1>4, <2>1 DEF FinalizeGone
  <2>. QED BY <1>4, <1>d, <2>2, <2>3 DEF FinalizeGone
<1>5. ASSUME NEW g \in Operators,
             \/ \E allow \in BOOLEAN, min \in MinDelegations :
                  UpdateGatewaySettings(g, allow, min)
             \/ \E enabled \in AllowlistChoices : SetAllowlistEnabled(g, enabled)
      PROVE  DelegationInv'
  BY <1>5, <1>c DEF UpdateGatewaySettings, SetAllowlistEnabled
<1>6. ASSUME NEW g \in Operators, NEW d \in Accounts, NEW amount \in Amounts,
             DelegateStake(d, g, amount)
      PROVE  DelegationInv'
  <2>1. /\ amount \in Nat /\ Pending(g, d) \in Nat /\ del_amount[<<g, d>>] \in Nat
        /\ Principal(g, d) = del_amount[<<g, d>>] + Pending(g, d)
    BY InputAssumption, PendingNat DEF Principal
  <2>2. del_amount'[<<g, d>>] = Principal(g, d) + amount
    BY <1>b, <1>6, PairIn DEF DelegateStake, SetPrincipal
  <2>3. total_delegated_stake' = [total_delegated_stake EXCEPT ![g] =
          @ + del_amount'[<<g, d>>] - del_amount[<<g, d>>]]
    <3>1. total_delegated_stake[g] + Pending(g, d) + amount
            = total_delegated_stake[g] + del_amount'[<<g, d>>] - del_amount[<<g, d>>]
      BY <1>b, <2>1, <2>2
    <3>. QED BY <3>1, <1>6 DEF DelegateStake
  <2>4. /\ Exists(g) /\ SetPrincipal(g, d, del_amount'[<<g, d>>])
        /\ delegations' = delegations \cup {<<g, d>>}
        /\ UNCHANGED <<status, cumulative_reward>>
    BY <1>6, <2>2 DEF DelegateStake, Accepts, Joined, Exists
  <2>. QED BY <1>a, <2>3, <2>4, OneDelegation
<1>7. ASSUME NEW g \in Operators, NEW d \in Accounts, NEW amount \in Amounts,
             DecreaseDelegateStake(d, g, amount)
      PROVE  DelegationInv'
  <2>1. amount \in Nat /\ Principal(g, d) \in Nat
    BY InputAssumption, PendingNat
  <2>2. Principal(g, d) - amount \in Nat
    BY <1>7, <2>1 DEF DecreaseDelegateStake
  <2>. QED BY <1>7, <1>a, <2>1, <2>2, ToVaultDelegation DEF DecreaseDelegateStake
<1>8. ASSUME NEW g \in Operators, NEW d \in Accounts, NEW amount \in Amounts,
             DeductDelegationForPayment(d, g, amount)
      PROVE  DelegationInv'
  <2>1. /\ amount \in Nat /\ Pending(g, d) \in Nat /\ del_amount[<<g, d>>] \in Nat
        /\ Principal(g, d) = del_amount[<<g, d>>] + Pending(g, d)
    BY InputAssumption, PendingNat DEF Principal
  <2>2. del_amount'[<<g, d>>] = Principal(g, d) - amount
    BY <1>b, <1>8, PairIn DEF DeductDelegationForPayment, SetPrincipal
  <2>3. total_delegated_stake' = [total_delegated_stake EXCEPT ![g] =
          @ + del_amount'[<<g, d>>] - del_amount[<<g, d>>]]
    <3>1. total_delegated_stake[g] + Pending(g, d) - amount
            = total_delegated_stake[g] + del_amount'[<<g, d>>] - del_amount[<<g, d>>]
      BY <1>b, <2>1, <2>2
    <3>. QED BY <3>1, <1>8 DEF DeductDelegationForPayment
  <2>4. /\ Exists(g) /\ SetPrincipal(g, d, del_amount'[<<g, d>>])
        /\ <<g, d>> \in delegations
        /\ UNCHANGED <<delegations, status, cumulative_reward>>
    BY <1>8, <2>2 DEF DeductDelegationForPayment, Joined, Exists
  <2>. QED BY <1>a, <2>3, <2>4, OneDelegation
<1>9. ASSUME NEW g \in Operators, NEW d \in Accounts, NEW amount \in Amounts,
             NEW h \in Operators, RedelegateStake(d, g, h, amount)
      PROVE  DelegationInv'
  BY <1>9, <1>a, RedelegateDelegation
<1>10. ASSUME NEW g \in Operators, NEW d \in Accounts,
              \/ ClaimDelegateFromLeavingGateway(g, d)
              \/ ClaimDelegateFromDisabledGateway(g, d)
       PROVE  DelegationInv'
  <2>1. Principal(g, d) \in Nat
    BY PendingNat
  <2>2. Principal(g, d) - Principal(g, d) \in Nat
    BY <2>1
  <2>3. Exists(g) /\ <<g, d>> \in delegations /\ DelegationToVault(g, d, Principal(g, d))
    BY <1>10 DEF ClaimDelegateFromLeavingGateway, ClaimDelegateFromDisabledGateway, Exists
  <2>. QED BY <1>a, <2>1, <2>2, <2>3, ToVaultDelegation
<1>11. ASSUME NEW g \in Operators, NEW d \in Accounts, CloseEmptyDelegation(g, d)
       PROVE  DelegationInv'
  <2>1. \A q \in Pairs : del_amount[q] > 0 => q # <<g, d>>
    BY <1>11 DEF CloseEmptyDelegation
  <2>. QED BY <1>11, <1>b, <1>c, <2>1 DEF CloseEmptyDelegation
<1>12. ASSUME NEW g \in Operators, NEW d \in Accounts, CompoundDelegationRewards(g, d)
       PROVE  DelegationInv'
  <2>1. /\ Pending(g, d) \in Nat /\ del_amount[<<g, d>>] \in Nat
        /\ Principal(g, d) = del_amount[<<g, d>>] + Pending(g, d)
    BY PendingNat DEF Principal
  <2>2. del_amount'[<<g, d>>] = Principal(g, d)
    BY <1>b, <1>12, PairIn DEF CompoundDelegationRewards, SetPrincipal
  <2>3. total_delegated_stake' = [total_delegated_stake EXCEPT ![g] =
          @ + del_amount'[<<g, d>>] - del_amount[<<g, d>>]]
    <3>1. total_delegated_stake[g] + Pending(g, d)
            = total_delegated_stake[g] + del_amount'[<<g, d>>] - del_amount[<<g, d>>]
      BY <1>b, <2>1, <2>2
    <3>. QED BY <3>1, <1>12 DEF CompoundDelegationRewards
  <2>4. /\ Exists(g) /\ SetPrincipal(g, d, del_amount'[<<g, d>>])
        /\ <<g, d>> \in delegations
        /\ UNCHANGED <<delegations, status, cumulative_reward>>
    BY <1>12, <2>2 DEF CompoundDelegationRewards
  <2>. QED BY <1>a, <2>3, <2>4, OneDelegation
<1>13. ASSUME NEW g \in Operators, NEW d \in Accounts,
              AllowDelegate(g, d) \/ DisallowDelegate(g, d)
       PROVE  DelegationInv'
  BY <1>13, <1>c DEF AllowDelegate, DisallowDelegate
<1>14. ASSUME NEW v \in VaultIds, CancelDelegateWithdrawal(v)
       PROVE  DelegationInv'
  <2>. DEFINE g == vault[v].gateway
              d == v[1]
              amount == vault_amount[v]
  <2>1. amount \in Nat /\ g \in Operators /\ d \in Accounts
    BY <1>14 DEF TypeOK, VaultTypes, VaultRecord, VaultIds, CancelDelegateWithdrawal, Open
  <2>2. /\ Accepts(g) /\ <<g, d>> \in delegations
        /\ SetPrincipal(g, d, Principal(g, d) + amount)
        /\ total_delegated_stake' =
             [total_delegated_stake EXCEPT ![g] = @ + Pending(g, d) + amount]
        /\ UNCHANGED <<delegations, status, cumulative_reward>>
    BY <1>14 DEF CancelDelegateWithdrawal
  <2>. HIDE DEF g, d, amount
  <2>3. /\ Pending(g, d) \in Nat /\ del_amount[<<g, d>>] \in Nat
        /\ Principal(g, d) = del_amount[<<g, d>>] + Pending(g, d)
    BY <2>1, PendingNat DEF Principal
  <2>4. del_amount'[<<g, d>>] = Principal(g, d) + amount
    BY <1>b, <2>1, <2>2, PairIn DEF SetPrincipal
  <2>5. total_delegated_stake' = [total_delegated_stake EXCEPT ![g] =
          @ + del_amount'[<<g, d>>] - del_amount[<<g, d>>]]
    <3>1. total_delegated_stake[g] + Pending(g, d) + amount
            = total_delegated_stake[g] + del_amount'[<<g, d>>] - del_amount[<<g, d>>]
      BY <1>b, <2>1, <2>3, <2>4
    <3>. QED BY <3>1, <2>2
  <2>6. Exists(g) /\ SetPrincipal(g, d, del_amount'[<<g, d>>])
    BY <2>2, <2>4 DEF Accepts, Joined, Exists
  <2>. QED BY <1>a, <2>1, <2>2, <2>5, <2>6, OneDelegation
<1>15. ASSUME NEW v \in VaultIds,
              \/ ClaimWithdrawal(v)
              \/ InstantWithdrawal(v)
              \/ CloseDrainedWithdrawal(v)
              \/ CancelOperatorWithdrawal(v)
              \/ \E amount \in Amounts : DeductWithdrawalForPayment(v, amount)
       PROVE  DelegationInv'
  <2>1. UNCHANGED <<delegationVars, total_delegated_stake, cumulative_reward, status>>
    BY <1>15 DEF ClaimWithdrawal, InstantWithdrawal, CloseDrainedWithdrawal,
                 CancelOperatorWithdrawal, DeductWithdrawalForPayment
  <2>. QED BY <1>c, <2>1
<1>16. ASSUME NEW a \in Accounts, NEW p \in Plans, NEW slot \in PlanSlots(a, p),
              PayFromFundingPlan(a, p, slot)
       PROVE  DelegationInv'
  BY <1>16, <1>a, PlanDelegation
<1>17. ASSUME NEW o \in [Operators -> Outcomes], DistributeEpoch(o)
       PROVE  DelegationInv'
  <2>1. /\ cumulative_reward' = [g \in Operators |-> cumulative_reward[g] + Increment(o, g)]
        /\ UNCHANGED <<delegationVars, total_delegated_stake, status>>
    BY <1>17 DEF DistributeEpoch
  <2>2. \A g \in Operators : cumulative_reward[g] <= cumulative_reward'[g]
    BY <1>b, <2>1, BatchNat
  <2>3. GatewayCounters'
    BY <2>1 DEF DelegationInv, GatewayCounters, DelegatedTo, Total
  <2>4. NoStrandedDelegation'
    BY <2>1 DEF DelegationInv, NoStrandedDelegation, Exists
  <2>5. \A g \in Operators : cumulative_reward'[g] \in Nat
    BY <1>a DEF TypeOK, StakeTypes
  <2>6. DebtNotAhead'
    BY <1>b, <2>1, <2>2, <2>5 DEF DelegationInv, DebtNotAhead
  <2>. QED BY <2>3, <2>4, <2>6 DEF DelegationInv
<1>18. ASSUME \/ \E period \in Periods : AdminSetWithdrawalPeriod(period)
              \/ Tick
              \/ UNCHANGED vars
       PROVE  DelegationInv'
  BY <1>18, <1>c DEF AdminSetWithdrawalPeriod, Tick, vars
<1>. QED
  BY <1>1, <1>2, <1>3, <1>4, <1>5, <1>6, <1>7, <1>8, <1>9, <1>10, <1>11, <1>12,
     <1>13, <1>14, <1>15, <1>16, <1>17, <1>18
     DEF Next, OperatorNext, DelegatorNext, VaultNext, PlanNext

(* The delegations' inductive invariant holds. *)
LEMMA DelegationHolds == Spec => []DelegationInv
<1>1. Init => DelegationInv
  <2>. SUFFICES ASSUME Init PROVE DelegationInv
    OBVIOUS
  <2>1. ASSUME NEW g \in Operators PROVE total_delegated_stake[g] = DelegatedTo(g)
    <3>. DEFINE f == [d \in Accounts |-> del_amount[<<g, d>>]]
    <3>1. \A d \in Accounts : f[d] = 0
      BY PairIn DEF Init
    <3>2. DelegatedTo(g) = SumFunctionOnSet(f, Accounts)
      BY DEF DelegatedTo, Total
    <3>3. total_delegated_stake[g] = 0
      BY DEF Init
    <3>. HIDE DEF f
    <3>. QED BY <3>1, <3>2, <3>3, Finite, SumZero
  <2>2. \A q \in Pairs : ~(del_amount[q] > 0)
    BY DEF Init
  <2>. QED BY <2>1, <2>2 DEF DelegationInv, GatewayCounters, NoStrandedDelegation, DebtNotAhead
<1>. QED BY <1>1, DelegationStep, TypeCorrect, PTL DEF Spec

(***************************************************************************)
(* Invariant 4 of INVARIANTS.md: Gateway.total_delegated_stake is the sum  *)
(* of the gateway's delegations, after any sequence of deposits,           *)
(* withdrawals, settlements, redelegations, payments and cancellations;    *)
(* the saturating subtractions never saturate.                             *)
(***************************************************************************)
THEOREM GatewayCountersHold == Spec => []GatewayCounters
BY DelegationHolds, PTL DEF DelegationInv

(***************************************************************************)
(* finalize_gone, which sees only the counter, never closes a gateway that *)
(* still holds somebody's principal.                                       *)
(***************************************************************************)
THEOREM NoStrandedDelegationHolds == Spec => []NoStrandedDelegation
BY DelegationHolds, PTL DEF DelegationInv

(***************************************************************************)
(* No delegation with principal is ahead of its gateway's accumulator,     *)
(* though a Delegation PDA may outlive its gateway and the accumulator     *)
(* starts again from zero when the operator joins again.                   *)
(***************************************************************************)
THEOREM DebtNotAheadHolds == Spec => []DebtNotAhead
BY DelegationHolds, PTL DEF DelegationInv

-----------------------------------------------------------------------------
(***************************************************************************)
(* The supply counters.                                                    *)
(***************************************************************************)

(* A total of natural numbers is one, and no term exceeds it. *)
LEMMA TotalNat ==
  ASSUME NEW S, IsFiniteSet(S), NEW f \in [S -> Nat]
  PROVE  Total(f, S) \in Nat /\ \A k \in S : f[k] \in Nat /\ f[k] <= Total(f, S)
<1>1. \A k \in S : f[k] \in Nat
  OBVIOUS
<1>2. SumFunctionOnSet(f, S) \in Nat
  BY <1>1, SumNat
<1>3. \A k \in S : f[k] <= SumFunctionOnSet(f, S)
  BY <1>1, SumMember
<1>. QED BY <1>1, <1>2, <1>3 DEF Total

(* One entry of a ledger changes: its total changes by the difference. *)
LEMMA TotalUpdate ==
  ASSUME NEW f, NEW h, NEW S, IsFiniteSet(S), NEW k \in S,
         \A y \in S : f[y] \in Int /\ h[y] \in Int,
         \A y \in S \ {k} : h[y] = f[y]
  PROVE  Total(h, S) = Total(f, S) - f[k] + h[k]
BY SumUpdate DEF Total

(* A vault that is not open holds nothing. *)
ClosedEmpty == \A v \in VaultIds : ~Open(v) => vault_amount[v] = 0

SupplyInv == SupplyCounters /\ ClosedEmpty

(* A new vault adds its amount to what is being withdrawn. *)
LEMMA OpenVaultTotal ==
  ASSUME TypeOK, ClosedEmpty, NEW o \in Accounts, NEW g \in Operators, NEW amount \in Nat,
         NEW isDelegate \in BOOLEAN, OpenVault(o, g, amount, isDelegate)
  PROVE  /\ Total(vault_amount', VaultIds) = Total(vault_amount, VaultIds) + amount
         /\ ClosedEmpty'
<1>. DEFINE v == <<o, next_id[o]>>
            w == VaultOf(g, withdrawal_period, isDelegate, FALSE)
<1>1. /\ v \in VaultIds /\ ~Open(v)
      /\ vault' = [vault EXCEPT ![v] = w]
      /\ vault_amount' = [vault_amount EXCEPT ![v] = amount]
  BY DEF OpenVault
<1>2. vault_amount \in [VaultIds -> Nat] /\ vault \in [VaultIds -> VaultRecord \cup {NoVault}]
  BY DEF TypeOK, VaultTypes
<1>3. w # NoVault
  BY VaultOfType, SetAssumption, PeriodAssumption DEF TypeOK, ClockTypes
<1>. HIDE DEF v, w
<1>4. vault_amount[v] = 0
  BY <1>1 DEF ClosedEmpty
<1>5. Total(vault_amount', VaultIds) = Total(vault_amount, VaultIds) - vault_amount[v] + vault_amount'[v]
  <2>1. /\ \A y \in VaultIds : vault_amount[y] \in Int /\ vault_amount'[y] \in Int
        /\ \A y \in VaultIds \ {v} : vault_amount'[y] = vault_amount[y]
    BY <1>1, <1>2
  <2>2. v \in VaultIds
    BY <1>1
  <2>. QED BY <2>1, <2>2, Finite, TotalUpdate
<1>6. Total(vault_amount, VaultIds) \in Nat
  BY <1>2, Finite, TotalNat
<1>7. ClosedEmpty'
  BY <1>1, <1>2, <1>3 DEF ClosedEmpty, Open
<1>8. vault_amount'[v] = amount
  BY <1>1, <1>2
<1>. QED BY <1>4, <1>5, <1>6, <1>7, <1>8

(* A closed vault takes its amount along. *)
LEMMA CloseVaultTotal ==
  ASSUME TypeOK, ClosedEmpty, NEW v \in VaultIds, CloseVault(v)
  PROVE  /\ Total(vault_amount', VaultIds) = Total(vault_amount, VaultIds) - vault_amount[v]
         /\ vault_amount[v] \in Nat /\ vault_amount[v] <= Total(vault_amount, VaultIds)
         /\ Total(vault_amount, VaultIds) \in Nat
         /\ ClosedEmpty'
<1>1. /\ vault' = [vault EXCEPT ![v] = NoVault]
      /\ vault_amount' = [vault_amount EXCEPT ![v] = 0]
  BY DEF CloseVault
<1>2. vault_amount \in [VaultIds -> Nat] /\ vault \in [VaultIds -> VaultRecord \cup {NoVault}]
  BY DEF TypeOK, VaultTypes
<1>3. Total(vault_amount', VaultIds) = Total(vault_amount, VaultIds) - vault_amount[v] + vault_amount'[v]
  <2>1. /\ \A y \in VaultIds : vault_amount[y] \in Int /\ vault_amount'[y] \in Int
        /\ \A y \in VaultIds \ {v} : vault_amount'[y] = vault_amount[y]
    BY <1>1, <1>2
  <2>. QED BY <2>1, Finite, TotalUpdate
<1>4. /\ Total(vault_amount, VaultIds) \in Nat
      /\ vault_amount[v] \in Nat /\ vault_amount[v] <= Total(vault_amount, VaultIds)
  BY <1>2, Finite, TotalNat
<1>5. ClosedEmpty'
  BY <1>1, <1>2 DEF ClosedEmpty, Open
<1>6. vault_amount'[v] = 0
  BY <1>1, <1>2
<1>. QED BY <1>3, <1>4, <1>5, <1>6

(* The exit vaults hold together what the operator takes out. *)
LEMMA ExitVaultsTotal ==
  ASSUME TypeOK, ClosedEmpty, NEW g \in Operators, NEW amount \in Nat,
         OpenExitVaults(g, amount)
  PROVE  /\ Total(vault_amount', VaultIds) = Total(vault_amount, VaultIds) + amount
         /\ ClosedEmpty'
<1>. DEFINE protected == MinOf(amount, MinOperatorStake)
            excess == SatSub(amount, MinOperatorStake)
            exit == <<g, next_id[g]>>
            other == <<g, next_id[g] + 1>>
            exitVault == VaultOf(g, IF protected > 0 THEN LeavePeriod ELSE 0, FALSE, protected > 0)
            otherVault == VaultOf(g, withdrawal_period, FALSE, FALSE)
            one == [vault_amount EXCEPT ![exit] = protected]
            two == [one EXCEPT ![other] = excess]
<1>1. protected \in Nat /\ excess \in Nat /\ protected + excess = amount
  BY LimitAssumption DEF MinOf, SatSub
<1>2. exitVault # NoVault /\ otherVault # NoVault
  <2>1. /\ (IF protected > 0 THEN LeavePeriod ELSE 0) \in Nat
        /\ withdrawal_period \in Nat
        /\ (protected > 0) \in BOOLEAN
    BY PeriodAssumption DEF TypeOK, ClockTypes
  <2>. QED BY <2>1, VaultOfType, SetAssumption, Zenon
<1>3. /\ exit \in VaultIds /\ ~Open(exit)
      /\ excess > 0 => other \in VaultIds /\ ~Open(other)
      /\ vault' = [v \in VaultIds |-> CASE v = exit -> exitVault
                                      [] v = other /\ excess > 0 -> otherVault
                                      [] OTHER -> vault[v]]
      /\ vault_amount' = [v \in VaultIds |-> CASE v = exit -> protected
                                             [] v = other /\ excess > 0 -> excess
                                             [] OTHER -> vault_amount[v]]
  BY DEF OpenExitVaults
<1>4. exit # other
  <2>1. next_id[g] \in Nat
    BY SetAssumption DEF TypeOK, VaultTypes
  <2>. QED BY <2>1
<1>5. vault_amount \in [VaultIds -> Nat] /\ vault \in [VaultIds -> VaultRecord \cup {NoVault}]
  BY DEF TypeOK, VaultTypes
<1>. HIDE DEF protected, excess, exit, other, exitVault, otherVault
<1>6. vault_amount[exit] = 0 /\ (excess > 0 => vault_amount[other] = 0)
  BY <1>3 DEF ClosedEmpty
<1>7. Total(vault_amount, VaultIds) \in Nat
  BY <1>5, Finite, TotalNat
<1>8. one \in [VaultIds -> Nat]
  BY <1>1, <1>5
<1>9. Total(one, VaultIds) = Total(vault_amount, VaultIds) - vault_amount[exit] + one[exit]
  <2>1. /\ \A y \in VaultIds : vault_amount[y] \in Int /\ one[y] \in Int
        /\ \A y \in VaultIds \ {exit} : one[y] = vault_amount[y]
    BY <1>1, <1>3, <1>5
  <2>. HIDE DEF one
  <2>. QED BY <1>3, <2>1, Finite, TotalUpdate
<1>12. one[exit] = protected
  BY <1>3, <1>5
<1>10. Total(vault_amount', VaultIds) = Total(vault_amount, VaultIds) + amount
  <2>1. CASE excess > 0
    <3>1. vault_amount' = two
      BY <1>3, <1>4, <1>5, <2>1
    <3>2. one[other] = 0
      BY <1>3, <1>4, <1>5, <1>6, <2>1
    <3>3. Total(two, VaultIds) = Total(one, VaultIds) - one[other] + two[other]
      <4>. HIDE DEF one
      <4>1. /\ \A y \in VaultIds : one[y] \in Int /\ two[y] \in Int
            /\ \A y \in VaultIds \ {other} : two[y] = one[y]
        BY <1>1, <1>3, <1>8, <2>1
      <4>. HIDE DEF two
      <4>. QED BY <1>3, <2>1, <4>1, Finite, TotalUpdate
    <3>4. two[other] = excess
      BY <1>3, <1>8, <2>1
    <3>. HIDE DEF one, two
    <3>. QED BY <1>1, <1>6, <1>7, <1>9, <1>12, <3>1, <3>2, <3>3, <3>4
  <2>2. CASE ~(excess > 0)
    <3>1. vault_amount' = one
      BY <1>3, <1>5, <2>2
    <3>2. excess = 0
      BY <1>1, <2>2
    <3>. HIDE DEF one
    <3>. QED BY <1>1, <1>6, <1>7, <1>9, <1>12, <3>1, <3>2
  <2>. QED BY <2>1, <2>2
<1>11. ClosedEmpty'
  <2>. SUFFICES ASSUME NEW v \in VaultIds, vault'[v] = NoVault PROVE vault_amount'[v] = 0
    BY DEF ClosedEmpty, Open
  <2>1. v # exit /\ ~(v = other /\ excess > 0) /\ vault'[v] = vault[v]
    BY <1>2, <1>3
  <2>2. vault_amount'[v] = vault_amount[v]
    BY <1>3, <2>1
  <2>. QED BY <2>1, <2>2 DEF ClosedEmpty, Open
<1>. QED BY <1>10, <1>11

(* One gateway's stake changes: the total changes by the difference. *)
LEMMA StakedAt ==
  ASSUME TypeOK, TypeOK', NEW g \in Operators,
         \A h \in Operators \ {g} : operator_stake'[h] = operator_stake[h]
  PROVE  Total(operator_stake', Operators)
           = Total(operator_stake, Operators) - operator_stake[g] + operator_stake'[g]
<1>1. \A h \in Operators : operator_stake[h] \in Int /\ operator_stake'[h] \in Int
  BY DEF TypeOK, StakeTypes
<1>. QED BY <1>1, Finite, TotalUpdate

(* One gateway's delegated stake changes. *)
LEMMA DelegatedAt ==
  ASSUME TypeOK, TypeOK', NEW g \in Operators,
         \A h \in Operators \ {g} : total_delegated_stake'[h] = total_delegated_stake[h]
  PROVE  Total(total_delegated_stake', Operators)
           = Total(total_delegated_stake, Operators)
               - total_delegated_stake[g] + total_delegated_stake'[g]
<1>1. \A h \in Operators : total_delegated_stake[h] \in Int /\ total_delegated_stake'[h] \in Int
  BY DEF TypeOK, StakeTypes
<1>. QED BY <1>1, Finite, TotalUpdate

(* One vault's amount changes. *)
LEMMA VaultAt ==
  ASSUME TypeOK, TypeOK', NEW v \in VaultIds,
         \A w \in VaultIds \ {v} : vault_amount'[w] = vault_amount[w]
  PROVE  Total(vault_amount', VaultIds)
           = Total(vault_amount, VaultIds) - vault_amount[v] + vault_amount'[v]
<1>1. \A w \in VaultIds : vault_amount[w] \in Int /\ vault_amount'[w] \in Int
  BY DEF TypeOK, VaultTypes
<1>. QED BY <1>1, Finite, TotalUpdate

(* The totals are natural numbers and bound the single accounts. *)
LEMMA TotalsNat ==
  ASSUME TypeOK
  PROVE  /\ Total(operator_stake, Operators) \in Nat
         /\ Total(total_delegated_stake, Operators) \in Nat
         /\ Total(vault_amount, VaultIds) \in Nat
         /\ \A g \in Operators :
              /\ operator_stake[g] \in Nat
              /\ operator_stake[g] <= Total(operator_stake, Operators)
              /\ total_delegated_stake[g] \in Nat
              /\ total_delegated_stake[g] <= Total(total_delegated_stake, Operators)
         /\ \A v \in VaultIds :
              /\ vault_amount[v] \in Nat
              /\ vault_amount[v] <= Total(vault_amount, VaultIds)
<1>1. /\ operator_stake \in [Operators -> Nat]
      /\ total_delegated_stake \in [Operators -> Nat]
      /\ vault_amount \in [VaultIds -> Nat]
  BY DEF TypeOK, StakeTypes, VaultTypes
<1>2. /\ Total(operator_stake, Operators) \in Nat
      /\ \A g \in Operators : /\ operator_stake[g] \in Nat
                              /\ operator_stake[g] <= Total(operator_stake, Operators)
  BY <1>1, Finite, TotalNat
<1>3. /\ Total(total_delegated_stake, Operators) \in Nat
      /\ \A g \in Operators :
           /\ total_delegated_stake[g] \in Nat
           /\ total_delegated_stake[g] <= Total(total_delegated_stake, Operators)
  BY <1>1, Finite, TotalNat
<1>4. /\ Total(vault_amount, VaultIds) \in Nat
      /\ \A v \in VaultIds : /\ vault_amount[v] \in Nat
                             /\ vault_amount[v] <= Total(vault_amount, VaultIds)
  BY <1>1, Finite, TotalNat
<1>. QED BY <1>2, <1>3, <1>4

(* The three parts of SupplyCounters. *)
StakedCounted == total_staked = Total(operator_stake, Operators)
DelegatedCounted == total_delegated = Total(total_delegated_stake, Operators)
WithdrawnCounted == total_withdrawn = Total(vault_amount, VaultIds)

(* Every step keeps the counter of the operators' stake. *)
LEMMA StakedStep == TypeOK /\ StakeFloor /\ StakedCounted /\ [Next]_vars => StakedCounted'
<1>. SUFFICES ASSUME TypeOK, StakeFloor, StakedCounted, [Next]_vars PROVE StakedCounted'
  OBVIOUS
<1>. USE DEF clockVars, tokenVars, counterVars, stakeVars, gatewayVars,
             delegationVars, vaultVars, otherVars
<1>a. TypeOK'
  BY TypeStep
<1>b. /\ operator_stake \in [Operators -> Nat]
      /\ MinOperatorStake \in Nat
      /\ total_staked \in Nat
      /\ \A amount \in Amounts : amount \in Nat
  BY LimitAssumption, InputAssumption DEF TypeOK, StakeTypes, CounterTypes
<1>c. ASSUME NEW g \in Operators, NEW x \in Nat,
             operator_stake' = [operator_stake EXCEPT ![g] = x],
             total_staked' = total_staked - operator_stake[g] + x
      PROVE  StakedCounted'
  <2>1. \A h \in Operators \ {g} : operator_stake'[h] = operator_stake[h]
    BY <1>b, <1>c
  <2>2. Total(operator_stake', Operators)
          = Total(operator_stake, Operators) - operator_stake[g] + operator_stake'[g]
    BY <1>a, <2>1, StakedAt
  <2>3. operator_stake'[g] = x
    BY <1>b, <1>c
  <2>. QED BY <1>c, <2>2, <2>3 DEF StakedCounted
<1>d. \A g \in Operators : operator_stake[g] \in Nat /\ operator_stake[g] <= total_staked
  BY TotalsNat DEF StakedCounted
<1>1. ASSUME NEW g \in Operators, NEW stake \in Amounts,
             NEW allow \in BOOLEAN, NEW min \in MinDelegations,
             JoinNetwork(g, stake, allow, min)
      PROVE  StakedCounted'
  <2>1. operator_stake[g] = 0
    BY <1>1 DEF JoinNetwork, StakeFloor, Joined, Exists
  <2>2. total_staked' = total_staked - operator_stake[g] + stake
    BY <1>b, <1>1, <2>1 DEF JoinNetwork
  <2>. QED BY <1>b, <1>c, <1>1, <2>2 DEF JoinNetwork
<1>2. ASSUME NEW g \in Operators, NEW amount \in Amounts, IncreaseOperatorStake(g, amount)
      PROVE  StakedCounted'
  <2>1. total_staked' = total_staked - operator_stake[g] + (operator_stake[g] + amount)
    BY <1>b, <1>d, <1>2 DEF IncreaseOperatorStake
  <2>2. operator_stake[g] + amount \in Nat
    BY <1>b, <1>d
  <2>. QED BY <1>c, <1>2, <2>1, <2>2 DEF IncreaseOperatorStake
<1>3. ASSUME NEW g \in Operators, NEW amount \in Amounts,
             \/ DecreaseOperatorStake(g, amount)
             \/ DeductOperatorStakeForPayment(g, amount)
      PROVE  StakedCounted'
  <2>0. /\ operator_stake[g] - amount >= MinOperatorStake \/ operator_stake[g] - amount = 0
        /\ operator_stake' = [operator_stake EXCEPT ![g] = operator_stake[g] - amount]
        /\ total_staked' = SatSub(total_staked, amount)
    BY <1>3, Zenon DEF DecreaseOperatorStake, DeductOperatorStakeForPayment
  <2>1. /\ operator_stake[g] - amount >= 0
        /\ operator_stake' = [operator_stake EXCEPT ![g] = operator_stake[g] - amount]
        /\ total_staked' = SatSub(total_staked, amount)
    BY <1>b, <1>d, <2>0
  <2>2. total_staked' = total_staked - operator_stake[g] + (operator_stake[g] - amount)
    BY <1>b, <1>d, <2>1 DEF SatSub
  <2>3. operator_stake[g] - amount \in Nat
    BY <1>b, <1>d, <2>1
  <2>. QED BY <1>c, <2>1, <2>2, <2>3
<1>4. ASSUME NEW g \in Operators, LeaveNetwork(g) \/ PruneGateway(g)
      PROVE  StakedCounted'
  <2>1. MarkLeaving(g)
    BY <1>4 DEF LeaveNetwork, PruneGateway
  <2>2. total_staked' = total_staked - operator_stake[g] + 0
    BY <1>b, <1>d, <2>1 DEF MarkLeaving, SatSub
  <2>. QED BY <1>c, <2>1, <2>2 DEF MarkLeaving
<1>5. ASSUME NEW g \in Operators, FinalizeGone(g)
      PROVE  StakedCounted'
  <2>1. operator_stake[g] = 0
    BY <1>5 DEF FinalizeGone, MayFinalize, StakeFloor, Joined
  <2>2. total_staked' = total_staked - operator_stake[g] + 0
    BY <1>b, <1>5, <2>1 DEF FinalizeGone
  <2>. QED BY <1>c, <1>5, <2>2 DEF FinalizeGone
<1>6. ASSUME NEW v \in VaultIds, CancelOperatorWithdrawal(v)
      PROVE  StakedCounted'
  <2>. DEFINE g == vault[v].gateway
  <2>1. vault_amount[v] \in Nat /\ g \in Operators
    BY <1>6 DEF TypeOK, VaultTypes, VaultRecord, CancelOperatorWithdrawal, Open
  <2>2. /\ operator_stake' = [operator_stake EXCEPT ![g] = operator_stake[g] + vault_amount[v]]
        /\ total_staked' = total_staked + vault_amount[v]
    BY <1>6 DEF CancelOperatorWithdrawal
  <2>. HIDE DEF g
  <2>3. /\ total_staked' = total_staked - operator_stake[g] + (operator_stake[g] + vault_amount[v])
        /\ operator_stake[g] + vault_amount[v] \in Nat
    BY <1>b, <1>d, <2>1, <2>2
  <2>. QED BY <1>c, <2>1, <2>2, <2>3
<1>7. ASSUME NEW a \in Accounts, NEW p \in Plans, NEW slot \in PlanSlots(a, p),
             PayFromFundingPlan(a, p, slot)
      PROVE  StakedCounted'
  <2>1. /\ PlanAllowed(a, p)
        /\ operator_stake' = [g \in Operators |->
             IF g = a THEN operator_stake[g] - p.stake ELSE operator_stake[g]]
        /\ total_staked' = SatSub(total_staked, p.stake)
    BY <1>7 DEF PayFromFundingPlan
  <2>2. p.stake \in Nat
    BY <2>1, PlanNat
  <2>3. CASE p.stake > 0
    <3>1. a \in Operators /\ operator_stake[a] - p.stake >= MinOperatorStake
      BY <2>1, <2>3 DEF PlanAllowed
    <3>2. operator_stake' = [operator_stake EXCEPT ![a] = operator_stake[a] - p.stake]
      BY <1>b, <2>1, <3>1
    <3>3. /\ total_staked' = total_staked - operator_stake[a] + (operator_stake[a] - p.stake)
          /\ operator_stake[a] - p.stake \in Nat
      BY <1>b, <1>d, <2>1, <2>2, <3>1 DEF SatSub
    <3>. QED BY <1>c, <3>1, <3>2, <3>3
  <2>4. CASE p.stake = 0
    <3>1. operator_stake' = operator_stake
      BY <1>b, <2>1, <2>4
    <3>2. total_staked' = total_staked
      BY <1>b, <2>1, <2>4 DEF SatSub
    <3>. QED BY <3>1, <3>2 DEF StakedCounted
  <2>. QED BY <2>2, <2>3, <2>4
<1>8. ASSUME NEW o \in [Operators -> Outcomes], DistributeEpoch(o)
      PROVE  StakedCounted'
  <2>. DEFINE e == [g \in Operators |-> OperatorReward(o, g)]
  <2>1. /\ operator_stake' = [g \in Operators |-> operator_stake[g] + OperatorReward(o, g)]
        /\ total_staked' = total_staked + SumFunctionOnSet(e, Operators)
    BY <1>8 DEF DistributeEpoch
  <2>2. \A g \in Operators : /\ operator_stake[g] \in Int /\ e[g] \in Int
                             /\ operator_stake'[g] = operator_stake[g] + 1 * e[g]
    BY <1>b, <2>1, BatchNat
  <2>3. SumFunctionOnSet(e, Operators) \in Nat
    BY BatchSums
  <2>. HIDE DEF e
  <2>4. SumFunctionOnSet(operator_stake', Operators)
          = SumFunctionOnSet(operator_stake, Operators) + 1 * SumFunctionOnSet(e, Operators)
    BY <2>2, Finite, SumLinear
  <2>. QED BY <1>b, <2>1, <2>3, <2>4 DEF StakedCounted, Total
<1>9. ASSUME UNCHANGED <<total_staked, operator_stake>>
      PROVE  StakedCounted'
  BY <1>9 DEF StakedCounted
<1>10. ASSUME DelegatorNext PROVE UNCHANGED <<total_staked, operator_stake>>
  <2>. PICK g \in Operators, d \in Accounts :
         \/ \E amount \in Amounts :
              \/ DelegateStake(d, g, amount)
              \/ DecreaseDelegateStake(d, g, amount)
              \/ DeductDelegationForPayment(d, g, amount)
              \/ \E h \in Operators : RedelegateStake(d, g, h, amount)
         \/ ClaimDelegateFromLeavingGateway(g, d)
         \/ ClaimDelegateFromDisabledGateway(g, d)
         \/ CloseEmptyDelegation(g, d)
         \/ CompoundDelegationRewards(g, d)
         \/ AllowDelegate(g, d)
         \/ DisallowDelegate(g, d)
    BY <1>10 DEF DelegatorNext
  <2>. QED BY DEF DelegateStake, DecreaseDelegateStake, DeductDelegationForPayment,
                  RedelegateStake, ClaimDelegateFromLeavingGateway,
                  ClaimDelegateFromDisabledGateway, CloseEmptyDelegation,
                  CompoundDelegationRewards, AllowDelegate, DisallowDelegate,
                  DelegationToVault
<1>11. ASSUME NEW v \in VaultIds,
              \/ ClaimWithdrawal(v)
              \/ InstantWithdrawal(v)
              \/ CloseDrainedWithdrawal(v)
              \/ CancelDelegateWithdrawal(v)
              \/ \E amount \in Amounts : DeductWithdrawalForPayment(v, amount)
       PROVE  UNCHANGED <<total_staked, operator_stake>>
  BY <1>11 DEF ClaimWithdrawal, InstantWithdrawal, CloseDrainedWithdrawal,
               CancelDelegateWithdrawal, DeductWithdrawalForPayment
<1>12. ASSUME NEW g \in Operators,
              \/ \E allow \in BOOLEAN, min \in MinDelegations :
                   UpdateGatewaySettings(g, allow, min)
              \/ \E enabled \in AllowlistChoices : SetAllowlistEnabled(g, enabled)
       PROVE  UNCHANGED <<total_staked, operator_stake>>
  BY <1>12 DEF UpdateGatewaySettings, SetAllowlistEnabled
<1>13. ASSUME \/ \E period \in Periods : AdminSetWithdrawalPeriod(period)
              \/ Tick
              \/ UNCHANGED vars
       PROVE  UNCHANGED <<total_staked, operator_stake>>
  BY <1>13 DEF AdminSetWithdrawalPeriod, Tick, vars
<1>. QED
  BY <1>1, <1>2, <1>3, <1>4, <1>5, <1>6, <1>7, <1>8, <1>9, <1>10, <1>11, <1>12, <1>13
     DEF Next, OperatorNext, VaultNext, PlanNext

(* No redelegation fee exceeds the whole amount. *)
LEMMA FeeRateAtMost ==
  ASSUME TypeOK, NEW d \in Accounts
  PROVE  FeeRate(d) <= RateScale
<1>1. /\ now \in Nat
      /\ redelegation[d].count \in Nat
      /\ redelegation[d].fee_reset_at \in Nat
  BY DEF TypeOK, ClockTypes, DelegationTypes
<1>2. ASSUME NEW n \in Nat
      PROVE  (MinOf(FeeStep * n, FeeCap) * RateScale) \div 100 <= RateScale
  <2>1. FeeStep * n \in Nat
    BY ScaleAssumption
  <2>2. MinOf(FeeStep * n, FeeCap) \in Nat /\ MinOf(FeeStep * n, FeeCap) <= 100
    BY <2>1, ScaleAssumption DEF MinOf
  <2>3. \A m, r \in Nat : m <= 100 => m * r \in Nat /\ m * r <= 100 * r
    OBVIOUS
  <2>4. \A m, r \in Nat : m <= 100 * r => m \div 100 <= r
    OBVIOUS
  <2>. QED BY <2>2, <2>3, <2>4, ScaleAssumption
<1>. QED BY <1>1, <1>2 DEF FeeRate

(* A redelegation moves the counter by what it settles, less the fee. *)
LEMMA RedelegateCounted ==
  ASSUME TypeOK, TypeOK', DelegationInv, DelegatedCounted, NEW d \in Accounts,
         NEW g \in Operators, NEW h \in Operators, NEW amount \in Amounts,
         RedelegateStake(d, g, h, amount)
  PROVE  /\ DelegatedCounted'
         /\ total_delegated' = total_delegated + Pending(g, d) + Pending(h, d)
                                 - (amount * FeeRate(d)) \div RateScale
<1>. DEFINE fee == (amount * FeeRate(d)) \div RateScale
            net == SatSub(amount, fee)
            one == [total_delegated_stake EXCEPT ![g] = SatSub(@ + Pending(g, d), amount)]
<1>1. /\ amount \in Nat
      /\ Pending(g, d) \in Nat /\ Pending(h, d) \in Nat
      /\ Principal(g, d) = del_amount[<<g, d>>] + Pending(g, d)
      /\ del_amount[<<g, d>>] \in Nat
  BY InputAssumption, PendingNat DEF Principal
<1>2. fee \in Nat /\ fee <= amount
  <2>1. FeeRate(d) \in Nat /\ FeeRate(d) <= RateScale
    BY FeeRateNat, FeeRateAtMost
  <2>2. \A x, r \in Nat : r <= RateScale =>
          /\ x * r \in Nat
          /\ (x * r) \div RateScale \in Nat
          /\ (x * r) \div RateScale <= x
    <3>. SUFFICES ASSUME NEW x \in Nat, NEW r \in Nat, r <= RateScale
                  PROVE  /\ x * r \in Nat
                         /\ (x * r) \div RateScale \in Nat
                         /\ (x * r) \div RateScale <= x
      OBVIOUS
    <3>1. x * r \in Nat /\ x * r <= x * RateScale
      BY ScaleAssumption
    <3>2. \A m, n \in Nat : m <= n * RateScale => m \div RateScale <= n
      BY ScaleAssumption
    <3>. QED BY <3>1, <3>2, DivNat, ScaleAssumption
  <2>. QED BY <1>1, <2>1, <2>2
<1>3. /\ g # h /\ Principal(g, d) - amount >= 0
      /\ total_delegated_stake' = [total_delegated_stake EXCEPT
           ![g] = SatSub(@ + Pending(g, d), amount), ![h] = @ + Pending(h, d) + net]
      /\ total_delegated' = SatSub(total_delegated + Pending(g, d) + Pending(h, d), fee)
  BY DEF RedelegateStake
<1>. HIDE DEF fee
<1>4. net \in Nat /\ net = amount - fee
  BY <1>1, <1>2 DEF SatSub
<1>. HIDE DEF net
<1>5. /\ total_delegated_stake \in [Operators -> Nat]
      /\ total_delegated_stake' \in [Operators -> Nat]
      /\ total_delegated \in Nat
      /\ total_delegated_stake[g] \in Nat /\ total_delegated_stake[h] \in Nat
  BY DEF TypeOK, StakeTypes, CounterTypes
<1>6. /\ del_amount[<<g, d>>] <= total_delegated_stake[g]
      /\ total_delegated_stake[g] <= total_delegated
  <2>1. del_amount[<<g, d>>] <= total_delegated_stake[g]
    BY DelegatedNat DEF DelegationInv, GatewayCounters
  <2>. QED BY <2>1, TotalsNat DEF DelegatedCounted
<1>7. SatSub(total_delegated_stake[g] + Pending(g, d), amount)
        = total_delegated_stake[g] + Pending(g, d) - amount
  BY <1>1, <1>3, <1>5, <1>6 DEF SatSub
<1>8. /\ one \in [Operators -> Nat]
      /\ one[g] = total_delegated_stake[g] + Pending(g, d) - amount
      /\ one[h] = total_delegated_stake[h]
      /\ \A k \in Operators \ {g} : one[k] = total_delegated_stake[k]
      /\ \A k \in Operators \ {h} : total_delegated_stake'[k] = one[k]
      /\ total_delegated_stake'[h] = total_delegated_stake[h] + Pending(h, d) + net
  BY <1>1, <1>3, <1>5, <1>6, <1>7
<1>. HIDE DEF one
<1>9. Total(one, Operators) = Total(total_delegated_stake, Operators)
                                - total_delegated_stake[g] + one[g]
  <2>1. \A k \in Operators : total_delegated_stake[k] \in Int /\ one[k] \in Int
    BY <1>5, <1>8
  <2>. QED BY <1>8, <2>1, Finite, TotalUpdate
<1>10. Total(total_delegated_stake', Operators) = Total(one, Operators)
                                - one[h] + total_delegated_stake'[h]
  <2>1. \A k \in Operators : one[k] \in Int /\ total_delegated_stake'[k] \in Int
    BY <1>5, <1>8
  <2>2. \A k \in Operators \ {h} : total_delegated_stake'[k] = one[k]
    BY <1>8
  <2>. QED BY <2>1, <2>2, Finite, TotalUpdate
<1>11. total_delegated' = total_delegated + Pending(g, d) + Pending(h, d) - fee
  BY <1>1, <1>2, <1>3, <1>5, <1>6 DEF SatSub
<1>12. Total(total_delegated_stake', Operators)
         = Total(total_delegated_stake, Operators) + Pending(g, d) + Pending(h, d) - fee
  BY <1>1, <1>2, <1>4, <1>5, <1>8, <1>9, <1>10, TotalsNat
<1>. QED BY <1>11, <1>12 DEF DelegatedCounted, fee

(* A funding plan moves the counter by what it settles, pays and withdraws. *)
LEMMA PlanCounted ==
  ASSUME TypeOK, TypeOK', DelegatedCounted, NEW a \in Accounts, NEW p \in Plans,
         NEW slot \in PlanSlots(a, p), PayFromFundingPlan(a, p, slot)
  PROVE  /\ DelegatedCounted'
         /\ total_delegated' = total_delegated
              + SumFunctionOnSet([g \in Operators |-> PlanSettled(a, p, g)], Operators)
              - SumFunctionOnSet(p.delegation, Operators)
              - SumFunctionOnSet([g \in Operators |-> PlanResidue(a, p, g)], Operators)
<1>. DEFINE s == [g \in Operators |-> PlanSettled(a, p, g)]
            r == [g \in Operators |-> PlanResidue(a, p, g)]
            S == SumFunctionOnSet(s, Operators)
            D == SumFunctionOnSet(p.delegation, Operators)
            R == SumFunctionOnSet(r, Operators)
            T == SumFunctionOnSet(total_delegated_stake, Operators)
            one == [g \in Operators |-> total_delegated_stake[g] + s[g]]
            two == [g \in Operators |-> one[g] - p.delegation[g]]
<1>1. /\ PlanAllowed(a, p)
      /\ total_delegated_stake' = [g \in Operators |->
           total_delegated_stake[g] + PlanSettled(a, p, g)
             - p.delegation[g] - PlanResidue(a, p, g)]
      /\ total_delegated' = SatSub(SatSub(total_delegated + S, D), R)
  BY DEF PayFromFundingPlan
<1>2. /\ S \in Nat /\ D \in Nat /\ R \in Nat
  BY <1>1, PlanSums
<1>3. \A g \in Operators : /\ s[g] = PlanSettled(a, p, g) /\ r[g] = PlanResidue(a, p, g)
                           /\ s[g] \in Int /\ r[g] \in Int /\ p.delegation[g] \in Int
                           /\ total_delegated_stake[g] \in Int
  BY <1>1, PlanNat DEF TypeOK, StakeTypes
<1>4. \A g \in Operators : total_delegated_stake'[g] = two[g] - r[g]
  BY <1>1, <1>3
<1>5. T \in Nat /\ total_delegated = T
  BY TotalsNat DEF DelegatedCounted, Total
<1>6. SumFunctionOnSet(total_delegated_stake', Operators) \in Nat
  <2>1. \A g \in Operators : total_delegated_stake'[g] \in Nat
    BY DEF TypeOK, StakeTypes
  <2>. QED BY <2>1, Finite, SumNat
<1>. HIDE DEF s, r
<1>7. SumFunctionOnSet(one, Operators) = T + 1 * S
  <2>1. \A g \in Operators : /\ total_delegated_stake[g] \in Int /\ s[g] \in Int
                             /\ one[g] = total_delegated_stake[g] + 1 * s[g]
    BY <1>3
  <2>. HIDE DEF one
  <2>. QED BY <2>1, Finite, SumLinear
<1>8. \A g \in Operators : one[g] \in Int
  BY <1>3
<1>. HIDE DEF one
<1>9. SumFunctionOnSet(two, Operators) = SumFunctionOnSet(one, Operators) + (-1) * D
  <2>1. \A g \in Operators : two[g] = one[g] + (-1) * p.delegation[g]
    BY <1>3, <1>8
  <2>. HIDE DEF two
  <2>. QED BY <1>3, <1>8, <2>1, Finite, SumLinear
<1>10. \A g \in Operators : two[g] \in Int
  BY <1>3, <1>8
<1>. HIDE DEF two
<1>11. SumFunctionOnSet(total_delegated_stake', Operators)
         = SumFunctionOnSet(two, Operators) + (-1) * R
  <2>1. \A g \in Operators : total_delegated_stake'[g] = two[g] + (-1) * r[g]
    BY <1>3, <1>4, <1>10
  <2>. QED BY <1>3, <1>10, <2>1, Finite, SumLinear
<1>. HIDE DEF S, D, R, T
<1>12. SumFunctionOnSet(total_delegated_stake', Operators) = T + S - D - R
  BY <1>2, <1>5, <1>7, <1>9, <1>11
<1>13. total_delegated' = T + S - D - R
  BY <1>1, <1>2, <1>5, <1>6, <1>12 DEF SatSub
<1>. QED BY <1>5, <1>12, <1>13 DEF DelegatedCounted, Total, S, D, R, s, r

(* Every step keeps the counter of the delegated stake. *)
LEMMA DelegatedStep ==
  TypeOK /\ DelegationInv /\ DelegatedCounted /\ [Next]_vars => DelegatedCounted'
<1>. SUFFICES ASSUME TypeOK, DelegationInv, DelegatedCounted, [Next]_vars
              PROVE  DelegatedCounted'
  OBVIOUS
<1>. USE DEF clockVars, tokenVars, counterVars, stakeVars, gatewayVars,
             delegationVars, vaultVars, otherVars
<1>a. TypeOK'
  BY TypeStep
<1>b. /\ total_delegated_stake \in [Operators -> Nat]
      /\ total_delegated \in Nat
      /\ \A amount \in Amounts : amount \in Nat
      /\ \A g \in Operators : /\ total_delegated_stake[g] \in Nat
                              /\ total_delegated_stake[g] <= total_delegated
  <2>1. \A g \in Operators : /\ total_delegated_stake[g] \in Nat
                             /\ total_delegated_stake[g] <= total_delegated
    BY TotalsNat DEF DelegatedCounted
  <2>. QED BY <2>1, InputAssumption DEF TypeOK, StakeTypes, CounterTypes
<1>c. ASSUME NEW g \in Operators, NEW x \in Nat,
             total_delegated_stake' = [total_delegated_stake EXCEPT ![g] = x],
             total_delegated' = total_delegated - total_delegated_stake[g] + x
      PROVE  DelegatedCounted'
  <2>1. \A h \in Operators \ {g} : total_delegated_stake'[h] = total_delegated_stake[h]
    BY <1>b, <1>c
  <2>2. Total(total_delegated_stake', Operators)
          = Total(total_delegated_stake, Operators)
              - total_delegated_stake[g] + total_delegated_stake'[g]
    BY <1>a, <2>1, DelegatedAt
  <2>3. total_delegated_stake'[g] = x
    BY <1>b, <1>c
  <2>. QED BY <1>c, <2>2, <2>3 DEF DelegatedCounted
<1>d. ASSUME NEW g \in Operators, NEW d \in Accounts
      PROVE  /\ Pending(g, d) \in Nat
             /\ del_amount[<<g, d>>] \in Nat
             /\ Principal(g, d) = del_amount[<<g, d>>] + Pending(g, d)
             /\ del_amount[<<g, d>>] <= total_delegated_stake[g]
  BY PendingNat, DelegatedNat DEF Principal, DelegationInv, GatewayCounters
<1>e. ASSUME NEW g \in Operators, NEW d \in Accounts, NEW amount \in Nat,
             Principal(g, d) - amount \in Nat,
             total_delegated_stake' =
               [total_delegated_stake EXCEPT ![g] =
                  SatSub(total_delegated_stake[g] + Pending(g, d), amount)],
             total_delegated' = SatSub(total_delegated + Pending(g, d), amount)
      PROVE  DelegatedCounted'
  <2>0. /\ Pending(g, d) \in Nat
        /\ del_amount[<<g, d>>] \in Nat
        /\ Principal(g, d) = del_amount[<<g, d>>] + Pending(g, d)
        /\ del_amount[<<g, d>>] <= total_delegated_stake[g]
        /\ total_delegated_stake[g] \in Nat
        /\ total_delegated_stake[g] <= total_delegated
        /\ total_delegated \in Nat
    BY <1>b, <1>d, Zenon
  <2>. DEFINE x == SatSub(total_delegated_stake[g] + Pending(g, d), amount)
  <2>1. x \in Nat /\ x = total_delegated_stake[g] + Pending(g, d) - amount
    BY <1>b, <2>0, <1>e DEF SatSub
  <2>2. total_delegated' = total_delegated + Pending(g, d) - amount
    BY <1>b, <2>0, <1>e DEF SatSub
  <2>3. total_delegated_stake' = [total_delegated_stake EXCEPT ![g] = x]
    BY <1>e
  <2>. HIDE DEF x
  <2>4. total_delegated' = total_delegated - total_delegated_stake[g] + x
    BY <1>b, <2>0, <2>1, <2>2
  <2>. QED BY <1>c, <2>1, <2>3, <2>4
<1>f. ASSUME NEW g \in Operators, NEW d \in Accounts, NEW amount \in Nat,
             total_delegated_stake' =
               [total_delegated_stake EXCEPT ![g] =
                  total_delegated_stake[g] + Pending(g, d) + amount],
             total_delegated' = total_delegated + Pending(g, d) + amount
      PROVE  DelegatedCounted'
  <2>0. /\ Pending(g, d) \in Nat
        /\ del_amount[<<g, d>>] \in Nat
        /\ Principal(g, d) = del_amount[<<g, d>>] + Pending(g, d)
        /\ del_amount[<<g, d>>] <= total_delegated_stake[g]
        /\ total_delegated_stake[g] \in Nat
        /\ total_delegated_stake[g] <= total_delegated
        /\ total_delegated \in Nat
    BY <1>b, <1>d, Zenon
  <2>1. /\ total_delegated_stake[g] + Pending(g, d) + amount \in Nat
        /\ total_delegated' = total_delegated - total_delegated_stake[g]
                                + (total_delegated_stake[g] + Pending(g, d) + amount)
    BY <1>b, <2>0, <1>f
  <2>. QED BY <1>c, <1>f, <2>1
<1>g. ASSUME UNCHANGED <<total_delegated, total_delegated_stake>>
      PROVE  DelegatedCounted'
  BY <1>g DEF DelegatedCounted
<1>1. ASSUME NEW g \in Operators, NEW stake \in Amounts,
             NEW allow \in BOOLEAN, NEW min \in MinDelegations,
             JoinNetwork(g, stake, allow, min)
      PROVE  DelegatedCounted'
  <2>1. \A d \in Accounts : del_amount[<<g, d>>] = 0
    <3>1. ~Exists(g)
      BY <1>1 DEF JoinNetwork
    <3>2. \A d \in Accounts : <<g, d>> \in Pairs /\ <<g, d>>[1] = g
      BY PairIn
    <3>. QED BY <1>d, <3>1, <3>2 DEF DelegationInv, NoStrandedDelegation
  <2>2. total_delegated_stake[g] = 0
    <3>. DEFINE f == [d \in Accounts |-> del_amount[<<g, d>>]]
    <3>1. \A d \in Accounts : f[d] = 0
      BY <2>1
    <3>2. total_delegated_stake[g] = SumFunctionOnSet(f, Accounts)
      BY DEF DelegationInv, GatewayCounters, DelegatedTo, Total
    <3>. HIDE DEF f
    <3>. QED BY <3>1, <3>2, Finite, SumZero
  <2>3. total_delegated' = total_delegated - total_delegated_stake[g] + 0
    BY <1>1, <1>b, <2>2 DEF JoinNetwork
  <2>. QED BY <1>1, <1>c, <2>3 DEF JoinNetwork
<1>2. ASSUME NEW g \in Operators,
             \/ \E amount \in Amounts :
                  \/ IncreaseOperatorStake(g, amount)
                  \/ DecreaseOperatorStake(g, amount)
                  \/ DeductOperatorStakeForPayment(g, amount)
             \/ LeaveNetwork(g)
             \/ PruneGateway(g)
             \/ FinalizeGone(g)
             \/ \E allow \in BOOLEAN, min \in MinDelegations :
                  UpdateGatewaySettings(g, allow, min)
             \/ \E enabled \in AllowlistChoices : SetAllowlistEnabled(g, enabled)
      PROVE  DelegatedCounted'
  BY <1>2, <1>g DEF IncreaseOperatorStake, DecreaseOperatorStake, DeductOperatorStakeForPayment,
       LeaveNetwork, PruneGateway, FinalizeGone, UpdateGatewaySettings, SetAllowlistEnabled
<1>3. ASSUME NEW g \in Operators, NEW d \in Accounts, NEW amount \in Amounts,
             DelegateStake(d, g, amount)
      PROVE  DelegatedCounted'
  BY <1>3, <1>b, <1>f DEF DelegateStake
<1>4. ASSUME NEW g \in Operators, NEW d \in Accounts, NEW amount \in Nat,
             Principal(g, d) - amount \in Nat, DelegationToVault(g, d, amount)
      PROVE  DelegatedCounted'
  BY <1>4, <1>e DEF DelegationToVault
<1>5. ASSUME NEW g \in Operators, NEW d \in Accounts, NEW amount \in Amounts,
             DecreaseDelegateStake(d, g, amount)
      PROVE  DelegatedCounted'
  <2>0. /\ Pending(g, d) \in Nat
        /\ del_amount[<<g, d>>] \in Nat
        /\ Principal(g, d) = del_amount[<<g, d>>] + Pending(g, d)
        /\ del_amount[<<g, d>>] <= total_delegated_stake[g]
        /\ total_delegated_stake[g] \in Nat
        /\ total_delegated_stake[g] <= total_delegated
        /\ total_delegated \in Nat
    BY <1>b, <1>d, Zenon
  <2>1. amount \in Nat /\ Principal(g, d) - amount \in Nat
    BY <1>5, <1>b, <2>0 DEF DecreaseDelegateStake
  <2>. QED BY <1>4, <1>5, <2>1 DEF DecreaseDelegateStake
<1>6. ASSUME NEW g \in Operators, NEW d \in Accounts,
             \/ ClaimDelegateFromLeavingGateway(g, d)
             \/ ClaimDelegateFromDisabledGateway(g, d)
      PROVE  DelegatedCounted'
  <2>0. /\ Pending(g, d) \in Nat
        /\ del_amount[<<g, d>>] \in Nat
        /\ Principal(g, d) = del_amount[<<g, d>>] + Pending(g, d)
        /\ del_amount[<<g, d>>] <= total_delegated_stake[g]
        /\ total_delegated_stake[g] \in Nat
        /\ total_delegated_stake[g] <= total_delegated
        /\ total_delegated \in Nat
    BY <1>b, <1>d, Zenon
  <2>1. Principal(g, d) \in Nat /\ Principal(g, d) - Principal(g, d) \in Nat
    BY <2>0
  <2>. QED BY <1>4, <1>6, <2>1 DEF ClaimDelegateFromLeavingGateway, ClaimDelegateFromDisabledGateway
<1>7. ASSUME NEW g \in Operators, NEW d \in Accounts, NEW amount \in Amounts,
             DeductDelegationForPayment(d, g, amount)
      PROVE  DelegatedCounted'
  <2>0. /\ Pending(g, d) \in Nat
        /\ del_amount[<<g, d>>] \in Nat
        /\ Principal(g, d) = del_amount[<<g, d>>] + Pending(g, d)
        /\ del_amount[<<g, d>>] <= total_delegated_stake[g]
        /\ total_delegated_stake[g] \in Nat
        /\ total_delegated_stake[g] <= total_delegated
        /\ total_delegated \in Nat
    BY <1>b, <1>d, Zenon
  <2>1. /\ amount \in Nat /\ Principal(g, d) - amount \in Nat
        /\ total_delegated_stake[g] + Pending(g, d) >= amount
        /\ total_delegated_stake' = [total_delegated_stake EXCEPT ![g] = @ + Pending(g, d) - amount]
        /\ total_delegated' = SatSub(total_delegated + Pending(g, d), amount)
    BY <1>7, <1>b, <2>0 DEF DeductDelegationForPayment
  <2>2. SatSub(total_delegated_stake[g] + Pending(g, d), amount)
          = total_delegated_stake[g] + Pending(g, d) - amount
    BY <1>b, <2>0, <2>1 DEF SatSub
  <2>. QED BY <1>e, <2>1, <2>2
<1>8. ASSUME NEW g \in Operators, NEW d \in Accounts, NEW amount \in Amounts,
             NEW h \in Operators, RedelegateStake(d, g, h, amount)
      PROVE  DelegatedCounted'
  BY <1>8, <1>a, RedelegateCounted
<1>9. ASSUME NEW g \in Operators, NEW d \in Accounts, CompoundDelegationRewards(g, d)
      PROVE  DelegatedCounted'
  <2>0. /\ Pending(g, d) \in Nat
        /\ del_amount[<<g, d>>] \in Nat
        /\ Principal(g, d) = del_amount[<<g, d>>] + Pending(g, d)
        /\ del_amount[<<g, d>>] <= total_delegated_stake[g]
        /\ total_delegated_stake[g] \in Nat
        /\ total_delegated_stake[g] <= total_delegated
        /\ total_delegated \in Nat
    BY <1>b, <1>d, Zenon
  <2>1. /\ total_delegated_stake' = [total_delegated_stake EXCEPT ![g] = @ + Pending(g, d)]
        /\ total_delegated' = total_delegated + Pending(g, d)
    BY <1>9 DEF CompoundDelegationRewards
  <2>2. /\ total_delegated_stake[g] + Pending(g, d) + 0 = total_delegated_stake[g] + Pending(g, d)
        /\ total_delegated' = total_delegated + Pending(g, d) + 0
    BY <1>b, <2>0, <2>1
  <2>. QED BY <1>f, <2>1, <2>2
<1>10. ASSUME NEW g \in Operators, NEW d \in Accounts,
              \/ CloseEmptyDelegation(g, d)
              \/ AllowDelegate(g, d)
              \/ DisallowDelegate(g, d)
       PROVE  DelegatedCounted'
  BY <1>10, <1>g DEF CloseEmptyDelegation, AllowDelegate, DisallowDelegate
<1>11. ASSUME NEW v \in VaultIds, CancelDelegateWithdrawal(v)
       PROVE  DelegatedCounted'
  <2>. DEFINE g == vault[v].gateway
              d == v[1]
              amount == vault_amount[v]
  <2>1. amount \in Nat /\ g \in Operators /\ d \in Accounts
    BY <1>11 DEF TypeOK, VaultTypes, VaultRecord, VaultIds, CancelDelegateWithdrawal, Open
  <2>2. /\ total_delegated_stake' =
             [total_delegated_stake EXCEPT ![g] = @ + Pending(g, d) + amount]
        /\ total_delegated' = total_delegated + Pending(g, d) + amount
    BY <1>11 DEF CancelDelegateWithdrawal
  <2>. HIDE DEF g, d, amount
  <2>. QED BY <1>f, <2>1, <2>2
<1>12. ASSUME NEW v \in VaultIds,
              \/ ClaimWithdrawal(v)
              \/ InstantWithdrawal(v)
              \/ CloseDrainedWithdrawal(v)
              \/ CancelOperatorWithdrawal(v)
              \/ \E amount \in Amounts : DeductWithdrawalForPayment(v, amount)
       PROVE  DelegatedCounted'
  <2>1. UNCHANGED <<total_delegated, total_delegated_stake>>
    BY <1>12 DEF ClaimWithdrawal, InstantWithdrawal, CloseDrainedWithdrawal,
                 CancelOperatorWithdrawal, DeductWithdrawalForPayment
  <2>. QED BY <1>g, <2>1
<1>13. ASSUME NEW a \in Accounts, NEW p \in Plans, NEW slot \in PlanSlots(a, p),
              PayFromFundingPlan(a, p, slot)
       PROVE  DelegatedCounted'
  BY <1>13, <1>a, PlanCounted
<1>14. ASSUME \/ \E o \in [Operators -> Outcomes] : DistributeEpoch(o)
              \/ \E period \in Periods : AdminSetWithdrawalPeriod(period)
              \/ Tick
              \/ UNCHANGED vars
       PROVE  DelegatedCounted'
  BY <1>14, <1>g DEF DistributeEpoch, AdminSetWithdrawalPeriod, Tick, vars
<1>. QED
  BY <1>1, <1>2, <1>3, <1>5, <1>6, <1>7, <1>8, <1>9, <1>10, <1>11, <1>12, <1>13, <1>14
     DEF Next, OperatorNext, DelegatorNext, VaultNext, PlanNext

(* What a funding plan takes from the payer's vaults and puts into new ones. *)
LEMMA PlanVaultTotal ==
  ASSUME TypeOK, TypeOK', ClosedEmpty, NEW a \in Accounts, NEW p \in Plans,
         NEW slot \in PlanSlots(a, p), PayFromFundingPlan(a, p, slot)
  PROVE  /\ Total(vault_amount', VaultIds) = Total(vault_amount, VaultIds)
              - SumFunctionOnSet(p.vaults, 0 .. MaxVaults - 1)
              + SumFunctionOnSet([g \in Operators |-> PlanResidue(a, p, g)], Operators)
         /\ SumFunctionOnSet(p.vaults, 0 .. MaxVaults - 1) <= Total(vault_amount, VaultIds)
         /\ ClosedEmpty'
<1>. DEFINE Ids == 0 .. MaxVaults - 1
            R == PlanResidues(a, p)
            r == [g \in Operators |-> PlanResidue(a, p, g)]
            to == [g \in R |-> <<a, slot[g]>>]
            from == [i \in Ids |-> <<a, i>>]
            New(v) == \E g \in R : v = <<a, slot[g]>>
            Owner(v) == CHOOSE g \in R : v = <<a, slot[g]>>
            opened == [v \in VaultIds |-> IF New(v) THEN PlanResidue(a, p, Owner(v)) ELSE 0]
            drained == [v \in VaultIds |-> IF v[1] = a THEN p.vaults[v[2]] ELSE 0]
            mid == [v \in VaultIds |-> vault_amount[v] - drained[v]]
<1>1. PlanAllowed(a, p)
  BY DEF PayFromFundingPlan
<1>2. /\ p.vaults \in [Ids -> Nat]
      /\ \A g \in Operators : PlanResidue(a, p, g) \in Nat
  BY <1>1, PlanNat
<1>3. /\ R \subseteq Operators
      /\ \A g, h \in R : slot[g] = slot[h] => g = h
      /\ \A g \in Operators : g \notin R => PlanResidue(a, p, g) = 0
  <2>1. \A g \in Operators : ~(PlanResidue(a, p, g) > 0) => PlanResidue(a, p, g) = 0
    BY <1>2
  <2>. QED BY <2>1 DEF PlanSlots, PlanResidues
<1>4. /\ \A g \in R : <<a, slot[g]>> \in VaultIds /\ ~Open(<<a, slot[g]>>)
      /\ vault' = [v \in VaultIds |->
           IF New(v) THEN VaultOf(Owner(v), withdrawal_period, TRUE, FALSE) ELSE vault[v]]
      /\ vault_amount' = [v \in VaultIds |->
           IF New(v) THEN PlanResidue(a, p, Owner(v))
           ELSE IF v[1] = a THEN vault_amount[v] - p.vaults[v[2]]
           ELSE vault_amount[v]]
  BY DEF PayFromFundingPlan
<1>5. /\ vault_amount \in [VaultIds -> Nat]
      /\ \A v \in VaultIds : v[1] \in Accounts /\ v[2] \in Ids /\ v = <<v[1], v[2]>>
      /\ \A i \in Ids : <<a, i>> \in VaultIds
  BY DEF TypeOK, VaultTypes, VaultIds
<1>6. \A i \in Ids : p.vaults[i] > 0 => Open(<<a, i>>) /\ vault_amount[<<a, i>>] >= p.vaults[i]
  BY <1>1 DEF PlanAllowed, PlanVaults
<1>. HIDE DEF R, Ids
<1>7. \A v \in VaultIds : New(v) => Owner(v) \in R /\ v = <<a, slot[Owner(v)]>>
  OBVIOUS
<1>8. \A g \in R : New(<<a, slot[g]>>) /\ Owner(<<a, slot[g]>>) = g
  <2>. SUFFICES ASSUME NEW g \in R PROVE New(<<a, slot[g]>>) /\ Owner(<<a, slot[g]>>) = g
    OBVIOUS
  <2>1. New(<<a, slot[g]>>)
    OBVIOUS
  <2>2. Owner(<<a, slot[g]>>) \in R /\ <<a, slot[g]>> = <<a, slot[Owner(<<a, slot[g]>>)]>>
    BY <2>1
  <2>3. slot[g] = slot[Owner(<<a, slot[g]>>)]
    BY <2>2
  <2>. QED BY <1>3, <2>1, <2>2, <2>3
<1>. HIDE DEF New, Owner
<1>9. SumFunctionOnSet(opened, VaultIds) = SumFunctionOnSet(r, Operators)
  <2>. DEFINE s == [g \in R |-> PlanResidue(a, p, g)]
              id == [g \in R |-> g]
  <2>1. IsFiniteSet(R)
    BY <1>3, Finite, FS_Subset
  <2>2. SumFunctionOnSet(opened, VaultIds) = SumFunctionOnSet(s, R)
    <3>1. /\ to \in [R -> VaultIds]
          /\ \A x, y \in R : to[x] = to[y] => x = y
      BY <1>3, <1>4
    <3>2. \A x \in R : s[x] \in Int /\ opened[to[x]] = s[x]
      BY <1>2, <1>3, <1>4, <1>8
    <3>3. \A v \in VaultIds : (\A x \in R : v # to[x]) => opened[v] = 0
      BY <1>7
    <3>. HIDE DEF to, s, opened
    <3>. QED BY <2>1, <3>1, <3>2, <3>3, Finite, SumInject
  <2>3. SumFunctionOnSet(r, Operators) = SumFunctionOnSet(s, R)
    <3>1. /\ id \in [R -> Operators]
          /\ \A x, y \in R : id[x] = id[y] => x = y
      BY <1>3
    <3>2. \A x \in R : s[x] \in Int /\ r[id[x]] = s[x]
      BY <1>2, <1>3
    <3>3. \A g \in Operators : (\A x \in R : g # id[x]) => r[g] = 0
      BY <1>3
    <3>. HIDE DEF id, s, r
    <3>. QED BY <2>1, <3>1, <3>2, <3>3, Finite, SumInject
  <2>. QED BY <2>2, <2>3
<1>10. SumFunctionOnSet(drained, VaultIds) = SumFunctionOnSet(p.vaults, Ids)
  <2>1. /\ from \in [Ids -> VaultIds]
        /\ \A x, y \in Ids : from[x] = from[y] => x = y
    BY <1>5
  <2>2. \A x \in Ids : p.vaults[x] \in Int /\ drained[from[x]] = p.vaults[x]
    BY <1>2, <1>5
  <2>3. \A v \in VaultIds : (\A x \in Ids : v # from[x]) => drained[v] = 0
    BY <1>5
  <2>4. IsFiniteSet(Ids)
    BY Finite DEF Ids
  <2>. DEFINE pv == p.vaults
  <2>. HIDE DEF from, drained
  <2>5. \A x \in Ids : pv[x] \in Int /\ drained[from[x]] = pv[x]
    BY <2>2
  <2>. HIDE DEF pv
  <2>6. SumFunctionOnSet(drained, VaultIds) = SumFunctionOnSet(pv, Ids)
    BY <2>1, <2>3, <2>4, <2>5, Finite, SumInject
  <2>. QED BY <2>6 DEF pv
<1>11. /\ \A v \in VaultIds : /\ drained[v] \in Nat /\ drained[v] <= vault_amount[v]
                              /\ vault_amount[v] \in Nat
       /\ \A v \in VaultIds : New(v) => drained[v] = 0 /\ vault_amount[v] = 0
  <2>1. ASSUME NEW v \in VaultIds
        PROVE  drained[v] \in Nat /\ drained[v] <= vault_amount[v] /\ vault_amount[v] \in Nat
    <3>1. CASE v[1] = a
      <4>1. drained[v] = p.vaults[v[2]] /\ v = <<a, v[2]>> /\ v[2] \in Ids
        BY <1>5, <3>1
      <4>2. p.vaults[v[2]] \in Nat /\ vault_amount[v] \in Nat
        BY <1>2, <1>5, <4>1
      <4>. QED BY <1>6, <4>1, <4>2
    <3>2. CASE v[1] # a
      BY <1>5, <3>2
    <3>. QED BY <3>1, <3>2
  <2>2. ASSUME NEW v \in VaultIds, New(v)
        PROVE  drained[v] = 0 /\ vault_amount[v] = 0
    <3>1. ~Open(v)
      BY <1>4, <1>7, <2>2
    <3>2. vault_amount[v] = 0
      BY <3>1 DEF ClosedEmpty
    <3>. QED BY <2>1, <3>2
  <2>. QED BY <2>1, <2>2
<1>12. \A v \in VaultIds : /\ mid[v] \in Int /\ opened[v] \in Int
                           /\ mid[v] = vault_amount[v] + (-1) * drained[v]
                           /\ vault_amount'[v] = mid[v] + 1 * opened[v]
  <2>. SUFFICES ASSUME NEW v \in VaultIds
                PROVE  /\ mid[v] \in Int /\ opened[v] \in Int
                       /\ mid[v] = vault_amount[v] + (-1) * drained[v]
                       /\ vault_amount'[v] = mid[v] + 1 * opened[v]
    BY Zenon
  <2>1. drained[v] \in Nat /\ vault_amount[v] \in Nat
    BY <1>11
  <2>2. mid[v] \in Int /\ mid[v] = vault_amount[v] - drained[v]
    BY <2>1
  <2>3. CASE New(v)
    <3>1. opened[v] = PlanResidue(a, p, Owner(v)) /\ opened[v] \in Nat
      BY <1>2, <1>3, <1>7, <2>3
    <3>2. drained[v] = 0 /\ vault_amount[v] = 0
      BY <1>11, <2>3
    <3>3. vault_amount'[v] = PlanResidue(a, p, Owner(v))
      BY <1>4, <2>3
    <3>. HIDE DEF opened, mid, drained
    <3>. QED BY <2>1, <2>2, <3>1, <3>2, <3>3
  <2>4. CASE ~New(v)
    <3>1. opened[v] = 0
      BY <2>4
    <3>2. vault_amount'[v] = IF v[1] = a THEN vault_amount[v] - p.vaults[v[2]] ELSE vault_amount[v]
      BY <1>4, <2>4
    <3>3. drained[v] = IF v[1] = a THEN p.vaults[v[2]] ELSE 0
      OBVIOUS
    <3>. HIDE DEF opened, mid, drained
    <3>. QED BY <2>1, <2>2, <3>1, <3>2, <3>3
  <2>. QED BY <2>3, <2>4
<1>13. ClosedEmpty'
  <2>. SUFFICES ASSUME NEW v \in VaultIds, vault'[v] = NoVault PROVE vault_amount'[v] = 0
    BY DEF ClosedEmpty, Open
  <2>1. ~New(v)
    <3>. SUFFICES ASSUME New(v) PROVE FALSE
      OBVIOUS
    <3>1. vault'[v] = VaultOf(Owner(v), withdrawal_period, TRUE, FALSE)
      BY <1>4
    <3>2. Owner(v) \in Operators /\ withdrawal_period \in Nat
      BY <1>3, <1>7, PeriodAssumption DEF TypeOK, ClockTypes
    <3>. QED BY <3>1, <3>2, VaultOfType, SetAssumption
  <2>2. ~Open(v)
    BY <1>4, <2>1 DEF Open
  <2>3. vault_amount[v] = 0 /\ opened[v] = 0
    BY <2>1, <2>2 DEF ClosedEmpty
  <2>4. drained[v] = 0
    BY <1>11, <2>3
  <2>. HIDE DEF opened, mid, drained
  <2>. QED BY <1>12, <2>3, <2>4
<1>. HIDE DEF opened, mid, drained, r
<1>14. SumFunctionOnSet(mid, VaultIds)
         = SumFunctionOnSet(vault_amount, VaultIds) + (-1) * SumFunctionOnSet(drained, VaultIds)
  <2>1. \A v \in VaultIds : /\ vault_amount[v] \in Int /\ drained[v] \in Int
                            /\ mid[v] = vault_amount[v] + (-1) * drained[v]
    BY <1>11, <1>12
  <2>. QED BY <2>1, Finite, SumLinear
<1>15. SumFunctionOnSet(vault_amount', VaultIds)
         = SumFunctionOnSet(mid, VaultIds) + 1 * SumFunctionOnSet(opened, VaultIds)
  BY <1>12, Finite, SumLinear
<1>16. SumFunctionOnSet(drained, VaultIds) <= SumFunctionOnSet(vault_amount, VaultIds)
  <2>1. \A v \in VaultIds : drained[v] \in Int /\ vault_amount[v] \in Int /\ drained[v] <= vault_amount[v]
    BY <1>11
  <2>. QED BY <2>1, Finite, SumMono
<1>17. /\ SumFunctionOnSet(vault_amount, VaultIds) \in Nat
       /\ SumFunctionOnSet(p.vaults, Ids) \in Nat
       /\ SumFunctionOnSet(r, Operators) \in Nat
  BY <1>1, TotalsNat, PlanSums DEF Total, Ids, r
<1>18. SumFunctionOnSet(vault_amount', VaultIds) = SumFunctionOnSet(vault_amount, VaultIds)
         - SumFunctionOnSet(p.vaults, Ids) + SumFunctionOnSet(r, Operators)
  BY <1>9, <1>10, <1>14, <1>15, <1>17
<1>19. SumFunctionOnSet(p.vaults, Ids) <= SumFunctionOnSet(vault_amount, VaultIds)
  BY <1>10, <1>16
<1>. QED BY <1>13, <1>18, <1>19 DEF Total, Ids, r

(* Every step keeps the counter of what is being withdrawn, and leaves *)
(* closed vaults empty.                                                *)
LEMMA WithdrawnStep ==
  /\ TypeOK /\ WithdrawnCounted /\ ClosedEmpty /\ [Next]_vars
  => WithdrawnCounted' /\ ClosedEmpty'
<1>. SUFFICES ASSUME TypeOK, WithdrawnCounted, ClosedEmpty, [Next]_vars
              PROVE  WithdrawnCounted' /\ ClosedEmpty'
  OBVIOUS
<1>. USE DEF clockVars, tokenVars, counterVars, stakeVars, gatewayVars,
             delegationVars, vaultVars, otherVars
<1>a. TypeOK'
  BY TypeStep
<1>b. /\ total_withdrawn \in Nat
      /\ vault_amount \in [VaultIds -> Nat]
      /\ \A amount \in Amounts : amount \in Nat
      /\ \A g \in Operators : operator_stake[g] \in Nat /\ g \in Accounts
      /\ MinOperatorStake \in Nat
      /\ Total(vault_amount, VaultIds) = total_withdrawn
  BY InputAssumption, LimitAssumption, SetAssumption
     DEF TypeOK, CounterTypes, VaultTypes, StakeTypes, WithdrawnCounted
<1>c. ASSUME UNCHANGED <<total_withdrawn, vault, vault_amount>>
      PROVE  WithdrawnCounted' /\ ClosedEmpty'
  BY <1>c DEF WithdrawnCounted, ClosedEmpty, Open
<1>d. ASSUME NEW o \in Accounts, NEW g \in Operators, NEW amount \in Nat,
             NEW isDelegate \in BOOLEAN, OpenVault(o, g, amount, isDelegate),
             total_withdrawn' = total_withdrawn + amount
      PROVE  WithdrawnCounted' /\ ClosedEmpty'
  BY <1>b, <1>d, OpenVaultTotal DEF WithdrawnCounted
<1>e. ASSUME NEW v \in VaultIds, CloseVault(v),
             total_withdrawn' = SatSub(total_withdrawn, vault_amount[v])
      PROVE  WithdrawnCounted' /\ ClosedEmpty'
  <2>1. /\ Total(vault_amount', VaultIds) = Total(vault_amount, VaultIds) - vault_amount[v]
        /\ vault_amount[v] \in Nat /\ vault_amount[v] <= Total(vault_amount, VaultIds)
        /\ ClosedEmpty'
    BY <1>e, CloseVaultTotal
  <2>. QED BY <1>b, <1>e, <2>1 DEF WithdrawnCounted, SatSub
<1>1. ASSUME NEW g \in Operators, NEW amount \in Amounts, DecreaseOperatorStake(g, amount)
      PROVE  WithdrawnCounted' /\ ClosedEmpty'
  BY <1>b, <1>d, <1>1 DEF DecreaseOperatorStake
<1>2. ASSUME NEW g \in Operators, LeaveNetwork(g) \/ PruneGateway(g)
      PROVE  WithdrawnCounted' /\ ClosedEmpty'
  <2>1. PICK amount \in Nat : /\ OpenExitVaults(g, amount)
                              /\ total_withdrawn' = total_withdrawn + amount
    <3>1. CASE LeaveNetwork(g)
      BY <1>b, <3>1 DEF LeaveNetwork
    <3>2. CASE PruneGateway(g)
      <4>. DEFINE slash == MinOf(MinOperatorStake, operator_stake[g])
      <4>1. slash \in Nat
        BY <1>b DEF MinOf
      <4>2. SatSub(operator_stake[g], slash) \in Nat
        BY <1>b, <4>1, SatSubNat
      <4>. QED BY <3>2, <4>2 DEF PruneGateway
    <3>. QED BY <1>2, <3>1, <3>2
  <2>2. Total(vault_amount', VaultIds) = Total(vault_amount, VaultIds) + amount /\ ClosedEmpty'
    BY <2>1, ExitVaultsTotal
  <2>. QED BY <1>b, <2>1, <2>2 DEF WithdrawnCounted
<1>3. ASSUME NEW g \in Operators,
             \/ \E stake \in Amounts, allow \in BOOLEAN, min \in MinDelegations :
                  JoinNetwork(g, stake, allow, min)
             \/ \E amount \in Amounts :
                  \/ IncreaseOperatorStake(g, amount)
                  \/ DeductOperatorStakeForPayment(g, amount)
             \/ FinalizeGone(g)
             \/ \E allow \in BOOLEAN, min \in MinDelegations :
                  UpdateGatewaySettings(g, allow, min)
             \/ \E enabled \in AllowlistChoices : SetAllowlistEnabled(g, enabled)
      PROVE  WithdrawnCounted' /\ ClosedEmpty'
  <2>1. UNCHANGED <<total_withdrawn, vault, vault_amount>>
    BY <1>3 DEF JoinNetwork, IncreaseOperatorStake, DeductOperatorStakeForPayment,
                FinalizeGone, UpdateGatewaySettings, SetAllowlistEnabled
  <2>. QED BY <1>c, <2>1
<1>4. ASSUME NEW g \in Operators, NEW d \in Accounts, NEW amount \in Nat,
             DelegationToVault(g, d, amount)
      PROVE  WithdrawnCounted' /\ ClosedEmpty'
  BY <1>d, <1>4 DEF DelegationToVault
<1>5. ASSUME NEW g \in Operators, NEW d \in Accounts,
             \/ \E amount \in Amounts : DecreaseDelegateStake(d, g, amount)
             \/ ClaimDelegateFromLeavingGateway(g, d)
             \/ ClaimDelegateFromDisabledGateway(g, d)
      PROVE  WithdrawnCounted' /\ ClosedEmpty'
  <2>1. Principal(g, d) \in Nat
    BY PendingNat
  <2>2. PICK amount \in Nat : DelegationToVault(g, d, amount)
    BY <1>b, <1>5, <2>1 DEF DecreaseDelegateStake, ClaimDelegateFromLeavingGateway,
                            ClaimDelegateFromDisabledGateway
  <2>. QED BY <1>4, <2>2
<1>6. ASSUME NEW g \in Operators, NEW d \in Accounts,
             \/ \E amount \in Amounts :
                  \/ DelegateStake(d, g, amount)
                  \/ DeductDelegationForPayment(d, g, amount)
                  \/ \E h \in Operators : RedelegateStake(d, g, h, amount)
             \/ CloseEmptyDelegation(g, d)
             \/ CompoundDelegationRewards(g, d)
             \/ AllowDelegate(g, d)
             \/ DisallowDelegate(g, d)
      PROVE  WithdrawnCounted' /\ ClosedEmpty'
  <2>1. UNCHANGED <<total_withdrawn, vault, vault_amount>>
    BY <1>6 DEF DelegateStake, DeductDelegationForPayment, RedelegateStake,
                CloseEmptyDelegation, CompoundDelegationRewards, AllowDelegate, DisallowDelegate
  <2>. QED BY <1>c, <2>1
<1>7. ASSUME NEW v \in VaultIds,
             \/ ClaimWithdrawal(v)
             \/ InstantWithdrawal(v)
             \/ CancelOperatorWithdrawal(v)
             \/ CancelDelegateWithdrawal(v)
      PROVE  WithdrawnCounted' /\ ClosedEmpty'
  <2>1. CloseVault(v) /\ total_withdrawn' = SatSub(total_withdrawn, vault_amount[v])
    BY <1>7 DEF ClaimWithdrawal, InstantWithdrawal, CancelOperatorWithdrawal,
                CancelDelegateWithdrawal
  <2>. QED BY <1>e, <2>1
<1>8. ASSUME NEW v \in VaultIds, CloseDrainedWithdrawal(v)
      PROVE  WithdrawnCounted' /\ ClosedEmpty'
  <2>1. CloseVault(v) /\ vault_amount[v] = 0 /\ total_withdrawn' = total_withdrawn
    BY <1>8 DEF CloseDrainedWithdrawal
  <2>2. total_withdrawn' = SatSub(total_withdrawn, vault_amount[v])
    BY <1>b, <2>1 DEF SatSub
  <2>. QED BY <1>e, <2>1, <2>2
<1>9. ASSUME NEW v \in VaultIds, NEW amount \in Amounts, DeductWithdrawalForPayment(v, amount)
      PROVE  WithdrawnCounted' /\ ClosedEmpty'
  <2>1. /\ Open(v) /\ vault_amount[v] >= amount /\ UNCHANGED vault
        /\ vault_amount' = [vault_amount EXCEPT ![v] = @ - amount]
        /\ total_withdrawn' = SatSub(total_withdrawn, amount)
    BY <1>9 DEF DeductWithdrawalForPayment
  <2>2. /\ \A w \in VaultIds \ {v} : vault_amount'[w] = vault_amount[w]
        /\ vault_amount'[v] = vault_amount[v] - amount
    BY <1>b, <2>1
  <2>3. Total(vault_amount', VaultIds)
          = Total(vault_amount, VaultIds) - vault_amount[v] + vault_amount'[v]
    BY <1>a, <2>2, VaultAt
  <2>4. amount \in Nat /\ vault_amount[v] \in Nat /\ vault_amount[v] <= total_withdrawn
    BY <1>b, TotalsNat
  <2>5. WithdrawnCounted'
    BY <1>b, <2>1, <2>2, <2>3, <2>4 DEF WithdrawnCounted, SatSub
  <2>6. ClosedEmpty'
    BY <2>1, <2>2 DEF ClosedEmpty, Open
  <2>. QED BY <2>5, <2>6
<1>10. ASSUME NEW a \in Accounts, NEW p \in Plans, NEW slot \in PlanSlots(a, p),
              PayFromFundingPlan(a, p, slot)
       PROVE  WithdrawnCounted' /\ ClosedEmpty'
  <2>. DEFINE D == SumFunctionOnSet(p.vaults, 0 .. MaxVaults - 1)
              R == SumFunctionOnSet([g \in Operators |-> PlanResidue(a, p, g)], Operators)
  <2>1. PlanAllowed(a, p) /\ total_withdrawn' = SatSub(total_withdrawn, D) + R
    BY <1>10 DEF PayFromFundingPlan
  <2>2. D \in Nat /\ R \in Nat
    BY <2>1, PlanSums
  <2>3. /\ Total(vault_amount', VaultIds) = Total(vault_amount, VaultIds) - D + R
        /\ D <= Total(vault_amount, VaultIds)
        /\ ClosedEmpty'
    BY <1>10, <1>a, PlanVaultTotal
  <2>. HIDE DEF D, R
  <2>. QED BY <1>b, <2>1, <2>2, <2>3 DEF WithdrawnCounted, SatSub
<1>11. ASSUME \/ \E o \in [Operators -> Outcomes] : DistributeEpoch(o)
              \/ \E period \in Periods : AdminSetWithdrawalPeriod(period)
              \/ Tick
              \/ UNCHANGED vars
       PROVE  WithdrawnCounted' /\ ClosedEmpty'
  <2>1. UNCHANGED <<total_withdrawn, vault, vault_amount>>
    BY <1>11 DEF DistributeEpoch, AdminSetWithdrawalPeriod, Tick, vars
  <2>. QED BY <1>c, <2>1
<1>. QED
  BY <1>1, <1>2, <1>3, <1>5, <1>6, <1>7, <1>8, <1>9, <1>10, <1>11
     DEF Next, OperatorNext, DelegatorNext, VaultNext, PlanNext

(* The supply counters' inductive invariant holds. *)
LEMMA SupplyHolds == Spec => []SupplyInv
<1>1. Init => SupplyInv
  <2>. SUFFICES ASSUME Init PROVE SupplyInv
    OBVIOUS
  <2>1. /\ \A g \in Operators : operator_stake[g] = 0 /\ total_delegated_stake[g] = 0
        /\ \A v \in VaultIds : vault_amount[v] = 0
        /\ total_staked = 0 /\ total_delegated = 0 /\ total_withdrawn = 0
    BY DEF Init
  <2>2. /\ Total(operator_stake, Operators) = 0
        /\ Total(total_delegated_stake, Operators) = 0
        /\ Total(vault_amount, VaultIds) = 0
    BY <2>1, Finite, SumZero DEF Total
  <2>. QED BY <2>1, <2>2 DEF SupplyInv, SupplyCounters, ClosedEmpty
<1>2. TypeOK /\ StakeFloor /\ DelegationInv /\ SupplyInv /\ [Next]_vars => SupplyInv'
  BY StakedStep, DelegatedStep, WithdrawnStep
     DEF SupplyInv, SupplyCounters, StakedCounted, DelegatedCounted, WithdrawnCounted
<1>. QED BY <1>1, <1>2, TypeCorrect, StakeFloorHolds, DelegationHolds, PTL DEF Spec

(***************************************************************************)
(* Invariant 2 of INVARIANTS.md: the supply counters of GatewaySettings,   *)
(* which every handler updates by hand, equal the sums of the accounts     *)
(* they stand for.  No saturating_sub on them ever saturates.              *)
(***************************************************************************)
THEOREM SupplyCountersHold == Spec => []SupplyCounters
BY SupplyHolds, PTL DEF SupplyInv

-----------------------------------------------------------------------------
(***************************************************************************)
(* The stake pool.  The rewards due are not inductive as they stand,       *)
(* because each is rounded down on its own: two distributions may owe more *)
(* together than one by one.  What is owed before rounding is: it grows    *)
(* only with what a distribution pays in and shrinks with what is settled. *)
(***************************************************************************)
(* The pool's tokens that are nobody's stake and in nobody's vault. *)
Free == stake_pool - total_staked - total_delegated - total_withdrawn

(* They back all that is owed. *)
PoolBacked == RewardPrecision * Free >= AllOwed

(* What is owed is a natural number, and at least the reward due. *)
LEMMA OwedNat ==
  ASSUME TypeOK, NEW g \in Operators, NEW d \in Accounts
  PROVE  /\ Owed(g, d) \in Nat
         /\ RewardPrecision * Pending(g, d) \in Nat
         /\ RewardPrecision * Pending(g, d) <= Owed(g, d)
<1>. DEFINE n == del_amount[<<g, d>>]
            delta == cumulative_reward[g] - reward_debt[<<g, d>>]
<1>1. /\ n \in Nat /\ cumulative_reward[g] \in Nat /\ reward_debt[<<g, d>>] \in Nat
      /\ RewardPrecision \in Nat \ {0}
  BY PairIn, ScaleAssumption DEF TypeOK, DelegationTypes, StakeTypes
<1>2. CASE cumulative_reward[g] > reward_debt[<<g, d>>]
  <2>1. delta \in Nat
    BY <1>1, <1>2
  <2>2. n * delta \in Nat
    <3>1. \A x, y \in Nat : x * y \in Nat
      OBVIOUS
    <3>. QED BY <1>1, <2>1, <3>1
  <2>3. Owed(g, d) = n * delta
    BY <1>2 DEF Owed, OwedOf
  <2>4. Pending(g, d) = IF n > 0 THEN (n * delta) \div RewardPrecision ELSE 0
    BY <1>2 DEF Pending
  <2>. HIDE DEF n, delta
  <2>5. /\ (n * delta) \div RewardPrecision \in Nat
        /\ RewardPrecision * ((n * delta) \div RewardPrecision) <= n * delta
    BY <1>1, <2>2, DivNat
  <2>6. RewardPrecision * ((n * delta) \div RewardPrecision) \in Nat /\ RewardPrecision * 0 = 0
    BY <1>1, <2>5
  <2>. QED BY <2>2, <2>3, <2>4, <2>5, <2>6
<1>3. CASE ~(cumulative_reward[g] > reward_debt[<<g, d>>])
  <2>1. Owed(g, d) = 0 /\ Pending(g, d) = 0
    BY <1>3 DEF Owed, OwedOf, Pending
  <2>2. RewardPrecision * 0 = 0
    BY <1>1
  <2>. QED BY <2>1, <2>2
<1>. QED BY <1>2, <1>3

(* The same as one formula, to be used of the next state too. *)
OwedOK == \A g \in Operators, d \in Accounts : Owed(g, d) \in Nat

(* What is owed is a natural number before and after a step. *)
LEMMA OwedNext == TypeOK' => \A g \in Operators, d \in Accounts : Owed(g, d)' \in Nat
<1>1. TypeOK => OwedOK
  BY OwedNat DEF OwedOK
<1>2. TypeOK' => OwedOK'
  BY <1>1, PTL
<1>. QED BY <1>2 DEF OwedOK

(* So are the sums. *)
LEMMA OwedByNat ==
  ASSUME TypeOK, NEW g \in Operators
  PROVE  OwedBy(g) \in Nat
<1>. DEFINE f == [d \in Accounts |-> Owed(g, d)]
<1>1. \A d \in Accounts : f[d] \in Nat
  BY OwedNat
<1>2. OwedBy(g) = SumFunctionOnSet(f, Accounts)
  BY DEF OwedBy, Total
<1>. HIDE DEF f
<1>. QED BY <1>1, <1>2, Finite, SumNat

(* The gateways' sums add up to a natural number. *)
LEMMA AllOwedNat ==
  ASSUME TypeOK
  PROVE  AllOwed \in Nat
<1>. DEFINE f == [g \in Operators |-> OwedBy(g)]
<1>1. \A g \in Operators : f[g] \in Nat
  BY OwedByNat
<1>2. AllOwed = SumFunctionOnSet(f, Operators)
  BY DEF AllOwed, Total
<1>. HIDE DEF f
<1>. QED BY <1>1, <1>2, Finite, SumNat

(* What is owed covers the rewards due to all delegations. *)
LEMMA PendingOwed ==
  ASSUME TypeOK
  PROVE  AllPending \in Nat /\ RewardPrecision * AllPending <= AllOwed
<1>0. RewardPrecision \in Int
  BY ScaleAssumption
<1>1. ASSUME NEW g \in Operators
      PROVE  PendingOf(g) \in Nat /\ RewardPrecision * PendingOf(g) <= OwedBy(g)
  <2>. DEFINE f == [d \in Accounts |-> Pending(g, d)]
              s == [d \in Accounts |-> RewardPrecision * Pending(g, d)]
              o == [d \in Accounts |-> Owed(g, d)]
  <2>1. \A d \in Accounts : f[d] \in Nat /\ f[d] \in Int
    <3>1. \A d \in Accounts : Pending(g, d) \in Nat
      BY PendingNat
    <3>. QED BY <3>1
  <2>2. \A d \in Accounts : f[d] \in Int /\ s[d] = RewardPrecision * f[d]
    BY <2>1
  <2>3. \A d \in Accounts : s[d] \in Int /\ o[d] \in Int /\ s[d] <= o[d]
    BY OwedNat
  <2>4. PendingOf(g) = SumFunctionOnSet(f, Accounts) /\ OwedBy(g) = SumFunctionOnSet(o, Accounts)
    BY DEF PendingOf, OwedBy, Total
  <2>. HIDE DEF f, s, o
  <2>5. SumFunctionOnSet(f, Accounts) \in Nat
    BY <2>1, Finite, SumNat
  <2>6. SumFunctionOnSet(s, Accounts) = RewardPrecision * SumFunctionOnSet(f, Accounts)
    BY <1>0, <2>2, Finite, SumScale
  <2>7. SumFunctionOnSet(s, Accounts) <= SumFunctionOnSet(o, Accounts)
    BY <2>3, Finite, SumMono
  <2>. QED BY <2>4, <2>5, <2>6, <2>7
<1>. DEFINE f == [g \in Operators |-> PendingOf(g)]
            s == [g \in Operators |-> RewardPrecision * PendingOf(g)]
            o == [g \in Operators |-> OwedBy(g)]
<1>2. \A g \in Operators : f[g] \in Nat /\ f[g] \in Int /\ s[g] = RewardPrecision * f[g]
  BY <1>1
<1>3. \A g \in Operators : s[g] \in Int /\ o[g] \in Int /\ s[g] <= o[g]
  <2>. SUFFICES ASSUME NEW g \in Operators PROVE s[g] \in Int /\ o[g] \in Int /\ s[g] <= o[g]
    OBVIOUS
  <2>1. PendingOf(g) \in Nat /\ RewardPrecision * PendingOf(g) <= OwedBy(g) /\ OwedBy(g) \in Nat
    BY <1>1, OwedByNat
  <2>2. RewardPrecision * PendingOf(g) \in Int
    BY <1>0, <2>1
  <2>. QED BY <2>1, <2>2
<1>4. AllPending = SumFunctionOnSet(f, Operators) /\ AllOwed = SumFunctionOnSet(o, Operators)
  BY DEF AllPending, AllOwed, Total
<1>. HIDE DEF f, s, o
<1>5. SumFunctionOnSet(f, Operators) \in Nat
  BY <1>2, Finite, SumNat
<1>6. SumFunctionOnSet(s, Operators) = RewardPrecision * SumFunctionOnSet(f, Operators)
  BY <1>0, <1>2, Finite, SumScale
<1>7. SumFunctionOnSet(s, Operators) <= SumFunctionOnSet(o, Operators)
  BY <1>3, Finite, SumMono
<1>. QED BY <1>4, <1>5, <1>6, <1>7

(* A step that changes no single debt changes none of the sums. *)
LEMMA OwedSame ==
  ASSUME \A g \in Operators, d \in Accounts : Owed(g, d)' = Owed(g, d)
  PROVE  AllOwed' = AllOwed
<1>1. \A g \in Operators : OwedBy(g)' = OwedBy(g)
  BY DEF OwedBy, Total
<1>. QED BY <1>1 DEF AllOwed, Total

(* A step that settles delegations of one account. *)
LEMMA OwedSettled ==
  ASSUME TypeOK, TypeOK', NEW a \in Accounts, NEW s, \A g \in Operators : s[g] \in Nat,
         \A g \in Operators, d \in Accounts \ {a} : Owed(g, d)' = Owed(g, d),
         \A g \in Operators : Owed(g, a)' + RewardPrecision * s[g] <= Owed(g, a)
  PROVE  AllOwed' + RewardPrecision * SumFunctionOnSet(s, Operators) <= AllOwed
<1>0. RewardPrecision \in Int
  BY ScaleAssumption
<1>1. ASSUME NEW g \in Operators
      PROVE  /\ OwedBy(g) \in Int /\ OwedBy(g)' \in Int /\ RewardPrecision * s[g] \in Int
             /\ OwedBy(g)' + RewardPrecision * s[g] <= OwedBy(g)
  <2>. DEFINE f == [d \in Accounts |-> Owed(g, d)]
              h == [d \in Accounts |-> Owed(g, d)']
  <2>1. \A d \in Accounts : Owed(g, d) \in Nat
    BY OwedNat
  <2>2. \A d \in Accounts : Owed(g, d)' \in Nat
    BY OwedNext
  <2>3. /\ \A d \in Accounts : f[d] \in Int /\ h[d] \in Int
        /\ \A d \in Accounts \ {a} : h[d] = f[d]
        /\ f[a] = Owed(g, a) /\ h[a] = Owed(g, a)'
    BY <2>1, <2>2
  <2>4. OwedBy(g) = SumFunctionOnSet(f, Accounts) /\ OwedBy(g)' = SumFunctionOnSet(h, Accounts)
    BY DEF OwedBy, Total
  <2>5. s[g] \in Nat
    OBVIOUS
  <2>6. RewardPrecision * s[g] \in Int
    BY <1>0, <2>5
  <2>. HIDE DEF f, h
  <2>7. SumFunctionOnSet(h, Accounts) = SumFunctionOnSet(f, Accounts) - f[a] + h[a]
    BY <2>3, Finite, SumUpdate
  <2>8. SumFunctionOnSet(f, Accounts) \in Int
    BY <2>3, Finite, SumInt
  <2>9. f[a] \in Int /\ h[a] \in Int /\ h[a] + RewardPrecision * s[g] <= f[a]
    BY <2>3
  <2>. QED BY <2>4, <2>6, <2>7, <2>8, <2>9
<1>. DEFINE f == [g \in Operators |-> OwedBy(g)]
            h == [g \in Operators |-> OwedBy(g)']
            t == [g \in Operators |-> RewardPrecision * s[g]]
            u == [g \in Operators |-> h[g] + t[g]]
<1>2. \A g \in Operators : /\ f[g] \in Int /\ h[g] \in Int /\ t[g] \in Int
                           /\ u[g] = h[g] + t[g] /\ u[g] \in Int /\ u[g] <= f[g]
                           /\ s[g] \in Int /\ t[g] = RewardPrecision * s[g]
  BY <1>1
<1>3. AllOwed = SumFunctionOnSet(f, Operators) /\ AllOwed' = SumFunctionOnSet(h, Operators)
  BY DEF AllOwed, Total
<1>. HIDE DEF f, h, t, u
<1>4. SumFunctionOnSet(u, Operators) = SumFunctionOnSet(h, Operators) + SumFunctionOnSet(t, Operators)
  BY <1>2, Finite, SumAdd
<1>5. SumFunctionOnSet(t, Operators) = RewardPrecision * SumFunctionOnSet(s, Operators)
  BY <1>0, <1>2, Finite, SumScale
<1>6. SumFunctionOnSet(u, Operators) <= SumFunctionOnSet(f, Operators)
  BY <1>2, Finite, SumMono
<1>. QED BY <1>3, <1>4, <1>5, <1>6

(* The part of a gateway's reward that reaches its accumulator. *)
Kept(o, g) == IF total_delegated_stake[g] = 0 THEN 0 ELSE DelegatePool(o, g)

(* The parts of a batch, rounded down each, stay within the transfer. *)
LEMMA BatchCovered ==
  ASSUME TypeOK, NEW o \in [Operators -> Outcomes]
  PROVE  /\ SumFunctionOnSet([g \in Operators |-> Kept(o, g)], Operators) \in Nat
         /\ SumFunctionOnSet([g \in Operators |-> OperatorReward(o, g)], Operators)
              + SumFunctionOnSet([g \in Operators |-> Orphaned(o, g)], Operators)
              + SumFunctionOnSet([g \in Operators |-> Kept(o, g)], Operators)
              <= Transferred(o)
         /\ SumFunctionOnSet([g \in Operators |-> OperatorReward(o, g)], Operators)
              + SumFunctionOnSet([g \in Operators |-> Orphaned(o, g)], Operators)
              + SumFunctionOnSet([g \in Operators |-> Kept(o, g)], Operators)
              = SumFunctionOnSet([g \in Operators |-> Scaled(o, g)], Operators)
<1>. DEFINE e == [g \in Operators |-> OperatorReward(o, g)]
            n == [g \in Operators |-> Orphaned(o, g)]
            k == [g \in Operators |-> Kept(o, g)]
            r == [g \in Operators |-> o[g].reward]
            s == [g \in Operators |-> Scaled(o, g)]
            B == BatchTotal(o)
            T == Transferred(o)
            bs == [g \in Operators |-> B * Scaled(o, g)]
            rt == [g \in Operators |-> T * o[g].reward]
            en == [g \in Operators |-> e[g] + n[g]]
<1>1. /\ B \in Nat /\ T \in Nat /\ T <= B /\ B = SumFunctionOnSet(r, Operators)
  BY BatchNat DEF BatchTotal
<1>2. ASSUME NEW g \in Operators
      PROVE  /\ e[g] \in Nat /\ n[g] \in Nat /\ k[g] \in Nat /\ s[g] \in Nat /\ r[g] \in Nat
             /\ s[g] = en[g] + k[g] /\ en[g] = e[g] + n[g] /\ en[g] \in Nat
             /\ bs[g] = B * s[g] /\ rt[g] = T * r[g]
             /\ bs[g] \in Nat /\ rt[g] \in Nat /\ bs[g] <= rt[g]
             /\ r[g] = 0 => s[g] = 0
  <2>1. /\ o[g].reward \in Nat /\ Scaled(o, g) \in Nat /\ DelegatePool(o, g) \in Nat
        /\ DelegatePool(o, g) <= Scaled(o, g) /\ OperatorReward(o, g) \in Nat
        /\ Orphaned(o, g) \in Nat /\ o[g].reward <= B
    BY BatchNat
  <2>2. /\ OperatorReward(o, g) = Scaled(o, g) - DelegatePool(o, g)
        /\ Kept(o, g) \in Nat
        /\ Orphaned(o, g) + Kept(o, g) = DelegatePool(o, g)
    BY <2>1 DEF OperatorReward, SatSub, Orphaned, Kept
  <2>3. o[g].reward = 0 => Scaled(o, g) = 0
    BY DEF Scaled
  <2>4. /\ B * Scaled(o, g) \in Nat /\ T * o[g].reward \in Nat
        /\ B * Scaled(o, g) <= T * o[g].reward
    <3>1. CASE o[g].reward > 0
      <4>. DEFINE m == o[g].reward * T
      <4>1. m \in Nat /\ B \in Nat \ {0} /\ m = T * o[g].reward
        BY <1>1, <2>1, <3>1
      <4>2. Scaled(o, g) = m \div B
        BY <3>1 DEF Scaled
      <4>. HIDE DEF m, B, T
      <4>3. m \div B \in Nat /\ B * (m \div B) <= m
        BY <4>1, DivNat
      <4>4. B * (m \div B) \in Nat
        BY <4>1, <4>3
      <4>. QED BY <4>1, <4>2, <4>3, <4>4
    <3>2. CASE ~(o[g].reward > 0)
      <4>1. o[g].reward = 0 /\ Scaled(o, g) = 0
        BY <2>1, <2>3, <3>2
      <4>2. B * 0 = 0 /\ T * 0 = 0
        BY <1>1
      <4>. QED BY <4>1, <4>2
    <3>. QED BY <3>1, <3>2
  <2>. HIDE DEF B, T
  <2>. QED BY <2>1, <2>2, <2>3, <2>4
<1>. HIDE DEF e, n, k, r, s, bs, rt, en, B, T
<1>3. /\ SumFunctionOnSet(e, Operators) \in Nat /\ SumFunctionOnSet(n, Operators) \in Nat
      /\ SumFunctionOnSet(k, Operators) \in Nat /\ SumFunctionOnSet(s, Operators) \in Nat
  BY <1>2, Finite, SumNat
<1>4. SumFunctionOnSet(en, Operators) = SumFunctionOnSet(e, Operators) + SumFunctionOnSet(n, Operators)
  <2>1. \A g \in Operators : e[g] \in Int /\ n[g] \in Int /\ en[g] = e[g] + n[g]
    BY <1>2
  <2>. QED BY <2>1, Finite, SumAdd
<1>5. SumFunctionOnSet(s, Operators) = SumFunctionOnSet(en, Operators) + SumFunctionOnSet(k, Operators)
  <2>1. \A g \in Operators : en[g] \in Int /\ k[g] \in Int /\ s[g] = en[g] + k[g]
    BY <1>2
  <2>. QED BY <2>1, Finite, SumAdd
<1>6. SumFunctionOnSet(s, Operators) <= T
  <2>1. SumFunctionOnSet(bs, Operators) = B * SumFunctionOnSet(s, Operators)
    <3>1. \A g \in Operators : s[g] \in Int /\ bs[g] = B * s[g]
      BY <1>2
    <3>. QED BY <1>1, <3>1, Finite, SumScale
  <2>2. SumFunctionOnSet(rt, Operators) = T * B
    <3>1. \A g \in Operators : r[g] \in Int /\ rt[g] = T * r[g]
      BY <1>2
    <3>2. SumFunctionOnSet(rt, Operators) = T * SumFunctionOnSet(r, Operators)
      BY <1>1, <3>1, Finite, SumScale
    <3>. QED BY <1>1, <3>2
  <2>3. SumFunctionOnSet(bs, Operators) <= SumFunctionOnSet(rt, Operators)
    <3>1. \A g \in Operators : bs[g] \in Int /\ rt[g] \in Int /\ bs[g] <= rt[g]
      BY <1>2
    <3>. QED BY <3>1, Finite, SumMono
  <2>4. CASE B = 0
    <3>1. \A g \in Operators : r[g] = 0
      <4>1. \A g \in Operators : r[g] <= SumFunctionOnSet(r, Operators)
        BY <1>2, Finite, SumMember
      <4>. QED BY <1>1, <1>2, <2>4, <4>1
    <3>2. \A g \in Operators : s[g] = 0
      BY <1>2, <3>1
    <3>3. SumFunctionOnSet(s, Operators) = 0
      BY <3>2, Finite, SumZero
    <3>. QED BY <1>1, <3>3
  <2>5. CASE B # 0
    <3>1. \A b \in Nat \ {0} : \A x, t \in Nat : b * x <= t * b => x <= t
      OBVIOUS
    <3>. QED BY <1>1, <1>3, <2>1, <2>2, <2>3, <2>5, <3>1
  <2>. QED BY <2>4, <2>5
<1>7. /\ SumFunctionOnSet(k, Operators) \in Nat
      /\ SumFunctionOnSet(e, Operators) + SumFunctionOnSet(n, Operators)
           + SumFunctionOnSet(k, Operators) <= T
      /\ SumFunctionOnSet(e, Operators) + SumFunctionOnSet(n, Operators)
           + SumFunctionOnSet(k, Operators) = SumFunctionOnSet(s, Operators)
  BY <1>3, <1>4, <1>5, <1>6
<1>. QED BY <1>7 DEF e, n, k, s, T

(* Scaling the rewards of a batch to the transfer loses less than a token for *)
(* each gateway that is paid, so at most a token for all of them but one.     *)
LEMMA ScaledLoss ==
  ASSUME TypeOK, NEW o \in [Operators -> Outcomes], \A g \in Operators : o[g] # Idle => Joined(g)
  PROVE  LET n == Cardinality({g \in Operators : Joined(g)}) IN
         Transferred(o) - SumFunctionOnSet([g \in Operators |-> Scaled(o, g)], Operators)
           <= IF n > 0 THEN n - 1 ELSE 0
<1>. DEFINE J == {g \in Operators : Joined(g)}
            n == Cardinality(J)
            r == [g \in Operators |-> o[g].reward]
            s == [g \in Operators |-> Scaled(o, g)]
            j == [g \in Operators |-> IF g \in J THEN 1 ELSE 0]
            B == BatchTotal(o)
            T == Transferred(o)
            rt == [g \in Operators |-> T * o[g].reward]
            bs == [g \in Operators |-> B * Scaled(o, g)]
            up == [g \in Operators |-> bs[g] + (B - 1) * j[g]]
            ss == SumFunctionOnSet(s, Operators)
<1>1. /\ B \in Nat /\ T \in Nat /\ T <= B /\ B = SumFunctionOnSet(r, Operators)
  BY BatchNat DEF BatchTotal
<1>2. IsFiniteSet(J) /\ n \in Nat
  BY Finite, FS_Subset, FS_CardinalityType
<1>3. ASSUME NEW g \in Operators
      PROVE  /\ r[g] \in Nat /\ s[g] \in Nat /\ j[g] \in {0, 1} /\ r[g] <= B
             /\ g \notin J => r[g] = 0
             /\ g \in J => j[g] = 1
  <2>1. o[g].reward \in Nat /\ Scaled(o, g) \in Nat /\ o[g].reward <= B
    BY BatchNat
  <2>2. g \notin J => o[g].reward = 0
    BY DEF Idle
  <2>. QED BY <2>1, <2>2
<1>4. ss \in Nat
  <2>1. \A g \in Operators : s[g] \in Nat
    BY <1>3
  <2>. HIDE DEF s
  <2>. QED BY <2>1, Finite, SumNat
<1>5. CASE B = 0
  BY <1>1, <1>2, <1>4, <1>5
<1>6. CASE B # 0
  <2>1. ASSUME NEW g \in Operators
        PROVE  /\ rt[g] = T * r[g] /\ bs[g] = B * s[g] /\ rt[g] \in Int /\ bs[g] \in Int
               /\ up[g] = bs[g] + (B - 1) * j[g] /\ up[g] \in Int /\ j[g] \in Int
               /\ rt[g] <= up[g]
    <3>. DEFINE m == o[g].reward * T
                x == Scaled(o, g)
    <3>1. m \in Nat /\ m = T * o[g].reward /\ x \in Nat /\ B * x \in Nat /\ o[g].reward \in Nat
      BY <1>1, <1>3
    <3>2. j[g] \in {0, 1} /\ (B - 1) * 0 = 0 /\ (B - 1) * 1 = B - 1
      BY <1>1, <1>3
    <3>3. m <= B * x + (B - 1) * j[g]
      <4>1. CASE o[g].reward > 0
        <5>1. x = m \div B
          BY <4>1 DEF Scaled
        <5>. HIDE DEF m, x, B
        <5>2. m < B * (m \div B) + B
          BY <1>1, <1>6, <3>1, DivNat
        <5>3. j[g] = 1
          BY <1>3, <4>1
        <5>. QED BY <1>1, <3>1, <3>2, <5>1, <5>2, <5>3
      <4>2. CASE ~(o[g].reward > 0)
        <5>1. m = 0
          BY <1>1, <3>1, <4>2
        <5>2. (B - 1) * j[g] >= 0
          BY <1>1, <1>6, <3>2
        <5>3. (B - 1) * j[g] \in Int
          BY <1>1, <3>2
        <5>. QED BY <3>1, <5>1, <5>2, <5>3
      <4>. QED BY <4>1, <4>2
    <3>4. (B - 1) * j[g] \in Int
      BY <1>1, <3>2
    <3>5. rt[g] = m /\ bs[g] = B * x /\ r[g] = o[g].reward /\ s[g] = x
      BY <3>1
    <3>6. up[g] = bs[g] + (B - 1) * j[g]
      OBVIOUS
    <3>. HIDE DEF m, x, B, T, rt, bs, up, r, s, j
    <3>. QED BY <3>1, <3>2, <3>3, <3>4, <3>5, <3>6
  <2>2. SumFunctionOnSet(j, Operators) = n
    <3>. HIDE DEF n
    <3>1. J \subseteq Operators /\ \A g \in Operators : j[g] = IF g \in J THEN 1 ELSE 0
      OBVIOUS
    <3>. HIDE DEF J, j
    <3>. QED BY <3>1, Finite, SumCount DEF n
  <2>. HIDE DEF J, n, r, s, j, B, T, rt, bs, up
  <2>3. SumFunctionOnSet(rt, Operators) = T * B
    <3>1. \A g \in Operators : r[g] \in Int /\ rt[g] = T * r[g]
      BY <1>3, <2>1
    <3>. QED BY <1>1, <3>1, Finite, SumScale
  <2>4. SumFunctionOnSet(bs, Operators) = B * ss
    <3>1. \A g \in Operators : s[g] \in Int /\ bs[g] = B * s[g]
      BY <1>3, <2>1
    <3>. QED BY <1>1, <3>1, Finite, SumScale
  <2>5. SumFunctionOnSet(up, Operators) = B * ss + (B - 1) * n
    <3>1. \A g \in Operators : bs[g] \in Int /\ j[g] \in Int /\ up[g] = bs[g] + (B - 1) * j[g]
      BY <2>1
    <3>2. B - 1 \in Int
      BY <1>1
    <3>3. SumFunctionOnSet(up, Operators)
            = SumFunctionOnSet(bs, Operators) + (B - 1) * SumFunctionOnSet(j, Operators)
      BY <3>1, <3>2, Finite, SumLinear
    <3>. QED BY <2>2, <2>4, <3>3
  <2>6. SumFunctionOnSet(rt, Operators) <= SumFunctionOnSet(up, Operators)
    BY <2>1, Finite, SumMono
  <2>7. T * B <= B * ss + (B - 1) * n
    BY <2>3, <2>5, <2>6
  <2>8. CASE n = 0
    <3>1. \A g \in Operators : g \notin J
      BY <1>2, <2>8, FS_EmptySet DEF n
    <3>2. \A g \in Operators : r[g] = 0
      BY <1>3, <3>1
    <3>3. SumFunctionOnSet(r, Operators) = 0
      BY <3>2, Finite, SumZero
    <3>. QED BY <1>1, <1>6, <3>3
  <2>9. CASE n > 0
    <3>1. \A b, x, y, c \in Nat : b > 0 /\ c > 0 /\ y * b <= b * x + (b - 1) * c => y - x <= c - 1
      <4>. SUFFICES ASSUME NEW b \in Nat, NEW x \in Nat, NEW y \in Nat, NEW c \in Nat,
                           b > 0, c > 0, y * b <= b * x + (b - 1) * c, y - x >= c
                    PROVE  FALSE
        OBVIOUS
      <4>1. b * (x + c) <= y * b
        OBVIOUS
      <4>2. b * (x + c) = b * x + b * c /\ (b - 1) * c = b * c - c
        OBVIOUS
      <4>. QED BY <4>1, <4>2
    <3>2. T - ss <= n - 1
      <4>. HIDE DEF ss
      <4>. QED BY <1>1, <1>2, <1>4, <1>6, <2>7, <2>9, <3>1
    <3>. QED BY <2>9, <3>2 DEF J, n, s, T
  <2>. QED BY <1>2, <2>8, <2>9
<1>. QED BY <1>1, <1>5, <1>6

(* An accumulator that rises by i adds i for each token of the principal, *)
(* provided that the debt is not ahead of it.                             *)
LEMMA OwedGrows ==
  ASSUME NEW x \in Nat, NEW p \in Nat, NEW i \in Nat, NEW b \in Nat, x > 0 => b <= p
  PROVE  OwedOf(x, p + i, b) = OwedOf(x, p, b) + i * x
<1>1. CASE x = 0
  <2>1. \A y \in Int : 0 * y = 0 /\ y * 0 = 0
    OBVIOUS
  <2>2. OwedOf(x, p + i, b) = 0 /\ OwedOf(x, p, b) = 0 /\ i * x = 0
    BY <1>1, <2>1 DEF OwedOf
  <2>. QED BY <2>2
<1>2. CASE x # 0
  <2>1. b <= p
    BY <1>2
  <2>2. OwedOf(x, p, b) = x * (p - b)
    BY <2>1 DEF OwedOf
  <2>3. OwedOf(x, p + i, b) = x * (p + i - b)
    BY <2>1 DEF OwedOf
  <2>4. x * (p + i - b) = x * (p - b) + i * x
    BY <2>1
  <2>. QED BY <2>2, <2>3, <2>4
<1>. QED BY <1>1, <1>2

(* A distribution owes no more than what it puts aside for the delegates, and *)
(* less by at most a fraction for each token delegated.                       *)
LEMMA DistributeOwed ==
  ASSUME TypeOK, TypeOK', DelegationInv, NEW o \in [Operators -> Outcomes], DistributeEpoch(o)
  PROVE  /\ AllOwed' <= AllOwed + RewardPrecision
                          * SumFunctionOnSet([g \in Operators |-> Kept(o, g)], Operators)
         /\ AllOwed + RewardPrecision
                * SumFunctionOnSet([g \in Operators |-> Kept(o, g)], Operators)
              <= AllOwed' + Total(total_delegated_stake, Operators)
<1>0. RewardPrecision \in Int /\ RewardPrecision \in Nat
  BY ScaleAssumption
<1>1. /\ cumulative_reward' = [g \in Operators |-> cumulative_reward[g] + Increment(o, g)]
      /\ UNCHANGED <<del_amount, reward_debt>>
  BY DEF DistributeEpoch, delegationVars
<1>2. ASSUME NEW g \in Operators
      PROVE  /\ OwedBy(g) \in Int /\ OwedBy(g)' \in Int
             /\ Kept(o, g) \in Nat /\ RewardPrecision * Kept(o, g) \in Int
             /\ OwedBy(g)' <= OwedBy(g) + RewardPrecision * Kept(o, g)
             /\ OwedBy(g) + RewardPrecision * Kept(o, g) <= OwedBy(g)' + total_delegated_stake[g]
             /\ total_delegated_stake[g] \in Int
  <2>. DEFINE c == Increment(o, g)
              m == [d \in Accounts |-> del_amount[<<g, d>>]]
              f == [d \in Accounts |-> Owed(g, d)]
              h == [d \in Accounts |-> Owed(g, d)']
  <2>1. c \in Nat /\ DelegatePool(o, g) \in Nat
    BY BatchNat
  <2>2. cumulative_reward'[g] = cumulative_reward[g] + c /\ cumulative_reward[g] \in Nat
    BY <1>1 DEF TypeOK, StakeTypes
  <2>3. ASSUME NEW d \in Accounts
        PROVE  /\ m[d] \in Int /\ f[d] \in Int /\ h[d] = f[d] + c * m[d]
    <3>. DEFINE x == del_amount[<<g, d>>]
                b == reward_debt[<<g, d>>]
    <3>1. /\ x \in Nat /\ b \in Nat /\ <<g, d>> \in Pairs /\ <<g, d>>[1] = g
          /\ UNCHANGED <<x, b>>
      BY <1>1, PairIn DEF TypeOK, DelegationTypes
    <3>2. x > 0 => b <= cumulative_reward[g]
      BY <3>1 DEF DelegationInv, DebtNotAhead
    <3>3. Owed(g, d) = OwedOf(x, cumulative_reward[g], b)
      BY DEF Owed
    <3>4. Owed(g, d)' = OwedOf(del_amount'[<<g, d>>], cumulative_reward'[g], reward_debt'[<<g, d>>])
      BY DEF Owed
    <3>5. reward_debt'[<<g, d>>] = b /\ del_amount'[<<g, d>>] = x
      BY <1>1
    <3>6. m[d] = x /\ f[d] = Owed(g, d) /\ h[d] = Owed(g, d)'
      OBVIOUS
    <3>7. Owed(g, d) \in Nat
      BY OwedNat
    <3>. HIDE DEF x, b, c, f, m, h
    <3>8. Owed(g, d)' = OwedOf(x, cumulative_reward[g] + c, b)
      BY <2>2, <3>4, <3>5
    <3>9. OwedOf(x, cumulative_reward[g] + c, b) = OwedOf(x, cumulative_reward[g], b) + c * x
      BY <2>1, <2>2, <3>1, <3>2, OwedGrows
    <3>. QED BY <3>1, <3>3, <3>6, <3>7, <3>8, <3>9
  <2>4. /\ OwedBy(g) = SumFunctionOnSet(f, Accounts)
        /\ OwedBy(g)' = SumFunctionOnSet(h, Accounts)
        /\ DelegatedTo(g) = SumFunctionOnSet(m, Accounts)
    BY DEF OwedBy, DelegatedTo, Total
  <2>5. total_delegated_stake[g] = DelegatedTo(g) /\ total_delegated_stake[g] \in Nat
    BY DEF DelegationInv, GatewayCounters, TypeOK, StakeTypes
  <2>6. /\ Kept(o, g) \in Nat /\ RewardPrecision * Kept(o, g) \in Int
        /\ c * total_delegated_stake[g] \in Nat
        /\ c * total_delegated_stake[g] <= RewardPrecision * Kept(o, g)
        /\ RewardPrecision * Kept(o, g) <= c * total_delegated_stake[g] + total_delegated_stake[g]
    <3>1. CASE total_delegated_stake[g] = 0
      <4>1. Kept(o, g) = 0
        BY <3>1 DEF Kept
      <4>2. RewardPrecision * 0 = 0 /\ c * 0 = 0
        BY <1>0, <2>1
      <4>. QED BY <3>1, <4>1, <4>2
    <3>2. CASE total_delegated_stake[g] # 0
      <4>. DEFINE u == DelegatePool(o, g) * RewardPrecision
                  t == total_delegated_stake[g]
      <4>1. /\ Kept(o, g) = DelegatePool(o, g) /\ t \in Nat \ {0}
            /\ u \in Nat /\ u = RewardPrecision * DelegatePool(o, g)
        BY <1>0, <2>1, <2>5, <3>2 DEF Kept
      <4>2. c = u \div t
        BY <4>1 DEF Increment
      <4>. HIDE DEF u, c, t
      <4>3. u \div t \in Nat /\ t * (u \div t) <= u /\ u < t * (u \div t) + t
        BY <4>1, DivNat
      <4>4. c * t = t * (u \div t) /\ c * t \in Nat
        BY <4>1, <4>2, <4>3
      <4>5. RewardPrecision * Kept(o, g) = u
        BY <4>1
      <4>. QED BY <2>1, <4>1, <4>3, <4>4, <4>5 DEF t
    <3>. QED BY <3>1, <3>2
  <2>. HIDE DEF f, h, m, c
  <2>7. SumFunctionOnSet(h, Accounts)
          = SumFunctionOnSet(f, Accounts) + c * SumFunctionOnSet(m, Accounts)
    BY <2>1, <2>3, Finite, SumLinear
  <2>8. SumFunctionOnSet(f, Accounts) \in Int
    BY <2>3, Finite, SumInt
  <2>. QED BY <2>4, <2>5, <2>6, <2>7, <2>8
<1>. DEFINE k == [g \in Operators |-> Kept(o, g)]
            f == [g \in Operators |-> OwedBy(g)]
            h == [g \in Operators |-> OwedBy(g)']
            u == [g \in Operators |-> f[g] + RewardPrecision * k[g]]
            v == [g \in Operators |-> h[g] + total_delegated_stake[g]]
<1>3. \A g \in Operators : /\ f[g] \in Int /\ h[g] \in Int /\ k[g] \in Int
                           /\ u[g] \in Int /\ h[g] <= u[g] /\ v[g] \in Int /\ u[g] <= v[g]
                           /\ u[g] = f[g] + RewardPrecision * k[g]
                           /\ v[g] = h[g] + total_delegated_stake[g]
                           /\ total_delegated_stake[g] \in Int
  <2>. SUFFICES ASSUME NEW g \in Operators
                PROVE  /\ f[g] \in Int /\ h[g] \in Int /\ k[g] \in Int
                       /\ u[g] \in Int /\ h[g] <= u[g] /\ v[g] \in Int /\ u[g] <= v[g]
                       /\ u[g] = f[g] + RewardPrecision * k[g]
                       /\ v[g] = h[g] + total_delegated_stake[g]
                       /\ total_delegated_stake[g] \in Int
    BY Zenon
  <2>1. /\ f[g] = OwedBy(g) /\ h[g] = OwedBy(g)' /\ k[g] = Kept(o, g)
        /\ u[g] = f[g] + RewardPrecision * k[g] /\ v[g] = h[g] + total_delegated_stake[g]
    OBVIOUS
  <2>. HIDE DEF f, h, k, u, v
  <2>. QED BY <1>2, <2>1
<1>4. AllOwed = SumFunctionOnSet(f, Operators) /\ AllOwed' = SumFunctionOnSet(h, Operators)
  BY DEF AllOwed, Total
<1>. HIDE DEF f, h, u, v, k
<1>5. SumFunctionOnSet(u, Operators)
        = SumFunctionOnSet(f, Operators) + RewardPrecision * SumFunctionOnSet(k, Operators)
  BY <1>0, <1>3, Finite, SumLinear
<1>6. SumFunctionOnSet(h, Operators) <= SumFunctionOnSet(u, Operators)
  BY <1>3, Finite, SumMono
<1>7. SumFunctionOnSet(u, Operators) <= SumFunctionOnSet(v, Operators)
  BY <1>3, Finite, SumMono
<1>8. SumFunctionOnSet(v, Operators)
        = SumFunctionOnSet(h, Operators) + SumFunctionOnSet(total_delegated_stake, Operators)
  BY <1>3, Finite, SumAdd
<1>. QED BY <1>4, <1>5, <1>6, <1>7, <1>8 DEF k, Total

(* A rate of at most RateScale takes at most the whole amount. *)
LEMMA RateAtMost ==
  ASSUME NEW x \in Nat, NEW r \in Nat, r <= RateScale
  PROVE  (x * r) \div RateScale \in Nat /\ (x * r) \div RateScale <= x
<1>1. x * r \in Nat /\ x * r <= x * RateScale
  BY ScaleAssumption
<1>2. \A m, n \in Nat : m <= n * RateScale => m \div RateScale <= n
  BY ScaleAssumption
<1>. QED BY <1>1, <1>2, DivNat, ScaleAssumption

(* The penalty of an instant withdrawal is at most the whole amount. *)
LEMMA PenaltyAtMost ==
  ASSUME TypeOK, NEW v \in VaultIds, Open(v)
  PROVE  /\ (vault_amount[v] * PenaltyRate(v)) \div RateScale \in Nat
         /\ (vault_amount[v] * PenaltyRate(v)) \div RateScale <= vault_amount[v]
<1>1. vault_amount[v] \in Nat /\ PenaltyRate(v) \in Nat
  BY PenaltyRateNat DEF TypeOK, VaultTypes
<1>2. PenaltyRate(v) <= RateScale
  <2>. DEFINE elapsed == now - vault[v].created_at
              decay == ((MaxPenalty - MinPenalty) * elapsed) \div withdrawal_period
  <2>1. PenaltyRate(v) = IF elapsed >= withdrawal_period THEN MinPenalty
          ELSE MinOf(MaxOf(SatSub(MaxPenalty, decay), MinPenalty), MaxPenalty)
    BY DEF PenaltyRate
  <2>. HIDE DEF elapsed, decay
  <2>2. PenaltyRate(v) = MinPenalty \/ PenaltyRate(v) <= MaxPenalty
    BY <1>1, <2>1, ScaleAssumption DEF MinOf
  <2>. QED BY <1>1, <2>2, ScaleAssumption
<1>. QED BY <1>1, <1>2, RateAtMost

(* A step that touches only empty delegations owes as much as before. *)
LEMMA OwedKept ==
  ASSUME TypeOK, TypeOK', UNCHANGED del_amount,
         \A g \in Operators, d \in Accounts : del_amount[<<g, d>>] > 0 =>
           cumulative_reward'[g] = cumulative_reward[g] /\ reward_debt'[<<g, d>>] = reward_debt[<<g, d>>]
  PROVE  AllOwed' = AllOwed
<1>. SUFFICES ASSUME NEW g \in Operators, NEW d \in Accounts PROVE Owed(g, d)' = Owed(g, d)
  BY OwedSame
<1>1. /\ Owed(g, d) = OwedOf(del_amount[<<g, d>>], cumulative_reward[g], reward_debt[<<g, d>>])
      /\ Owed(g, d)' = OwedOf(del_amount'[<<g, d>>], cumulative_reward'[g], reward_debt'[<<g, d>>])
  BY DEF Owed
<1>2. /\ del_amount[<<g, d>>] \in Nat /\ del_amount'[<<g, d>>] = del_amount[<<g, d>>]
      /\ cumulative_reward[g] \in Nat /\ cumulative_reward'[g] \in Nat
      /\ reward_debt[<<g, d>>] \in Nat /\ reward_debt'[<<g, d>>] \in Nat
  BY PairIn DEF TypeOK, DelegationTypes, StakeTypes
<1>3. CASE del_amount[<<g, d>>] > 0
  BY <1>1, <1>2, <1>3
<1>4. CASE del_amount[<<g, d>>] = 0
  <2>1. \A l, b \in Nat : OwedOf(0, l, b) = 0
    BY DEF OwedOf
  <2>. QED BY <1>1, <1>2, <1>4, <2>1
<1>. QED BY <1>2, <1>3, <1>4

(* Settling delegations of one account takes the settled rewards off. *)
LEMMA SettledOwed ==
  ASSUME TypeOK, TypeOK', NEW a \in Accounts, NEW G, UNCHANGED cumulative_reward,
         \A g \in Operators, d \in Accounts :
           IF d = a /\ g \in G
             THEN reward_debt'[<<g, d>>] = cumulative_reward[g]
             ELSE /\ reward_debt'[<<g, d>>] = reward_debt[<<g, d>>]
                  /\ del_amount'[<<g, d>>] = del_amount[<<g, d>>]
  PROVE  AllOwed' + RewardPrecision
           * SumFunctionOnSet([g \in Operators |-> IF g \in G THEN Pending(g, a) ELSE 0], Operators)
         <= AllOwed
<1>. DEFINE s == [g \in Operators |-> IF g \in G THEN Pending(g, a) ELSE 0]
<1>1. ASSUME NEW g \in Operators, NEW d \in Accounts
      PROVE  /\ Owed(g, d) = OwedOf(del_amount[<<g, d>>], cumulative_reward[g], reward_debt[<<g, d>>])
             /\ Owed(g, d)' = OwedOf(del_amount'[<<g, d>>], cumulative_reward[g], reward_debt'[<<g, d>>])
  BY DEF Owed
<1>2. \A g \in Operators : s[g] = (IF g \in G THEN Pending(g, a) ELSE 0) /\ s[g] \in Nat
  <2>1. \A g \in Operators : Pending(g, a) \in Nat
    BY PendingNat
  <2>. QED BY <2>1
<1>3. ASSUME NEW g \in Operators, NEW d \in Accounts \ {a} PROVE Owed(g, d)' = Owed(g, d)
  <2>1. reward_debt'[<<g, d>>] = reward_debt[<<g, d>>] /\ del_amount'[<<g, d>>] = del_amount[<<g, d>>]
    OBVIOUS
  <2>. QED BY <1>1, <2>1
<1>4. ASSUME NEW g \in Operators
      PROVE  Owed(g, a)' + RewardPrecision * s[g] <= Owed(g, a)
  <2>1. /\ Owed(g, a) \in Nat /\ RewardPrecision * Pending(g, a) \in Nat
        /\ RewardPrecision * Pending(g, a) <= Owed(g, a)
    BY OwedNat
  <2>2. CASE g \in G
    <3>1. Owed(g, a)' = OwedOf(del_amount'[<<g, a>>], cumulative_reward[g], cumulative_reward[g])
      BY <1>1, <2>2
    <3>2. cumulative_reward[g] \in Nat
      BY DEF TypeOK, StakeTypes
    <3>3. Owed(g, a)' = 0
      BY <3>1, <3>2 DEF OwedOf
    <3>. QED BY <1>2, <2>1, <2>2, <3>3
  <2>3. CASE g \notin G
    <3>1. Owed(g, a)' = Owed(g, a)
      BY <1>1, <2>3
    <3>2. RewardPrecision * 0 = 0
      BY ScaleAssumption
    <3>. QED BY <1>2, <2>1, <2>3, <3>1, <3>2
  <2>. QED BY <2>2, <2>3
<1>. HIDE DEF s
<1>5. AllOwed' + RewardPrecision * SumFunctionOnSet(s, Operators) <= AllOwed
  BY <1>2, <1>3, <1>4, OwedSettled
<1>. QED BY <1>5 DEF s

(* One delegation settled. *)
LEMMA OneSettled ==
  ASSUME TypeOK, TypeOK', NEW g \in Operators, NEW d \in Accounts,
         UNCHANGED cumulative_reward, NEW p, SetPrincipal(g, d, p)
  PROVE  AllOwed' + RewardPrecision * Pending(g, d) <= AllOwed
<1>. DEFINE s == [k \in Operators |-> IF k \in {g} THEN Pending(k, d) ELSE 0]
            z == [k \in Operators |-> 0]
<1>1. AllOwed' + RewardPrecision * SumFunctionOnSet(s, Operators) <= AllOwed
  <2>1. \A k \in Operators, e \in Accounts :
          IF e = d /\ k \in {g}
            THEN reward_debt'[<<k, e>>] = cumulative_reward[k]
            ELSE /\ reward_debt'[<<k, e>>] = reward_debt[<<k, e>>]
                 /\ del_amount'[<<k, e>>] = del_amount[<<k, e>>]
    <3>1. reward_debt \in [Pairs -> Nat] /\ del_amount \in [Pairs -> Nat]
      BY DEF TypeOK, DelegationTypes
    <3>. QED BY <3>1, PairIn DEF SetPrincipal
  <2>. QED BY <2>1, SettledOwed
<1>2. Pending(g, d) \in Nat
  BY PendingNat
<1>3. /\ \A k \in Operators : z[k] = 0 /\ z[k] \in Int /\ s[k] \in Int
      /\ \A k \in Operators \ {g} : s[k] = z[k]
      /\ s[g] = Pending(g, d)
  BY <1>2
<1>. HIDE DEF s, z
<1>4. SumFunctionOnSet(s, Operators) = SumFunctionOnSet(z, Operators) - z[g] + s[g]
  BY <1>3, Finite, SumUpdate
<1>5. SumFunctionOnSet(z, Operators) = 0 /\ z[g] = 0
  BY <1>3, Finite, SumZero
<1>6. SumFunctionOnSet(s, Operators) = Pending(g, d)
  BY <1>2, <1>3, <1>4, <1>5
<1>. QED BY <1>1, <1>6

(* Both delegations of a redelegation settled. *)
LEMMA BothSettled ==
  ASSUME TypeOK, TypeOK', NEW d \in Accounts, NEW g \in Operators, NEW h \in Operators,
         NEW amount, RedelegateStake(d, g, h, amount)
  PROVE  AllOwed' + RewardPrecision * (Pending(g, d) + Pending(h, d)) <= AllOwed
<1>. DEFINE s == [k \in Operators |-> IF k \in {g, h} THEN Pending(k, d) ELSE 0]
            z == [k \in Operators |-> 0]
            m == [k \in Operators |-> IF k = g THEN Pending(g, d) ELSE 0]
<1>0. /\ g # h /\ UNCHANGED cumulative_reward
      /\ \E x, y : del_amount' = [del_amount EXCEPT ![<<g, d>>] = x, ![<<h, d>>] = y]
      /\ reward_debt' = [reward_debt EXCEPT
           ![<<g, d>>] = cumulative_reward[g], ![<<h, d>>] = cumulative_reward[h]]
  BY DEF RedelegateStake
<1>1. AllOwed' + RewardPrecision * SumFunctionOnSet(s, Operators) <= AllOwed
  <2>1. \A k \in Operators, e \in Accounts :
          IF e = d /\ k \in {g, h}
            THEN reward_debt'[<<k, e>>] = cumulative_reward[k]
            ELSE /\ reward_debt'[<<k, e>>] = reward_debt[<<k, e>>]
                 /\ del_amount'[<<k, e>>] = del_amount[<<k, e>>]
    <3>1. reward_debt \in [Pairs -> Nat] /\ del_amount \in [Pairs -> Nat]
      BY DEF TypeOK, DelegationTypes
    <3>. QED BY <1>0, <3>1, PairIn
  <2>. QED BY <1>0, <2>1, SettledOwed
<1>2. Pending(g, d) \in Nat /\ Pending(h, d) \in Nat
  BY PendingNat
<1>3. /\ \A k \in Operators : z[k] = 0 /\ z[k] \in Int /\ s[k] \in Int /\ m[k] \in Int
      /\ \A k \in Operators \ {g} : m[k] = z[k]
      /\ \A k \in Operators \ {h} : s[k] = m[k]
      /\ m[g] = Pending(g, d) /\ m[h] = 0 /\ s[h] = Pending(h, d)
  BY <1>0, <1>2
<1>. HIDE DEF s, z, m
<1>4. SumFunctionOnSet(m, Operators) = SumFunctionOnSet(z, Operators) - z[g] + m[g]
  BY <1>3, Finite, SumUpdate
<1>5. SumFunctionOnSet(s, Operators) = SumFunctionOnSet(m, Operators) - m[h] + s[h]
  BY <1>3, Finite, SumUpdate
<1>6. SumFunctionOnSet(z, Operators) = 0 /\ z[g] = 0
  BY <1>3, Finite, SumZero
<1>7. SumFunctionOnSet(s, Operators) = Pending(g, d) + Pending(h, d)
  BY <1>2, <1>3, <1>4, <1>5, <1>6
<1>. QED BY <1>1, <1>7

(* The delegations that a funding plan names settled. *)
LEMMA PlanOwed ==
  ASSUME TypeOK, TypeOK', NEW a \in Accounts, NEW p \in Plans, NEW slot,
         PayFromFundingPlan(a, p, slot)
  PROVE  AllOwed' + RewardPrecision
           * SumFunctionOnSet([g \in Operators |-> PlanSettled(a, p, g)], Operators) <= AllOwed
<1>. DEFINE s == [g \in Operators |-> IF g \in PlanDelegations(p) THEN Pending(g, a) ELSE 0]
            t == [g \in Operators |-> PlanSettled(a, p, g)]
<1>1. /\ del_amount' = [q \in Pairs |->
           IF q[2] = a /\ p.delegation[q[1]] > 0
             THEN PlanPost(a, p, q[1]) - PlanResidue(a, p, q[1])
             ELSE del_amount[q]]
      /\ reward_debt' = [q \in Pairs |->
           IF q[2] = a /\ p.delegation[q[1]] > 0
             THEN cumulative_reward[q[1]] ELSE reward_debt[q]]
      /\ UNCHANGED cumulative_reward
  BY DEF PayFromFundingPlan
<1>2. \A k \in Operators, e \in Accounts :
        IF e = a /\ k \in PlanDelegations(p)
          THEN reward_debt'[<<k, e>>] = cumulative_reward[k]
          ELSE /\ reward_debt'[<<k, e>>] = reward_debt[<<k, e>>]
               /\ del_amount'[<<k, e>>] = del_amount[<<k, e>>]
  BY <1>1, PairIn DEF PlanDelegations
<1>3. AllOwed' + RewardPrecision * SumFunctionOnSet(s, Operators) <= AllOwed
  BY <1>1, <1>2, SettledOwed
<1>4. s = t
  BY DEF PlanDelegations, PlanSettled
<1>. QED BY <1>3, <1>4

(* The sum as one formula, to be used of the next state too. *)
AllOwedOK == AllOwed \in Nat

(* The sum of what is owed is a natural number after a step. *)
LEMMA AllOwedNext == TypeOK' => AllOwed' \in Nat
<1>1. TypeOK => AllOwedOK
  BY AllOwedNat DEF AllOwedOK
<1>2. TypeOK' => AllOwedOK'
  BY <1>1, PTL
<1>. QED BY <1>2 DEF AllOwedOK

(* Tokens that leave the free part are covered by what is no longer owed. *)
LEMMA BackedBy ==
  ASSUME TypeOK, TypeOK', PoolBacked, NEW x \in Int, Free' = Free - x,
         AllOwed' + RewardPrecision * x <= AllOwed
  PROVE  PoolBacked'
<1>1. /\ stake_pool \in Nat /\ total_staked \in Nat
      /\ total_delegated \in Nat /\ total_withdrawn \in Nat /\ RewardPrecision \in Nat
  BY ScaleAssumption DEF TypeOK, TokenTypes, CounterTypes
<1>2. Free \in Int
  BY <1>1 DEF Free
<1>3. RewardPrecision * (Free - x) = RewardPrecision * Free - RewardPrecision * x
  BY <1>1, <1>2
<1>4. RewardPrecision * Free \in Int /\ RewardPrecision * x \in Int
  BY <1>1, <1>2
<1>5. AllOwed \in Nat
  BY AllOwedNat
<1>6. AllOwed' \in Nat
  BY AllOwedNext
<1>7. RewardPrecision * (Free - x) >= AllOwed'
  BY <1>3, <1>4, <1>5, <1>6 DEF PoolBacked
<1>. QED BY <1>7 DEF PoolBacked

(* What the counters of the pool bound. *)
LEMMA LedgerBounds ==
  ASSUME TypeOK, DelegationInv, SupplyInv
  PROVE  /\ stake_pool \in Nat /\ total_staked \in Nat
         /\ total_delegated \in Nat /\ total_withdrawn \in Nat
         /\ \A g \in Operators : operator_stake[g] \in Nat /\ operator_stake[g] <= total_staked
         /\ \A v \in VaultIds : vault_amount[v] \in Nat /\ vault_amount[v] <= total_withdrawn
         /\ \A g \in Operators, d \in Accounts :
              /\ Pending(g, d) \in Nat /\ del_amount[<<g, d>>] \in Nat
              /\ Principal(g, d) = del_amount[<<g, d>>] + Pending(g, d)
              /\ del_amount[<<g, d>>] <= total_delegated
<1>1. /\ stake_pool \in Nat /\ total_staked \in Nat
      /\ total_delegated \in Nat /\ total_withdrawn \in Nat
  BY DEF TypeOK, TokenTypes, CounterTypes
<1>2. /\ \A g \in Operators : operator_stake[g] \in Nat /\ operator_stake[g] <= total_staked
      /\ \A v \in VaultIds : vault_amount[v] \in Nat /\ vault_amount[v] <= total_withdrawn
  BY TotalsNat DEF SupplyInv, SupplyCounters
<1>3. ASSUME NEW g \in Operators, NEW d \in Accounts
      PROVE  /\ Pending(g, d) \in Nat /\ del_amount[<<g, d>>] \in Nat
             /\ Principal(g, d) = del_amount[<<g, d>>] + Pending(g, d)
             /\ del_amount[<<g, d>>] <= total_delegated
  <2>1. /\ Pending(g, d) \in Nat /\ del_amount[<<g, d>>] \in Nat
        /\ Principal(g, d) = del_amount[<<g, d>>] + Pending(g, d)
    BY PendingNat DEF Principal
  <2>2. del_amount[<<g, d>>] <= total_delegated_stake[g]
    BY DelegatedNat DEF DelegationInv, GatewayCounters
  <2>3. total_delegated_stake[g] \in Nat /\ total_delegated_stake[g] <= total_delegated
    BY TotalsNat DEF SupplyInv, SupplyCounters
  <2>. QED BY <1>1, <2>1, <2>2, <2>3
<1>. QED BY <1>1, <1>2, <1>3

(* A step that settles nothing keeps the pool backed if it moves as many *)
(* tokens as it moves claims.                                            *)
LEMMA BackedKept ==
  ASSUME TypeOK, TypeOK', PoolBacked, Free' = Free, UNCHANGED del_amount,
         \A g \in Operators, d \in Accounts : del_amount[<<g, d>>] > 0 =>
           cumulative_reward'[g] = cumulative_reward[g] /\ reward_debt'[<<g, d>>] = reward_debt[<<g, d>>]
  PROVE  PoolBacked'
<1>1. AllOwed' = AllOwed
  BY OwedKept
<1>. QED BY <1>1 DEF PoolBacked

(* A step that settles one delegation moves its reward from the free part *)
(* to the principal.                                                      *)
LEMMA BackedOne ==
  ASSUME TypeOK, TypeOK', PoolBacked, NEW g \in Operators, NEW d \in Accounts, NEW p,
         SetPrincipal(g, d, p), UNCHANGED cumulative_reward, Free' = Free - Pending(g, d)
  PROVE  PoolBacked'
<1>1. AllOwed' + RewardPrecision * Pending(g, d) <= AllOwed
  BY OneSettled
<1>2. Pending(g, d) \in Int
  <2>1. Pending(g, d) \in Nat
    BY PendingNat
  <2>. QED BY <2>1
<1>. QED BY <1>1, <1>2, BackedBy

(* Operators' instructions keep the pool backed. *)
LEMMA PoolOperator ==
  ASSUME TypeOK, TypeOK', StakeFloor, DelegationInv, SupplyInv, PoolBacked,
         NEW g \in Operators,
         \/ \E stake \in Amounts, allow \in BOOLEAN, min \in MinDelegations :
              JoinNetwork(g, stake, allow, min)
         \/ \E amount \in Amounts :
              \/ IncreaseOperatorStake(g, amount)
              \/ DecreaseOperatorStake(g, amount)
              \/ DeductOperatorStakeForPayment(g, amount)
         \/ LeaveNetwork(g)
         \/ PruneGateway(g)
         \/ FinalizeGone(g)
         \/ \E allow \in BOOLEAN, min \in MinDelegations :
              UpdateGatewaySettings(g, allow, min)
         \/ \E enabled \in AllowlistChoices : SetAllowlistEnabled(g, enabled)
  PROVE  PoolBacked'
<1>. USE DEF clockVars, tokenVars, counterVars, stakeVars, gatewayVars,
             delegationVars, vaultVars, otherVars
<1>a. /\ stake_pool \in Nat /\ total_staked \in Nat
      /\ total_delegated \in Nat /\ total_withdrawn \in Nat
      /\ operator_stake[g] \in Nat /\ operator_stake[g] <= total_staked
      /\ MinOperatorStake \in Nat
      /\ \A amount \in Amounts : amount \in Nat
  BY LedgerBounds, InputAssumption, LimitAssumption
<1>b. /\ cumulative_reward \in [Operators -> Nat]
      /\ status \in [Operators -> {"None", "Joined", "Leaving"}]
  BY DEF TypeOK, StakeTypes, GatewayTypes
<1>c. ASSUME UNCHANGED <<del_amount, reward_debt, cumulative_reward>>, Free' = Free
      PROVE  PoolBacked'
  BY <1>c, BackedKept
<1>d. ASSUME UNCHANGED <<del_amount, reward_debt>>, Free' = Free,
             \A h \in Operators \ {g} : cumulative_reward'[h] = cumulative_reward[h],
             \A d \in Accounts : del_amount[<<g, d>>] = 0
      PROVE  PoolBacked'
  BY <1>d, BackedKept
<1>1. ASSUME NEW stake \in Amounts, NEW allow \in BOOLEAN, NEW min \in MinDelegations,
             JoinNetwork(g, stake, allow, min)
      PROVE  PoolBacked'
  <2>1. /\ ~Exists(g) /\ stake_pool' = stake_pool + stake /\ total_staked' = total_staked + stake
        /\ UNCHANGED <<total_delegated, total_withdrawn, del_amount, reward_debt>>
        /\ cumulative_reward' = [cumulative_reward EXCEPT ![g] = 0]
    BY <1>1 DEF JoinNetwork, WalletToPool
  <2>2. Free' = Free
    BY <1>a, <2>1 DEF Free
  <2>3. \A d \in Accounts : del_amount[<<g, d>>] = 0
    <3>1. \A d \in Accounts : /\ <<g, d>> \in Pairs /\ <<g, d>>[1] = g
                              /\ del_amount[<<g, d>>] \in Nat
      BY PairIn, LedgerBounds
    <3>. QED BY <2>1, <3>1 DEF DelegationInv, NoStrandedDelegation
  <2>4. \A h \in Operators \ {g} : cumulative_reward'[h] = cumulative_reward[h]
    BY <1>b, <2>1
  <2>. QED BY <1>d, <2>1, <2>2, <2>3, <2>4
<1>2. ASSUME NEW amount \in Amounts, IncreaseOperatorStake(g, amount)
      PROVE  PoolBacked'
  <2>1. /\ stake_pool' = stake_pool + amount /\ total_staked' = total_staked + amount
        /\ UNCHANGED <<total_delegated, total_withdrawn, del_amount, reward_debt, cumulative_reward>>
    BY <1>2 DEF IncreaseOperatorStake, WalletToPool
  <2>2. Free' = Free
    BY <1>a, <2>1 DEF Free
  <2>. QED BY <1>c, <2>1, <2>2
<1>3. ASSUME NEW amount \in Amounts, DecreaseOperatorStake(g, amount)
      PROVE  PoolBacked'
  <2>1. /\ operator_stake[g] - amount >= 0
        /\ total_staked' = SatSub(total_staked, amount)
        /\ total_withdrawn' = total_withdrawn + amount
        /\ UNCHANGED <<stake_pool, total_delegated, del_amount, reward_debt, cumulative_reward>>
    BY <1>3 DEF DecreaseOperatorStake
  <2>2. Free' = Free
    BY <1>a, <2>1 DEF Free, SatSub
  <2>. QED BY <1>c, <2>1, <2>2
<1>4. ASSUME NEW amount \in Amounts, DeductOperatorStakeForPayment(g, amount)
      PROVE  PoolBacked'
  <2>1. /\ operator_stake[g] - amount >= MinOperatorStake
        /\ total_staked' = SatSub(total_staked, amount)
        /\ stake_pool' = stake_pool - amount
        /\ UNCHANGED <<total_withdrawn, total_delegated, del_amount, reward_debt, cumulative_reward>>
    BY <1>4 DEF DeductOperatorStakeForPayment, PoolToTreasury
  <2>2. Free' = Free
    BY <1>a, <2>1 DEF Free, SatSub
  <2>. QED BY <1>c, <2>1, <2>2
<1>5. ASSUME LeaveNetwork(g)
      PROVE  PoolBacked'
  <2>1. /\ total_staked' = SatSub(total_staked, operator_stake[g])
        /\ total_withdrawn' = total_withdrawn + operator_stake[g]
        /\ UNCHANGED <<stake_pool, total_delegated, del_amount, reward_debt, cumulative_reward>>
    BY <1>5 DEF LeaveNetwork, MarkLeaving
  <2>2. Free' = Free
    BY <1>a, <2>1 DEF Free, SatSub
  <2>. QED BY <1>c, <2>1, <2>2
<1>6. ASSUME PruneGateway(g)
      PROVE  PoolBacked'
  <2>. DEFINE slash == MinOf(MinOperatorStake, operator_stake[g])
              rest == SatSub(operator_stake[g], slash)
  <2>1. /\ total_staked' = SatSub(total_staked, operator_stake[g])
        /\ total_withdrawn' = total_withdrawn + rest
        /\ stake_pool' = stake_pool - slash
        /\ UNCHANGED <<total_delegated, del_amount, reward_debt, cumulative_reward>>
    BY <1>6 DEF PruneGateway, MarkLeaving, PoolToTreasury
  <2>2. slash \in Nat /\ rest \in Nat /\ slash + rest = operator_stake[g]
    BY <1>a DEF MinOf, SatSub
  <2>. HIDE DEF slash, rest
  <2>3. Free' = Free
    BY <1>a, <2>1, <2>2 DEF Free, SatSub
  <2>. QED BY <1>c, <2>1, <2>3
<1>7. ASSUME FinalizeGone(g)
      PROVE  PoolBacked'
  <2>1. /\ total_delegated_stake[g] = 0
        /\ UNCHANGED <<stake_pool, total_staked, total_delegated, total_withdrawn,
                       del_amount, reward_debt>>
        /\ cumulative_reward' = [cumulative_reward EXCEPT ![g] = 0]
    BY <1>7 DEF FinalizeGone, MayFinalize
  <2>2. Free' = Free
    BY <2>1 DEF Free
  <2>3. \A d \in Accounts : del_amount[<<g, d>>] = 0
    <3>1. \A d \in Accounts : /\ del_amount[<<g, d>>] <= total_delegated_stake[g]
                              /\ del_amount[<<g, d>>] \in Nat
      BY DelegatedNat, LedgerBounds DEF DelegationInv, GatewayCounters
    <3>. QED BY <2>1, <3>1
  <2>4. \A h \in Operators \ {g} : cumulative_reward'[h] = cumulative_reward[h]
    BY <1>b, <2>1
  <2>. QED BY <1>d, <2>1, <2>2, <2>3, <2>4
<1>8. ASSUME \/ \E allow \in BOOLEAN, min \in MinDelegations :
                  UpdateGatewaySettings(g, allow, min)
             \/ \E enabled \in AllowlistChoices : SetAllowlistEnabled(g, enabled)
      PROVE  PoolBacked'
  <2>1. UNCHANGED <<stake_pool, total_staked, total_delegated, total_withdrawn,
                    del_amount, reward_debt, cumulative_reward>>
    BY <1>8 DEF UpdateGatewaySettings, SetAllowlistEnabled
  <2>2. Free' = Free
    BY <2>1 DEF Free
  <2>. QED BY <1>c, <2>1, <2>2
<1>. QED BY <1>1, <1>2, <1>3, <1>4, <1>5, <1>6, <1>7, <1>8

(* Delegators' instructions keep the pool backed. *)
LEMMA PoolDelegator ==
  ASSUME TypeOK, TypeOK', DelegationInv, SupplyInv, PoolBacked,
         NEW g \in Operators, NEW d \in Accounts,
         \/ \E amount \in Amounts :
              \/ DelegateStake(d, g, amount)
              \/ DecreaseDelegateStake(d, g, amount)
              \/ DeductDelegationForPayment(d, g, amount)
              \/ \E h \in Operators : RedelegateStake(d, g, h, amount)
         \/ ClaimDelegateFromLeavingGateway(g, d)
         \/ ClaimDelegateFromDisabledGateway(g, d)
         \/ CloseEmptyDelegation(g, d)
         \/ CompoundDelegationRewards(g, d)
         \/ AllowDelegate(g, d)
         \/ DisallowDelegate(g, d)
  PROVE  PoolBacked'
<1>. USE DEF clockVars, tokenVars, counterVars, stakeVars, gatewayVars,
             delegationVars, vaultVars, otherVars
<1>a. /\ stake_pool \in Nat /\ total_staked \in Nat
      /\ total_delegated \in Nat /\ total_withdrawn \in Nat
      /\ Pending(g, d) \in Nat /\ del_amount[<<g, d>>] \in Nat
      /\ Principal(g, d) = del_amount[<<g, d>>] + Pending(g, d)
      /\ del_amount[<<g, d>>] <= total_delegated
  BY LedgerBounds
<1>b. \A amount \in Amounts : amount \in Nat
  BY InputAssumption
<1>1. ASSUME NEW amount \in Amounts, DelegateStake(d, g, amount)
      PROVE  PoolBacked'
  <2>1. /\ stake_pool' = stake_pool + amount
        /\ total_delegated' = total_delegated + Pending(g, d) + amount
        /\ UNCHANGED <<total_staked, total_withdrawn, cumulative_reward>>
        /\ SetPrincipal(g, d, Principal(g, d) + amount)
    BY <1>1 DEF DelegateStake, WalletToPool
  <2>2. Free' = Free - Pending(g, d)
    BY <1>a, <1>b, <2>1 DEF Free
  <2>. QED BY <2>1, <2>2, BackedOne
<1>2. ASSUME NEW amount \in Nat, Principal(g, d) - amount \in Nat,
             DelegationToVault(g, d, amount)
      PROVE  PoolBacked'
  <2>1. /\ total_delegated' = SatSub(total_delegated + Pending(g, d), amount)
        /\ total_withdrawn' = total_withdrawn + amount
        /\ UNCHANGED <<stake_pool, total_staked, cumulative_reward>>
        /\ SetPrincipal(g, d, Principal(g, d) - amount)
    BY <1>2 DEF DelegationToVault
  <2>2. Free' = Free - Pending(g, d)
    BY <1>a, <1>2, <2>1 DEF Free, SatSub
  <2>. QED BY <2>1, <2>2, BackedOne
<1>3. ASSUME NEW amount \in Amounts, DecreaseDelegateStake(d, g, amount)
      PROVE  PoolBacked'
  <2>1. amount \in Nat /\ Principal(g, d) - amount \in Nat /\ DelegationToVault(g, d, amount)
    BY <1>a, <1>b, <1>3 DEF DecreaseDelegateStake
  <2>. QED BY <1>2, <2>1
<1>4. ASSUME \/ ClaimDelegateFromLeavingGateway(g, d)
             \/ ClaimDelegateFromDisabledGateway(g, d)
      PROVE  PoolBacked'
  <2>1. DelegationToVault(g, d, Principal(g, d))
    BY <1>4 DEF ClaimDelegateFromLeavingGateway, ClaimDelegateFromDisabledGateway
  <2>2. Principal(g, d) \in Nat /\ Principal(g, d) - Principal(g, d) \in Nat
    BY <1>a
  <2>. QED BY <1>2, <2>1, <2>2
<1>5. ASSUME NEW amount \in Amounts, DeductDelegationForPayment(d, g, amount)
      PROVE  PoolBacked'
  <2>1. /\ Principal(g, d) - amount >= 0
        /\ stake_pool' = stake_pool - amount
        /\ total_delegated' = SatSub(total_delegated + Pending(g, d), amount)
        /\ UNCHANGED <<total_staked, total_withdrawn, cumulative_reward>>
        /\ SetPrincipal(g, d, Principal(g, d) - amount)
    BY <1>5 DEF DeductDelegationForPayment, PoolToTreasury
  <2>2. Free' = Free - Pending(g, d)
    BY <1>a, <1>b, <2>1 DEF Free, SatSub
  <2>. QED BY <2>1, <2>2, BackedOne
<1>6. ASSUME NEW amount \in Amounts, NEW h \in Operators, RedelegateStake(d, g, h, amount)
      PROVE  PoolBacked'
  <2>. DEFINE fee == (amount * FeeRate(d)) \div RateScale
              x == Pending(g, d) + Pending(h, d)
  <2>1. stake_pool' = stake_pool - fee /\ UNCHANGED <<total_staked, total_withdrawn>>
    BY <1>6 DEF RedelegateStake, PoolToTreasury
  <2>2. DelegatedCounted
    BY DEF SupplyInv, SupplyCounters, DelegatedCounted
  <2>3. total_delegated' = total_delegated + Pending(g, d) + Pending(h, d) - fee
    BY <1>6, <2>2, RedelegateCounted
  <2>4. fee \in Nat
    <3>1. amount \in Nat /\ FeeRate(d) \in Nat
      BY <1>b, FeeRateNat
    <3>2. FeeRate(d) <= RateScale
      BY FeeRateAtMost
    <3>. QED BY <3>1, <3>2, RateAtMost
  <2>5. Pending(h, d) \in Nat
    BY PendingNat
  <2>6. AllOwed' + RewardPrecision * x <= AllOwed
    BY <1>6, BothSettled
  <2>. HIDE DEF fee
  <2>7. Free' = Free - x
    BY <1>a, <2>1, <2>3, <2>4, <2>5 DEF Free
  <2>8. x \in Int
    BY <1>a, <2>5
  <2>. HIDE DEF x
  <2>. QED BY <2>6, <2>7, <2>8, BackedBy
<1>7. ASSUME CloseEmptyDelegation(g, d)
      PROVE  PoolBacked'
  <2>1. /\ del_amount[<<g, d>>] = 0
        /\ reward_debt' = [reward_debt EXCEPT ![<<g, d>>] = 0]
        /\ UNCHANGED <<stake_pool, total_staked, total_delegated, total_withdrawn,
                       del_amount, cumulative_reward>>
    BY <1>7 DEF CloseEmptyDelegation
  <2>2. Free' = Free
    BY <2>1 DEF Free
  <2>3. reward_debt \in [Pairs -> Nat]
    BY DEF TypeOK, DelegationTypes
  <2>4. \A h \in Operators, e \in Accounts :
          del_amount[<<h, e>>] > 0 => reward_debt'[<<h, e>>] = reward_debt[<<h, e>>]
    BY <2>1, <2>3, PairIn
  <2>. QED BY <2>1, <2>2, <2>4, BackedKept
<1>8. ASSUME CompoundDelegationRewards(g, d)
      PROVE  PoolBacked'
  <2>1. /\ total_delegated' = total_delegated + Pending(g, d)
        /\ UNCHANGED <<stake_pool, total_staked, total_withdrawn, cumulative_reward>>
        /\ SetPrincipal(g, d, Principal(g, d))
    BY <1>8 DEF CompoundDelegationRewards
  <2>2. Free' = Free - Pending(g, d)
    BY <1>a, <2>1 DEF Free
  <2>. QED BY <2>1, <2>2, BackedOne
<1>9. ASSUME AllowDelegate(g, d) \/ DisallowDelegate(g, d)
      PROVE  PoolBacked'
  <2>1. UNCHANGED <<stake_pool, total_staked, total_delegated, total_withdrawn,
                    del_amount, reward_debt, cumulative_reward>>
    BY <1>9 DEF AllowDelegate, DisallowDelegate
  <2>2. Free' = Free
    BY <2>1 DEF Free
  <2>. QED BY <2>1, <2>2, BackedKept
<1>. QED BY <1>1, <1>3, <1>4, <1>5, <1>6, <1>7, <1>8, <1>9

(* Instructions on withdrawal vaults keep the pool backed. *)
LEMMA PoolVault ==
  ASSUME TypeOK, TypeOK', DelegationInv, SupplyInv, PoolBacked, NEW v \in VaultIds,
         \/ ClaimWithdrawal(v)
         \/ InstantWithdrawal(v)
         \/ CloseDrainedWithdrawal(v)
         \/ CancelOperatorWithdrawal(v)
         \/ CancelDelegateWithdrawal(v)
         \/ \E amount \in Amounts : DeductWithdrawalForPayment(v, amount)
  PROVE  PoolBacked'
<1>. USE DEF clockVars, tokenVars, counterVars, stakeVars, gatewayVars,
             delegationVars, vaultVars, otherVars
<1>a. /\ stake_pool \in Nat /\ total_staked \in Nat
      /\ total_delegated \in Nat /\ total_withdrawn \in Nat
      /\ vault_amount[v] \in Nat /\ vault_amount[v] <= total_withdrawn
      /\ \A amount \in Amounts : amount \in Nat
  BY LedgerBounds, InputAssumption
<1>b. ASSUME UNCHANGED <<del_amount, reward_debt, cumulative_reward>>, Free' = Free
      PROVE  PoolBacked'
  BY <1>b, BackedKept
<1>1. ASSUME ClaimWithdrawal(v)
      PROVE  PoolBacked'
  <2>1. /\ stake_pool' = stake_pool - (vault_amount[v] + 0)
        /\ total_withdrawn' = SatSub(total_withdrawn, vault_amount[v])
        /\ UNCHANGED <<total_staked, total_delegated, del_amount, reward_debt, cumulative_reward>>
    BY <1>1 DEF ClaimWithdrawal, PoolToWallet
  <2>2. Free' = Free
    BY <1>a, <2>1 DEF Free, SatSub
  <2>. QED BY <1>b, <2>1, <2>2
<1>2. ASSUME InstantWithdrawal(v)
      PROVE  PoolBacked'
  <2>. DEFINE fee == (vault_amount[v] * PenaltyRate(v)) \div RateScale
  <2>1. /\ Open(v)
        /\ stake_pool' = stake_pool - (SatSub(vault_amount[v], fee) + fee)
        /\ total_withdrawn' = SatSub(total_withdrawn, vault_amount[v])
        /\ UNCHANGED <<total_staked, total_delegated, del_amount, reward_debt, cumulative_reward>>
    BY <1>2 DEF InstantWithdrawal, PoolToWallet
  <2>2. fee \in Nat /\ fee <= vault_amount[v]
    BY <2>1, PenaltyAtMost
  <2>. HIDE DEF fee
  <2>3. Free' = Free
    BY <1>a, <2>1, <2>2 DEF Free, SatSub
  <2>. QED BY <1>b, <2>1, <2>3
<1>3. ASSUME CloseDrainedWithdrawal(v)
      PROVE  PoolBacked'
  <2>1. UNCHANGED <<stake_pool, total_staked, total_delegated, total_withdrawn,
                    del_amount, reward_debt, cumulative_reward>>
    BY <1>3 DEF CloseDrainedWithdrawal
  <2>2. Free' = Free
    BY <2>1 DEF Free
  <2>. QED BY <1>b, <2>1, <2>2
<1>4. ASSUME CancelOperatorWithdrawal(v)
      PROVE  PoolBacked'
  <2>1. /\ total_staked' = total_staked + vault_amount[v]
        /\ total_withdrawn' = SatSub(total_withdrawn, vault_amount[v])
        /\ UNCHANGED <<stake_pool, total_delegated, del_amount, reward_debt, cumulative_reward>>
    BY <1>4 DEF CancelOperatorWithdrawal
  <2>2. Free' = Free
    BY <1>a, <2>1 DEF Free, SatSub
  <2>. QED BY <1>b, <2>1, <2>2
<1>5. ASSUME CancelDelegateWithdrawal(v)
      PROVE  PoolBacked'
  <2>. DEFINE g == vault[v].gateway
              d == v[1]
  <2>1. /\ total_delegated' = total_delegated + Pending(g, d) + vault_amount[v]
        /\ total_withdrawn' = SatSub(total_withdrawn, vault_amount[v])
        /\ UNCHANGED <<stake_pool, total_staked, cumulative_reward>>
        /\ SetPrincipal(g, d, Principal(g, d) + vault_amount[v])
    BY <1>5 DEF CancelDelegateWithdrawal
  <2>2. g \in Operators /\ d \in Accounts
    BY <1>5 DEF TypeOK, VaultTypes, VaultRecord, VaultIds, CancelDelegateWithdrawal, Open
  <2>. HIDE DEF g, d
  <2>3. Pending(g, d) \in Nat
    BY <2>2, PendingNat
  <2>4. Free' = Free - Pending(g, d)
    BY <1>a, <2>1, <2>3 DEF Free, SatSub
  <2>. QED BY <2>1, <2>2, <2>4, BackedOne
<1>6. ASSUME NEW amount \in Amounts, DeductWithdrawalForPayment(v, amount)
      PROVE  PoolBacked'
  <2>1. /\ vault_amount[v] >= amount
        /\ stake_pool' = stake_pool - amount
        /\ total_withdrawn' = SatSub(total_withdrawn, amount)
        /\ UNCHANGED <<total_staked, total_delegated, del_amount, reward_debt, cumulative_reward>>
    BY <1>6 DEF DeductWithdrawalForPayment, PoolToTreasury
  <2>2. Free' = Free
    BY <1>a, <2>1 DEF Free, SatSub
  <2>. QED BY <1>b, <2>1, <2>2
<1>. QED BY <1>1, <1>2, <1>3, <1>4, <1>5, <1>6

(* A payment from a funding plan keeps the pool backed. *)
LEMMA PoolPlan ==
  ASSUME TypeOK, TypeOK', DelegationInv, SupplyInv, PoolBacked,
         NEW a \in Accounts, NEW p \in Plans, NEW slot \in PlanSlots(a, p),
         PayFromFundingPlan(a, p, slot)
  PROVE  PoolBacked'
<1>. DEFINE S == SumFunctionOnSet([g \in Operators |-> PlanSettled(a, p, g)], Operators)
            D == SumFunctionOnSet(p.delegation, Operators)
            R == SumFunctionOnSet([g \in Operators |-> PlanResidue(a, p, g)], Operators)
            V == SumFunctionOnSet(p.vaults, 0 .. MaxVaults - 1)
<1>1. /\ PlanAllowed(a, p)
      /\ stake_pool' = stake_pool - (D + p.stake + V)
      /\ total_staked' = SatSub(total_staked, p.stake)
      /\ total_withdrawn' = SatSub(total_withdrawn, V) + R
  BY DEF PayFromFundingPlan
<1>2. /\ stake_pool \in Nat /\ total_staked \in Nat
      /\ total_delegated \in Nat /\ total_withdrawn \in Nat
      /\ \A g \in Operators : operator_stake[g] \in Nat /\ operator_stake[g] <= total_staked
  BY LedgerBounds
<1>3. S \in Nat /\ D \in Nat /\ R \in Nat /\ V \in Nat
  BY <1>1, PlanSums
<1>4. p.stake \in Nat
  BY <1>1, PlanNat
<1>5. p.stake <= total_staked
  <2>1. p.stake > 0 => a \in Operators /\ operator_stake[a] - p.stake >= MinOperatorStake
    BY <1>1 DEF PlanAllowed
  <2>. QED BY <1>2, <1>4, <2>1, LimitAssumption
<1>6. V <= total_withdrawn
  <2>1. ClosedEmpty /\ total_withdrawn = Total(vault_amount, VaultIds)
    BY DEF SupplyInv, SupplyCounters
  <2>. QED BY <2>1, PlanVaultTotal
<1>7. total_delegated' = total_delegated + S - D - R
  BY PlanCounted DEF DelegatedCounted, SupplyInv, SupplyCounters
<1>8. AllOwed' + RewardPrecision * S <= AllOwed
  BY PlanOwed
<1>. HIDE DEF S, D, R, V
<1>9. Free' = Free - S
  BY <1>1, <1>2, <1>3, <1>4, <1>5, <1>6, <1>7 DEF Free, SatSub
<1>10. S \in Int
  BY <1>3
<1>. QED BY <1>8, <1>9, <1>10, BackedBy

(* A distribution batch keeps the pool backed: what it adds to the debts *)
(* is at most what it pays in beyond the operators' part.                *)
LEMMA PoolBatch ==
  ASSUME TypeOK, TypeOK', DelegationInv, SupplyInv, PoolBacked,
         NEW o \in [Operators -> Outcomes], DistributeEpoch(o)
  PROVE  PoolBacked'
<1>. DEFINE E == SumFunctionOnSet([g \in Operators |-> OperatorReward(o, g)], Operators)
            N == SumFunctionOnSet([g \in Operators |-> Orphaned(o, g)], Operators)
            K == SumFunctionOnSet([g \in Operators |-> Kept(o, g)], Operators)
            x == E - (Transferred(o) - N)
<1>1. /\ stake_pool' = stake_pool + SatSub(Transferred(o), N)
      /\ total_staked' = total_staked + E
      /\ UNCHANGED <<total_delegated, total_withdrawn>>
  BY DEF DistributeEpoch
<1>2. E \in Nat /\ N \in Nat
  BY BatchSums
<1>3. K \in Nat /\ E + N + K <= Transferred(o)
  BY BatchCovered
<1>4. Transferred(o) \in Nat
  BY BatchNat
<1>5. AllOwed' <= AllOwed + RewardPrecision * K
  BY DistributeOwed
<1>6. AllOwed \in Nat
  BY AllOwedNat
<1>7. AllOwed' \in Nat
  BY AllOwedNext
<1>. HIDE DEF E, N, K
<1>8. Free' = Free - x
  <2>1. /\ stake_pool \in Nat /\ total_staked \in Nat
        /\ total_delegated \in Nat /\ total_withdrawn \in Nat
    BY LedgerBounds
  <2>. QED BY <1>1, <1>2, <1>3, <1>4, <2>1 DEF Free, SatSub
<1>9. x \in Int /\ K + x <= 0
  BY <1>2, <1>3, <1>4
<1>. HIDE DEF x
<1>10. RewardPrecision * K + RewardPrecision * x <= 0
  <2>1. RewardPrecision \in Nat
    BY ScaleAssumption
  <2>2. RewardPrecision * K + RewardPrecision * x = RewardPrecision * (K + x)
    BY <1>3, <1>9, <2>1
  <2>3. \A m \in Nat, i \in Int : i <= 0 => m * i <= 0
    OBVIOUS
  <2>4. K + x \in Int
    BY <1>3, <1>9
  <2>. QED BY <1>9, <2>1, <2>2, <2>3, <2>4
<1>11. RewardPrecision * K \in Int /\ RewardPrecision * x \in Int
  BY <1>3, <1>9, ScaleAssumption
<1>12. AllOwed' + RewardPrecision * x <= AllOwed
  BY <1>5, <1>6, <1>7, <1>10, <1>11
<1>. QED BY <1>8, <1>9, <1>12, BackedBy

(* Every step keeps the pool backed. *)
LEMMA PoolStep ==
  TypeOK /\ StakeFloor /\ DelegationInv /\ SupplyInv /\ PoolBacked /\ [Next]_vars => PoolBacked'
<1>. SUFFICES ASSUME TypeOK, StakeFloor, DelegationInv, SupplyInv, PoolBacked, [Next]_vars
              PROVE  PoolBacked'
  OBVIOUS
<1>a. TypeOK'
  BY TypeStep
<1>1. CASE OperatorNext
  BY <1>a, <1>1, PoolOperator DEF OperatorNext
<1>2. CASE DelegatorNext
  BY <1>a, <1>2, PoolDelegator DEF DelegatorNext
<1>3. CASE VaultNext
  BY <1>a, <1>3, PoolVault DEF VaultNext
<1>4. CASE PlanNext
  BY <1>a, <1>4, PoolPlan DEF PlanNext
<1>5. ASSUME NEW o \in [Operators -> Outcomes], DistributeEpoch(o) PROVE PoolBacked'
  BY <1>a, <1>5, PoolBatch
<1>6. CASE \/ \E period \in Periods : AdminSetWithdrawalPeriod(period)
           \/ Tick
           \/ UNCHANGED vars
  <2>1. UNCHANGED <<stake_pool, total_staked, total_delegated, total_withdrawn,
                    del_amount, reward_debt, cumulative_reward>>
    BY <1>6 DEF AdminSetWithdrawalPeriod, Tick, vars, tokenVars, counterVars, stakeVars,
                delegationVars
  <2>2. Free' = Free
    BY <2>1 DEF Free
  <2>. QED BY <1>a, <2>1, <2>2, BackedKept
<1>. QED BY <1>1, <1>2, <1>3, <1>4, <1>5, <1>6 DEF Next

(* The pool is backed from the start: nobody is owed anything. *)
LEMMA PoolHolds == Spec => []PoolBacked
<1>1. Init => PoolBacked
  <2>. SUFFICES ASSUME Init PROVE PoolBacked
    OBVIOUS
  <2>1. \A g \in Operators, d \in Accounts : Owed(g, d) = 0
    <3>. SUFFICES ASSUME NEW g \in Operators, NEW d \in Accounts PROVE Owed(g, d) = 0
      OBVIOUS
    <3>1. cumulative_reward[g] = 0 /\ reward_debt[<<g, d>>] = 0
      BY PairIn DEF Init
    <3>. QED BY <3>1 DEF Owed, OwedOf
  <2>2. ASSUME NEW g \in Operators PROVE OwedBy(g) = 0
    <3>. DEFINE f == [d \in Accounts |-> Owed(g, d)]
    <3>1. \A d \in Accounts : f[d] = 0
      BY <2>1
    <3>2. OwedBy(g) = SumFunctionOnSet(f, Accounts)
      BY DEF OwedBy, Total
    <3>. HIDE DEF f
    <3>. QED BY <3>1, <3>2, Finite, SumZero
  <2>3. AllOwed = 0
    <3>. DEFINE f == [g \in Operators |-> OwedBy(g)]
    <3>1. \A g \in Operators : f[g] = 0
      BY <2>2
    <3>2. AllOwed = SumFunctionOnSet(f, Operators)
      BY DEF AllOwed, Total
    <3>. HIDE DEF f
    <3>. QED BY <3>1, <3>2, Finite, SumZero
  <2>4. Free = 0
    BY DEF Init, Free
  <2>. QED BY <2>3, <2>4, ScaleAssumption DEF PoolBacked
<1>. QED BY <1>1, PoolStep, TypeCorrect, StakeFloorHolds, DelegationHolds, SupplyHolds, PTL DEF Spec

(* A backed pool covers every claim on it. *)
LEMMA BackedSolvent ==
  ASSUME TypeOK, SupplyInv, PoolBacked
  PROVE  PoolSolvent
<1>1. AllPending \in Nat
  BY PendingOwed
<1>2. RewardPrecision * AllPending <= AllOwed
  BY PendingOwed
<1>3. AllOwed \in Nat
  BY AllOwedNat
<1>4. /\ stake_pool \in Nat /\ total_staked \in Nat /\ total_delegated \in Nat
      /\ total_withdrawn \in Nat /\ RewardPrecision \in Nat \ {0}
  BY ScaleAssumption DEF TypeOK, TokenTypes, CounterTypes
<1>5. Free \in Int
  BY <1>4 DEF Free
<1>6. RewardPrecision * AllPending <= RewardPrecision * Free
  <2>1. RewardPrecision * AllPending \in Int /\ RewardPrecision * Free \in Int
    BY <1>1, <1>4, <1>5
  <2>2. RewardPrecision * Free >= AllOwed
    BY DEF PoolBacked
  <2>. QED BY <1>2, <1>3, <2>1, <2>2
<1>7. AllPending <= Free
  <2>1. \A m \in Nat \ {0}, n \in Nat, i \in Int : m * n <= m * i => n <= i
    OBVIOUS
  <2>. QED BY <1>1, <1>4, <1>5, <1>6, <2>1
<1>8. Claims = total_staked + total_delegated + total_withdrawn + AllPending
  BY DEF Claims, SupplyInv, SupplyCounters
<1>. QED BY <1>1, <1>4, <1>7, <1>8 DEF PoolSolvent, Free

(***************************************************************************)
(* Invariant 1 of INVARIANTS.md: the pool's tokens cover every claim on    *)
(* it, the rewards due to every delegation included, after any sequence of *)
(* instructions and whatever is rounded on the way.                        *)
(***************************************************************************)
THEOREM PoolSolventHolds == Spec => []PoolSolvent
<1>1. TypeOK /\ SupplyInv /\ PoolBacked => PoolSolvent
  BY BackedSolvent
<1>. QED BY <1>1, TypeCorrect, SupplyHolds, PoolHolds, PTL

-----------------------------------------------------------------------------
(***************************************************************************)
(* The leave period.  A vault that still holds an operator's minimum stake *)
(* back belongs to a gateway that is still leaving: finalize_gone, the way *)
(* to joining again, waits longer than the vault is locked.                *)
(***************************************************************************)
Locked(v) ==
    Open(v) /\ vault[v].is_protected /\ now < vault[v].available_at

LockedLeaving ==
    \A v \in VaultIds : Locked(v) =>
      /\ status[vault[v].gateway] = "Leaving"
      /\ vault[v].available_at <= leave_timestamp[vault[v].gateway] + LeavePeriod

\* No vault is opened as a protected one, and none gets other terms.
NoNewLock ==
    \A v \in VaultIds : vault'[v] # NoVault /\ vault'[v].is_protected => vault'[v] = vault[v]

(* A step that opens no protected vault and leaves the gateways as they    *)
(* are keeps LockedLeaving.                                                *)
LEMMA LockKept ==
  ASSUME TypeOK, TypeOK', LockedLeaving, NoNewLock, now' >= now,
         \A g \in Operators : status[g] = "Leaving" =>
           status'[g] = status[g] /\ leave_timestamp'[g] = leave_timestamp[g]
  PROVE  LockedLeaving'
<1>. SUFFICES ASSUME NEW v \in VaultIds, Locked(v)'
              PROVE  /\ status'[vault'[v].gateway] = "Leaving"
                     /\ vault'[v].available_at <= leave_timestamp'[vault'[v].gateway] + LeavePeriod
  BY DEF LockedLeaving
<1>1. vault'[v] = vault[v] /\ vault[v] # NoVault /\ vault[v].is_protected
  BY DEF Locked, Open, NoNewLock
<1>2. vault[v].gateway \in Operators /\ vault[v].available_at \in Nat
  BY <1>1 DEF TypeOK, VaultTypes, VaultRecord
<1>3. now < vault[v].available_at
  BY <1>1, <1>2 DEF Locked, TypeOK, ClockTypes
<1>4. Locked(v)
  BY <1>1, <1>3 DEF Locked, Open
<1>. QED BY <1>1, <1>2, <1>4 DEF LockedLeaving

(* A withdrawal opens a plain vault under a free id. *)
LEMMA OpenVaultLock ==
  ASSUME TypeOK, NEW o, NEW g, NEW amount, NEW isDelegate,
         OpenVault(o, g, amount, isDelegate)
  PROVE  NoNewLock /\ \A v \in VaultIds : Open(v) => vault'[v] = vault[v]
<1>1. /\ vault' = [vault EXCEPT ![<<o, next_id[o]>>] = VaultOf(g, withdrawal_period, isDelegate, FALSE)]
      /\ <<o, next_id[o]>> \in VaultIds
      /\ ~Open(<<o, next_id[o]>>)
  BY DEF OpenVault
<1>2. ~VaultOf(g, withdrawal_period, isDelegate, FALSE).is_protected
  BY DEF VaultOf
<1>. HIDE DEF VaultOf
<1>. QED BY <1>1, <1>2 DEF NoNewLock, TypeOK, VaultTypes

(* So do the residues of a funding plan. *)
LEMMA PlanLock ==
  ASSUME TypeOK, NEW a, NEW p, NEW slot, PayFromFundingPlan(a, p, slot)
  PROVE  NoNewLock /\ \A v \in VaultIds : Open(v) => vault'[v] = vault[v]
<1>. DEFINE R == PlanResidues(a, p)
            new(g) == VaultOf(g, withdrawal_period, TRUE, FALSE)
<1>1. /\ vault' = [v \in VaultIds |->
             IF \E g \in R : v = <<a, slot[g]>>
               THEN new(CHOOSE g \in R : v = <<a, slot[g]>>)
               ELSE vault[v]]
      /\ \A g \in R : ~Open(<<a, slot[g]>>)
  BY DEF PayFromFundingPlan
<1>2. \A g : ~new(g).is_protected
  BY DEF VaultOf
<1>. HIDE DEF R, new
<1>. QED BY <1>1, <1>2 DEF NoNewLock

(* Closing a vault locks none. *)
LEMMA CloseVaultLock ==
  ASSUME TypeOK, NEW v \in VaultIds, CloseVault(v)
  PROVE  NoNewLock /\ \A w \in VaultIds : w # v => vault'[w] = vault[w]
BY DEF CloseVault, NoNewLock, TypeOK, VaultTypes

(* leave_network and prune_gateway take free ids, and what they lock goes  *)
(* with the gateway's leave_timestamp.                                     *)
LEMMA ExitLock ==
  ASSUME TypeOK, TypeOK', LockedLeaving, NEW g \in Operators, NEW amount \in Nat,
         Joined(g), UNCHANGED now, MarkLeaving(g), OpenExitVaults(g, amount)
  PROVE  LockedLeaving' /\ \A v \in VaultIds : Open(v) => vault'[v] = vault[v]
<1>. DEFINE protected == MinOf(amount, MinOperatorStake)
            excess == SatSub(amount, MinOperatorStake)
            exit == <<g, next_id[g]>>
            other == <<g, next_id[g] + 1>>
            exitVault == VaultOf(g, IF protected > 0 THEN LeavePeriod ELSE 0, FALSE, protected > 0)
            otherVault == VaultOf(g, withdrawal_period, FALSE, FALSE)
<1>1. /\ exit \in VaultIds
      /\ ~Open(exit)
      /\ excess > 0 => other \in VaultIds /\ ~Open(other)
      /\ vault' = [v \in VaultIds |->
             CASE v = exit -> exitVault
               [] v = other /\ excess > 0 -> otherVault
               [] OTHER -> vault[v]]
  BY DEF OpenExitVaults
<1>2. /\ exitVault.gateway = g
      /\ exitVault.is_protected => exitVault.available_at = now + LeavePeriod
      /\ ~otherVault.is_protected
  BY DEF VaultOf
<1>3. now \in Nat /\ LeavePeriod \in Nat
  BY PeriodAssumption, BoundAssumption DEF TypeOK, ClockTypes
<1>4. /\ status' = [status EXCEPT ![g] = "Leaving"]
      /\ leave_timestamp' = [leave_timestamp EXCEPT ![g] = now]
      /\ status \in [Operators -> {"None", "Joined", "Leaving"}]
      /\ leave_timestamp \in [Operators -> Nat \cup {None}]
  BY DEF MarkLeaving, TypeOK, GatewayTypes
<1>5. exit # other
  BY SetAssumption DEF TypeOK, VaultTypes
<1>. HIDE DEF exit, other, excess, protected, exitVault, otherVault
<1>6. /\ vault'[exit] = exitVault
      /\ excess > 0 => vault'[other] = otherVault
      /\ \A v \in VaultIds : v # exit /\ ~(v = other /\ excess > 0) => vault'[v] = vault[v]
  BY <1>1, <1>5
<1>7. \A v \in VaultIds : Open(v) => vault'[v] = vault[v]
  BY <1>1, <1>6
<1>8. ASSUME NEW v \in VaultIds, Locked(v)'
      PROVE  /\ status'[vault'[v].gateway] = "Leaving"
             /\ vault'[v].available_at <= leave_timestamp'[vault'[v].gateway] + LeavePeriod
  <2>1. CASE v = exit
    BY <1>2, <1>3, <1>4, <1>6, <1>8, <2>1 DEF Locked
  <2>2. CASE v = other /\ excess > 0
    BY <1>2, <1>6, <1>8, <2>2 DEF Locked
  <2>3. CASE v # exit /\ ~(v = other /\ excess > 0)
    <3>1. vault'[v] = vault[v]
      BY <1>6, <2>3
    <3>2. Locked(v)
      BY <1>8, <3>1 DEF Locked, Open
    <3>3. /\ status[vault[v].gateway] = "Leaving"
          /\ vault[v].available_at <= leave_timestamp[vault[v].gateway] + LeavePeriod
          /\ vault[v].gateway \in Operators
      BY <3>2 DEF LockedLeaving, Locked, Open, TypeOK, VaultTypes, VaultRecord
    <3>4. vault[v].gateway # g
      BY <3>3 DEF Joined
    <3>. QED BY <1>4, <3>1, <3>3, <3>4
  <2>. QED BY <2>1, <2>2, <2>3
<1>. QED BY <1>7, <1>8 DEF LockedLeaving

\* What no step does to a vault that is locked and holds tokens.
LocksKept ==
    \A v \in VaultIds : Locked(v) /\ vault_amount[v] > 0 => vault'[v] = vault[v]

(* Every step keeps the locks, and what the locks rest on. *)
LEMMA LockStep ==
  TypeOK /\ LockedLeaving /\ [Next]_vars => LockedLeaving' /\ LocksKept
<1>. SUFFICES ASSUME TypeOK, LockedLeaving, [Next]_vars
              PROVE  LockedLeaving' /\ LocksKept
  OBVIOUS
<1>. USE DEF clockVars, tokenVars, counterVars, stakeVars, gatewayVars,
             delegationVars, vaultVars, otherVars
<1>a. TypeOK'
  BY TypeStep
<1>b. /\ now \in Nat
      /\ status \in [Operators -> {"None", "Joined", "Leaving"}]
      /\ leave_timestamp \in [Operators -> Nat \cup {None}]
      /\ vault \in [VaultIds -> VaultRecord \cup {NoVault}]
      /\ LeavePeriod \in Nat /\ EpochWindow \in Nat
  BY PeriodAssumption, BoundAssumption DEF TypeOK, ClockTypes, GatewayTypes, VaultTypes
<1>1. ASSUME NoNewLock, \A v \in VaultIds : Open(v) => vault'[v] = vault[v],
             UNCHANGED <<now, status, leave_timestamp>>
      PROVE  LockedLeaving' /\ LocksKept
  <2>1. LockedLeaving'
    BY <1>a, <1>b, <1>1, LockKept
  <2>. QED BY <1>1, <2>1 DEF LocksKept, Locked
<1>2. ASSUME UNCHANGED <<now, status, leave_timestamp, vault>>
      PROVE  LockedLeaving' /\ LocksKept
  <2>1. NoNewLock /\ \A v \in VaultIds : Open(v) => vault'[v] = vault[v]
    BY <1>2 DEF NoNewLock
  <2>. QED BY <1>1, <1>2, <2>1
<1>3. ASSUME OperatorNext PROVE LockedLeaving' /\ LocksKept
  <2>. PICK g \in Operators :
         \/ \E stake \in Amounts, allow \in BOOLEAN, min \in MinDelegations :
              JoinNetwork(g, stake, allow, min)
         \/ \E amount \in Amounts :
              \/ IncreaseOperatorStake(g, amount)
              \/ DecreaseOperatorStake(g, amount)
              \/ DeductOperatorStakeForPayment(g, amount)
         \/ LeaveNetwork(g)
         \/ PruneGateway(g)
         \/ FinalizeGone(g)
         \/ \E allow \in BOOLEAN, min \in MinDelegations :
              UpdateGatewaySettings(g, allow, min)
         \/ \E enabled \in AllowlistChoices : SetAllowlistEnabled(g, enabled)
    BY <1>3 DEF OperatorNext
  <2>0. operator_stake[g] \in Nat
    BY DEF TypeOK, StakeTypes
  <2>1. CASE \E stake \in Amounts, allow \in BOOLEAN, min \in MinDelegations :
               JoinNetwork(g, stake, allow, min)
    <3>1. /\ status[g] = "None"
          /\ status' = [status EXCEPT ![g] = "Joined"]
          /\ leave_timestamp' = [leave_timestamp EXCEPT ![g] = None]
          /\ UNCHANGED <<now, vault>>
      BY <1>b, <2>1 DEF JoinNetwork, Exists
    <3>2. \A h \in Operators : status[h] = "Leaving" =>
             status'[h] = status[h] /\ leave_timestamp'[h] = leave_timestamp[h]
      BY <1>b, <3>1
    <3>3. LockedLeaving'
      BY <1>a, <1>b, <3>1, <3>2, LockKept DEF NoNewLock
    <3>. QED BY <3>1, <3>3 DEF LocksKept
  <2>2. CASE \E amount \in Amounts : DecreaseOperatorStake(g, amount)
    <3>1. PICK amount \in Amounts : DecreaseOperatorStake(g, amount)
      BY <2>2
    <3>2. OpenVault(g, g, amount, FALSE) /\ UNCHANGED <<now, status, leave_timestamp>>
      BY <3>1 DEF DecreaseOperatorStake
    <3>. QED BY <1>1, <3>2, OpenVaultLock
  <2>3. CASE LeaveNetwork(g)
    <3>1. /\ Joined(g) /\ MarkLeaving(g) /\ OpenExitVaults(g, operator_stake[g])
          /\ UNCHANGED now
      BY <2>3 DEF LeaveNetwork
    <3>2. LockedLeaving' /\ \A v \in VaultIds : Open(v) => vault'[v] = vault[v]
      BY <1>a, <2>0, <3>1, ExitLock
    <3>. QED BY <3>2 DEF LocksKept, Locked
  <2>4. CASE PruneGateway(g)
    <3>. DEFINE rest == SatSub(operator_stake[g], MinOf(MinOperatorStake, operator_stake[g]))
    <3>1. /\ Joined(g) /\ MarkLeaving(g) /\ OpenExitVaults(g, rest)
          /\ UNCHANGED now
      BY <2>4 DEF PruneGateway
    <3>2. rest \in Nat
      <4>1. MinOf(MinOperatorStake, operator_stake[g]) \in Nat
        BY <2>0, LimitAssumption DEF MinOf
      <4>. QED BY <2>0, <4>1, SatSubNat
    <3>. HIDE DEF rest
    <3>3. LockedLeaving' /\ \A v \in VaultIds : Open(v) => vault'[v] = vault[v]
      BY <1>a, <3>1, <3>2, ExitLock
    <3>. QED BY <3>3 DEF LocksKept, Locked
  <2>5. CASE FinalizeGone(g)
    <3>1. /\ status[g] = "Leaving"
          /\ now >= leave_timestamp[g] + LeavePeriod + EpochWindow
          /\ status' = [status EXCEPT ![g] = "None"]
          /\ leave_timestamp' = [leave_timestamp EXCEPT ![g] = None]
          /\ UNCHANGED <<now, vault>>
      BY <2>5 DEF FinalizeGone, MayFinalize, FinalizeExpiry
    <3>2. ASSUME NEW v \in VaultIds, Locked(v)'
          PROVE  /\ status'[vault'[v].gateway] = "Leaving"
                 /\ vault'[v].available_at <= leave_timestamp'[vault'[v].gateway] + LeavePeriod
      <4>1. Locked(v) /\ vault[v] \in VaultRecord
        BY <1>b, <3>1, <3>2 DEF Locked, Open
      <4>2. /\ status[vault[v].gateway] = "Leaving"
            /\ vault[v].available_at <= leave_timestamp[vault[v].gateway] + LeavePeriod
            /\ vault[v].gateway \in Operators /\ vault[v].available_at \in Nat
            /\ now < vault[v].available_at
        BY <4>1 DEF LockedLeaving, Locked, VaultRecord
      <4>3. leave_timestamp[vault[v].gateway] \in Int
        BY <1>b, <4>2 DEF None
      <4>4. vault[v].gateway # g
        BY <1>b, <3>1, <4>2, <4>3
      <4>. QED BY <1>b, <3>1, <4>2, <4>4
    <3>. QED BY <3>1, <3>2 DEF LockedLeaving, LocksKept
  <2>6. CASE UNCHANGED <<now, status, leave_timestamp, vault>>
    BY <1>2, <2>6
  <2>. QED BY <2>1, <2>2, <2>3, <2>4, <2>5, <2>6 DEF IncreaseOperatorStake,
             DeductOperatorStakeForPayment, UpdateGatewaySettings, SetAllowlistEnabled
<1>4. ASSUME DelegatorNext PROVE LockedLeaving' /\ LocksKept
  <2>. PICK g \in Operators, d \in Accounts :
         \/ \E amount \in Amounts :
              \/ DelegateStake(d, g, amount)
              \/ DecreaseDelegateStake(d, g, amount)
              \/ DeductDelegationForPayment(d, g, amount)
              \/ \E h \in Operators : RedelegateStake(d, g, h, amount)
         \/ ClaimDelegateFromLeavingGateway(g, d)
         \/ ClaimDelegateFromDisabledGateway(g, d)
         \/ CloseEmptyDelegation(g, d)
         \/ CompoundDelegationRewards(g, d)
         \/ AllowDelegate(g, d)
         \/ DisallowDelegate(g, d)
    BY <1>4 DEF DelegatorNext
  <2>1. CASE \E amount : DelegationToVault(g, d, amount)
    <3>1. PICK amount : DelegationToVault(g, d, amount)
      BY <2>1
    <3>2. OpenVault(d, g, amount, TRUE) /\ UNCHANGED <<now, status, leave_timestamp>>
      BY <3>1 DEF DelegationToVault
    <3>. QED BY <1>1, <3>2, OpenVaultLock
  <2>2. CASE UNCHANGED <<now, status, leave_timestamp, vault>>
    BY <1>2, <2>2
  <2>. QED BY <2>1, <2>2 DEF DelegateStake, DecreaseDelegateStake,
             DeductDelegationForPayment, RedelegateStake,
             ClaimDelegateFromLeavingGateway, ClaimDelegateFromDisabledGateway,
             CloseEmptyDelegation, CompoundDelegationRewards, AllowDelegate,
             DisallowDelegate
<1>5. ASSUME VaultNext PROVE LockedLeaving' /\ LocksKept
  <2>. PICK v \in VaultIds :
         \/ ClaimWithdrawal(v)
         \/ InstantWithdrawal(v)
         \/ CloseDrainedWithdrawal(v)
         \/ CancelOperatorWithdrawal(v)
         \/ CancelDelegateWithdrawal(v)
         \/ \E amount \in Amounts : DeductWithdrawalForPayment(v, amount)
    BY <1>5 DEF VaultNext
  <2>1. UNCHANGED <<now, status, leave_timestamp>>
    BY DEF ClaimWithdrawal, InstantWithdrawal, CloseDrainedWithdrawal,
       CancelOperatorWithdrawal, CancelDelegateWithdrawal, DeductWithdrawalForPayment
  <2>2. CASE UNCHANGED vault
    BY <1>2, <2>1, <2>2
  <2>3. CASE /\ CloseVault(v)
             /\ Open(v)
             /\ \/ now >= vault[v].available_at
                \/ ~vault[v].is_protected
                \/ vault_amount[v] = 0
                \/ status[vault[v].gateway] = "Joined"
    <3>1. NoNewLock /\ \A w \in VaultIds : w # v => vault'[w] = vault[w]
      BY <2>3, CloseVaultLock
    <3>2. LockedLeaving'
      BY <1>a, <1>b, <2>1, <3>1, LockKept
    <3>3. Locked(v) /\ vault_amount[v] > 0 => FALSE
      <4>1. Locked(v) => now < vault[v].available_at /\ vault[v].is_protected
                         /\ status[vault[v].gateway] = "Leaving"
        BY DEF Locked, LockedLeaving
      <4>2. vault[v].available_at \in Nat
        BY <1>b, <2>3 DEF Open, VaultRecord
      <4>. QED BY <1>b, <2>3, <4>1, <4>2
    <3>. QED BY <3>1, <3>2, <3>3 DEF LocksKept
  <2>. QED BY <2>2, <2>3 DEF ClaimWithdrawal, InstantWithdrawal, CloseDrainedWithdrawal,
       CancelOperatorWithdrawal, CancelDelegateWithdrawal, DeductWithdrawalForPayment,
       Joined, Accepts
<1>6. ASSUME PlanNext PROVE LockedLeaving' /\ LocksKept
  <2>. PICK a \in Accounts, p \in Plans :
         \E slot \in PlanSlots(a, p) : PayFromFundingPlan(a, p, slot)
    BY <1>6 DEF PlanNext
  <2>. PICK slot \in PlanSlots(a, p) : PayFromFundingPlan(a, p, slot)
    OBVIOUS
  <2>1. UNCHANGED <<now, status, leave_timestamp>>
    BY DEF PayFromFundingPlan
  <2>. QED BY <1>1, <2>1, PlanLock
<1>7. ASSUME \/ \E o \in [Operators -> Outcomes] : DistributeEpoch(o)
             \/ \E period \in Periods : AdminSetWithdrawalPeriod(period)
             \/ UNCHANGED vars
      PROVE  LockedLeaving' /\ LocksKept
  <2>1. UNCHANGED <<now, status, leave_timestamp, vault>>
    BY <1>7 DEF DistributeEpoch, AdminSetWithdrawalPeriod, vars
  <2>. QED BY <1>2, <2>1
<1>8. ASSUME Tick PROVE LockedLeaving' /\ LocksKept
  <2>1. now' = now + 1 /\ UNCHANGED <<status, leave_timestamp, vault>>
    BY <1>8 DEF Tick
  <2>2. LockedLeaving'
    BY <1>a, <1>b, <2>1, LockKept DEF NoNewLock
  <2>. QED BY <2>1, <2>2 DEF LocksKept
<1>. QED BY <1>3, <1>4, <1>5, <1>6, <1>7, <1>8 DEF Next

(* A locked vault's gateway is leaving, in every reachable state. *)
LEMMA LockedLeavingHolds == Spec => []LockedLeaving
<1>1. Init => LockedLeaving
  BY DEF Init, LockedLeaving, Locked, Open
<1>. QED BY <1>1, LockStep, TypeCorrect, PTL DEF Spec

(***************************************************************************)
(* An operator's minimum stake stays where it is for the whole leave       *)
(* period: no sequence of claiming, cancelling, leaving, being finalized   *)
(* and joining again closes its vault earlier or changes its terms.        *)
(***************************************************************************)
THEOREM ProtectedUntilUnlockHolds == Spec => ProtectedUntilUnlock
<1>1. TypeOK /\ LockedLeaving /\ [Next]_vars =>
        [ \A v \in VaultIds :
          (/\ Open(v)
           /\ vault[v].is_protected
           /\ vault_amount[v] > 0
           /\ now < vault[v].available_at) => vault'[v] = vault[v] ]_vars
  BY LockStep DEF LocksKept, Locked
<1>. QED BY <1>1, TypeCorrect, LockedLeavingHolds, PTL DEF Spec, ProtectedUntilUnlock

-----------------------------------------------------------------------------
(***************************************************************************)
(* What a step does to the principal of one delegation.  Unless rewards    *)
(* are distributed, the principal stays, it is lowered to nothing or to    *)
(* the gateway's minimum at least, or it is raised: then the gateway       *)
(* accepts stake, and its allowlist lets the delegator in or the stake     *)
(* returns from the delegator's own vault.                                 *)
(***************************************************************************)
Stays(g, d) == Principal(g, d)' = Principal(g, d)

Lowered(g, d) ==
    /\ Principal(g, d)' < Principal(g, d)
    /\ del_amount'[<<g, d>>] = 0 \/ del_amount'[<<g, d>>] >= settings[g].min_delegation

Returning(g, d) ==
    \E v \in VaultIds :
      v[1] = d /\ Open(v) /\ vault[v].gateway = g /\ vault_amount[v] > 0

Raised(g, d) ==
    /\ Principal(g, d)' > Principal(g, d)
    /\ Accepts(g)
    /\ MayEnter(g, d) \/ Returning(g, d)

Moves == \A g \in Operators, d \in Accounts : Stays(g, d) \/ Lowered(g, d) \/ Raised(g, d)

(* A delegation that a step does not touch keeps its principal. *)
LEMMA Untouched ==
  ASSUME NEW g, NEW d,
         del_amount'[<<g, d>>] = del_amount[<<g, d>>],
         \/ /\ reward_debt'[<<g, d>>] = reward_debt[<<g, d>>]
            /\ cumulative_reward'[g] = cumulative_reward[g]
         \/ del_amount[<<g, d>>] = 0
  PROVE  Principal(g, d)' = Principal(g, d)
BY DEF Principal, Pending

(* A settled delegation has nothing pending. *)
LEMMA SettledPrincipal ==
  ASSUME TypeOK, NEW g \in Operators, NEW d \in Accounts, NEW p \in Nat,
         del_amount'[<<g, d>>] = p, reward_debt'[<<g, d>>] = cumulative_reward[g],
         cumulative_reward'[g] = cumulative_reward[g]
  PROVE  Principal(g, d)' = p
<1>1. cumulative_reward[g] \in Nat
  BY DEF TypeOK, StakeTypes
<1>2. Pending(g, d)' = 0
  BY <1>1 DEF Pending
<1>. QED BY <1>2 DEF Principal

(* Settling one delegation leaves the others as they are. *)
LEMMA SetOnePrincipal ==
  ASSUME TypeOK, NEW g \in Operators, NEW d \in Accounts, NEW p \in Nat,
         SetPrincipal(g, d, p), UNCHANGED cumulative_reward
  PROVE  /\ del_amount'[<<g, d>>] = p
         /\ Principal(g, d)' = p
         /\ \A k \in Operators, e \in Accounts : <<k, e>> # <<g, d>> => Stays(k, e)
<1>1. /\ del_amount \in [Pairs -> Nat] /\ reward_debt \in [Pairs -> Nat]
      /\ <<g, d>> \in Pairs
      /\ del_amount' = [del_amount EXCEPT ![<<g, d>>] = p]
      /\ reward_debt' = [reward_debt EXCEPT ![<<g, d>>] = cumulative_reward[g]]
  BY PairIn DEF TypeOK, DelegationTypes, SetPrincipal
<1>2. del_amount'[<<g, d>>] = p /\ reward_debt'[<<g, d>>] = cumulative_reward[g]
  BY <1>1
<1>3. Principal(g, d)' = p
  BY <1>2, SettledPrincipal
<1>4. ASSUME NEW k \in Operators, NEW e \in Accounts, <<k, e>> # <<g, d>>
      PROVE  Stays(k, e)
  <2>1. del_amount'[<<k, e>>] = del_amount[<<k, e>>]
    BY <1>1, <1>4
  <2>2. reward_debt'[<<k, e>>] = reward_debt[<<k, e>>]
    BY <1>1, <1>4
  <2>. QED BY <2>1, <2>2, Untouched DEF Stays
<1>. QED BY <1>2, <1>3, <1>4

(* One delegation moves. *)
LEMMA OneMoves ==
  ASSUME TypeOK, NEW g \in Operators, NEW d \in Accounts, NEW p \in Nat,
         SetPrincipal(g, d, p), UNCHANGED cumulative_reward,
         \/ p = Principal(g, d)
         \/ p < Principal(g, d) /\ (p = 0 \/ p >= settings[g].min_delegation)
         \/ p > Principal(g, d) /\ Accepts(g) /\ (MayEnter(g, d) \/ Returning(g, d))
  PROVE  Moves
<1>1. Stays(g, d) \/ Lowered(g, d) \/ Raised(g, d)
  BY SetOnePrincipal DEF Stays, Lowered, Raised
<1>2. \A k \in Operators, e \in Accounts : <<k, e>> # <<g, d>> => Stays(k, e)
  BY SetOnePrincipal
<1>. QED BY <1>1, <1>2 DEF Moves

(* redelegate_stake lowers one delegation and raises another. *)
LEMMA RedelegateMoves ==
  ASSUME TypeOK, NEW d \in Accounts, NEW g \in Operators,
         NEW h \in Operators, NEW amount \in Amounts, RedelegateStake(d, g, h, amount)
  PROVE  Moves
<1>. DEFINE fee == (amount * FeeRate(d)) \div RateScale
            net == SatSub(amount, fee)
            remaining == Principal(g, d) - amount
            raised == Principal(h, d) + net
<1>1. /\ amount > 0 /\ g # h /\ Accepts(h) /\ MayEnter(h, d)
      /\ remaining >= 0 /\ net > 0
      /\ remaining = 0 \/ remaining >= settings[g].min_delegation
      /\ del_amount' = [del_amount EXCEPT ![<<g, d>>] = remaining, ![<<h, d>>] = raised]
      /\ reward_debt' = [reward_debt EXCEPT
           ![<<g, d>>] = cumulative_reward[g], ![<<h, d>>] = cumulative_reward[h]]
      /\ UNCHANGED cumulative_reward
  BY DEF RedelegateStake
<1>2. amount \in Nat /\ FeeRate(d) \in Nat /\ RateScale \in Nat \ {0}
  BY InputAssumption, FeeRateNat, ScaleAssumption
<1>3. fee \in Nat
  BY <1>2, DivNat
<1>4. net \in Nat
  BY <1>2, <1>3, SatSubNat
<1>5. /\ Principal(g, d) \in Nat /\ Principal(h, d) \in Nat
      /\ del_amount \in [Pairs -> Nat] /\ reward_debt \in [Pairs -> Nat]
      /\ <<g, d>> \in Pairs /\ <<h, d>> \in Pairs /\ <<g, d>> # <<h, d>>
  BY <1>1, PendingNat, PairIn DEF TypeOK, DelegationTypes
<1>6. remaining \in Nat /\ remaining < Principal(g, d) /\ raised \in Nat /\ raised > Principal(h, d)
  BY <1>1, <1>2, <1>4, <1>5
<1>. HIDE DEF remaining, raised, net, fee
<1>7. /\ del_amount'[<<g, d>>] = remaining /\ reward_debt'[<<g, d>>] = cumulative_reward[g]
      /\ del_amount'[<<h, d>>] = raised /\ reward_debt'[<<h, d>>] = cumulative_reward[h]
      /\ \A q \in Pairs : q # <<g, d>> /\ q # <<h, d>> =>
           del_amount'[q] = del_amount[q] /\ reward_debt'[q] = reward_debt[q]
  BY <1>1, <1>5
<1>8. Principal(g, d)' = remaining /\ Principal(h, d)' = raised
  BY <1>1, <1>6, <1>7, SettledPrincipal
<1>9. Lowered(g, d) /\ Raised(h, d)
  BY <1>1, <1>6, <1>7, <1>8 DEF Lowered, Raised
<1>10. ASSUME NEW k \in Operators, NEW e \in Accounts, <<k, e>> # <<g, d>>, <<k, e>> # <<h, d>>
       PROVE  Stays(k, e)
  <2>1. /\ del_amount'[<<k, e>>] = del_amount[<<k, e>>]
        /\ reward_debt'[<<k, e>>] = reward_debt[<<k, e>>]
    BY <1>7, <1>10, PairIn
  <2>. QED BY <1>1, <2>1, Untouched DEF Stays
<1>. QED BY <1>9, <1>10 DEF Moves

(* A funding plan empties a delegation that it would leave under the       *)
(* minimum.                                                                *)
LEMMA PlanMoves ==
  ASSUME TypeOK, NEW a \in Accounts, NEW p \in Plans, NEW slot \in PlanSlots(a, p),
         PayFromFundingPlan(a, p, slot)
  PROVE  Moves
<1>1. /\ PlanAllowed(a, p)
      /\ del_amount' = [q \in Pairs |->
           IF q[2] = a /\ p.delegation[q[1]] > 0
             THEN PlanPost(a, p, q[1]) - PlanResidue(a, p, q[1])
             ELSE del_amount[q]]
      /\ reward_debt' = [q \in Pairs |->
           IF q[2] = a /\ p.delegation[q[1]] > 0
             THEN cumulative_reward[q[1]] ELSE reward_debt[q]]
      /\ UNCHANGED cumulative_reward
  BY DEF PayFromFundingPlan
<1>2. SUFFICES ASSUME NEW g \in Operators, NEW d \in Accounts
               PROVE  Stays(g, d) \/ Lowered(g, d)
  BY DEF Moves
<1>3. <<g, d>> \in Pairs
  BY PairIn
<1>4. CASE d = a /\ p.delegation[g] > 0
  <2>. DEFINE left == PlanPost(a, p, g) - PlanResidue(a, p, g)
  <2>1. /\ PlanPost(a, p, g) \in Nat /\ PlanResidue(a, p, g) \in Nat
        /\ PlanResidue(a, p, g) <= PlanPost(a, p, g)
        /\ p.delegation \in [Operators -> Nat]
    BY <1>1, PlanNat
  <2>2. PlanPost(a, p, g) = Principal(g, a) - p.delegation[g]
    <3>1. PlanPost(a, p, g) = del_amount[<<g, a>>] + Pending(g, a) - p.delegation[g]
      BY <1>4 DEF PlanPost, PlanSettled
    <3>2. Principal(g, a) = del_amount[<<g, a>>] + Pending(g, a)
      BY DEF Principal
    <3>3. /\ del_amount[<<g, a>>] \in Nat /\ Pending(g, a) \in Nat
          /\ p.delegation[g] \in Nat
      BY <2>1, PendingNat
    <3>. QED BY <3>1, <3>2, <3>3
  <2>3. left \in Nat /\ left < Principal(g, a)
    <3>1. Principal(g, a) \in Nat /\ p.delegation[g] \in Nat /\ p.delegation[g] > 0
      BY <1>4, <2>1, PendingNat
    <3>. QED BY <2>1, <2>2, <3>1
  <2>4. left = 0 \/ left >= settings[g].min_delegation
    <3>1. settings[g].min_delegation \in Nat
      BY DEF TypeOK, GatewayTypes, SettingsRecord
    <3>2. PlanResidue(a, p, g) = IF PlanPost(a, p, g) < settings[g].min_delegation
                                   THEN PlanPost(a, p, g) ELSE 0
      BY <1>4 DEF PlanResidue
    <3>. QED BY <2>1, <3>1, <3>2
  <2>5. del_amount'[<<g, a>>] = left /\ reward_debt'[<<g, a>>] = cumulative_reward[g]
    BY <1>1, <1>3, <1>4
  <2>. HIDE DEF left
  <2>6. Principal(g, a)' = left
    BY <1>1, <2>3, <2>5, SettledPrincipal
  <2>. QED BY <1>4, <2>3, <2>4, <2>5, <2>6 DEF Lowered
<1>5. CASE ~(d = a /\ p.delegation[g] > 0)
  <2>1. /\ del_amount'[<<g, d>>] = del_amount[<<g, d>>]
        /\ reward_debt'[<<g, d>>] = reward_debt[<<g, d>>]
    BY <1>1, <1>3, <1>5
  <2>. QED BY <1>1, <2>1, Untouched DEF Stays
<1>. QED BY <1>4, <1>5

\* The types of the delegations' principals.
PrincipalsNat ==
    \A g \in Operators, d \in Accounts :
      /\ Principal(g, d) \in Nat /\ Pending(g, d) \in Nat /\ del_amount[<<g, d>>] \in Nat
      /\ Principal(g, d) = del_amount[<<g, d>>] + Pending(g, d)

(* Principals are natural numbers after a step as before it. *)
LEMMA PrincipalNext == TypeOK' => PrincipalsNat'
<1>1. TypeOK => PrincipalsNat
  BY PendingNat DEF PrincipalsNat, Principal
<1>. QED BY <1>1, PTL

(* An account with nothing committed to a gateway has no stake there and   *)
(* none that could return.                                                 *)
LEMMA NothingCommitted ==
  ASSUME TypeOK, NEW g \in Operators, NEW d \in Accounts, Committed(g, d) = 0
  PROVE  Principal(g, d) = 0 /\ ~Returning(g, d)
<1>. DEFINE Ids == 0 .. MaxVaults - 1
            f == [i \in Ids |-> IF Open(<<d, i>>) /\ vault[<<d, i>>].gateway = g
                                  THEN vault_amount[<<d, i>>] ELSE 0]
<1>1. \A i \in Ids : <<d, i>> \in VaultIds
  BY DEF VaultIds
<1>2. f \in [Ids -> Nat]
  BY <1>1 DEF TypeOK, VaultTypes
<1>3. Committed(g, d) = Principal(g, d) + Total(f, Ids)
  BY DEF Committed
<1>4. Principal(g, d) \in Nat
  BY PendingNat
<1>5. \A v \in VaultIds : v[1] = d /\ Open(v) /\ vault[v].gateway = g =>
         v[2] \in Ids /\ f[v[2]] = vault_amount[v]
  BY DEF VaultIds
<1>6. IsFiniteSet(Ids)
  BY Finite
<1>. HIDE DEF f, Ids
<1>7. Total(f, Ids) \in Nat /\ \A i \in Ids : f[i] \in Nat /\ f[i] <= Total(f, Ids)
  BY <1>2, <1>6, TotalNat
<1>8. Principal(g, d) = 0 /\ Total(f, Ids) = 0
  BY <1>3, <1>4, <1>7
<1>9. \A i \in Ids : f[i] = 0
  BY <1>7, <1>8
<1>. QED BY <1>5, <1>8, <1>9 DEF Returning

(* A step that leaves the delegations and the accumulators alone. *)
LEMMA NothingMoves ==
  ASSUME UNCHANGED <<del_amount, reward_debt, cumulative_reward>>
  PROVE  Moves
<1>1. ASSUME NEW g \in Operators, NEW d \in Accounts PROVE Stays(g, d)
  BY Untouched DEF Stays
<1>. QED BY <1>1 DEF Moves

(* A step that resets the accumulator of a gateway that has no delegations. *)
LEMMA ResetMoves ==
  ASSUME TypeOK, NEW g \in Operators, UNCHANGED <<del_amount, reward_debt>>,
         cumulative_reward' = [cumulative_reward EXCEPT ![g] = 0],
         \A d \in Accounts : del_amount[<<g, d>>] = 0
  PROVE  Moves
<1>1. ASSUME NEW k \in Operators, NEW d \in Accounts PROVE Stays(k, d)
  <2>1. k # g => cumulative_reward'[k] = cumulative_reward[k]
    BY DEF TypeOK, StakeTypes
  <2>2. del_amount'[<<k, d>>] = del_amount[<<k, d>>] /\ reward_debt'[<<k, d>>] = reward_debt[<<k, d>>]
    OBVIOUS
  <2>3. cumulative_reward'[k] = cumulative_reward[k] \/ del_amount[<<k, d>>] = 0
    BY <2>1
  <2>. QED BY <2>2, <2>3, Untouched DEF Stays
<1>. QED BY <1>1 DEF Moves

(* Every step but a distribution moves the principals as Moves says. *)
LEMMA MovesStep ==
  TypeOK /\ DelegationInv /\ [Next]_vars =>
    Moves \/ \E o \in [Operators -> Outcomes] : DistributeEpoch(o)
<1>. SUFFICES ASSUME TypeOK, DelegationInv, [Next]_vars,
                     ~ \E o \in [Operators -> Outcomes] : DistributeEpoch(o)
              PROVE  Moves
  OBVIOUS
<1>. USE DEF clockVars, tokenVars, counterVars, stakeVars, gatewayVars,
             delegationVars, vaultVars, otherVars
<1>0. \A g \in Operators, d \in Accounts :
         /\ Principal(g, d) \in Nat /\ Pending(g, d) \in Nat
         /\ Principal(g, d) = del_amount[<<g, d>>] + Pending(g, d)
         /\ del_amount[<<g, d>>] \in Nat
  BY PendingNat DEF Principal
<1>b. \A amount \in Amounts : amount \in Nat
  BY InputAssumption
<1>1. ASSUME OperatorNext PROVE Moves
  <2>. PICK g \in Operators :
         \/ \E stake \in Amounts, allow \in BOOLEAN, min \in MinDelegations :
              JoinNetwork(g, stake, allow, min)
         \/ \E amount \in Amounts :
              \/ IncreaseOperatorStake(g, amount)
              \/ DecreaseOperatorStake(g, amount)
              \/ DeductOperatorStakeForPayment(g, amount)
         \/ LeaveNetwork(g)
         \/ PruneGateway(g)
         \/ FinalizeGone(g)
         \/ \E allow \in BOOLEAN, min \in MinDelegations :
              UpdateGatewaySettings(g, allow, min)
         \/ \E enabled \in AllowlistChoices : SetAllowlistEnabled(g, enabled)
    BY <1>1 DEF OperatorNext
  <2>1. CASE \E stake \in Amounts, allow \in BOOLEAN, min \in MinDelegations :
               JoinNetwork(g, stake, allow, min)
    <3>1. /\ ~Exists(g) /\ UNCHANGED <<del_amount, reward_debt>>
          /\ cumulative_reward' = [cumulative_reward EXCEPT ![g] = 0]
      BY <2>1 DEF JoinNetwork
    <3>2. \A d \in Accounts : del_amount[<<g, d>>] = 0
      <4>. SUFFICES ASSUME NEW d \in Accounts PROVE del_amount[<<g, d>>] = 0
        OBVIOUS
      <4>1. <<g, d>> \in Pairs /\ <<g, d>>[1] = g
        BY PairIn
      <4>2. ~(del_amount[<<g, d>>] > 0)
        BY <3>1, <4>1 DEF DelegationInv, NoStrandedDelegation
      <4>. QED BY <1>0, <4>2
    <3>. QED BY <3>1, <3>2, ResetMoves
  <2>2. CASE FinalizeGone(g)
    <3>1. /\ total_delegated_stake[g] = 0 /\ UNCHANGED <<del_amount, reward_debt>>
          /\ cumulative_reward' = [cumulative_reward EXCEPT ![g] = 0]
      BY <2>2 DEF FinalizeGone, MayFinalize
    <3>2. DelegatedTo(g) = 0
      BY <3>1 DEF DelegationInv, GatewayCounters
    <3>3. \A d \in Accounts : del_amount[<<g, d>>] = 0
      BY <1>0, <3>2, DelegatedNat
    <3>. QED BY <3>1, <3>3, ResetMoves
  <2>3. CASE UNCHANGED <<del_amount, reward_debt, cumulative_reward>>
    BY <2>3, NothingMoves
  <2>. QED BY <2>1, <2>2, <2>3 DEF IncreaseOperatorStake, DecreaseOperatorStake,
             DeductOperatorStakeForPayment, LeaveNetwork, PruneGateway,
             UpdateGatewaySettings, SetAllowlistEnabled
<1>2. ASSUME DelegatorNext PROVE Moves
  <2>. PICK g \in Operators, d \in Accounts :
         \/ \E amount \in Amounts :
              \/ DelegateStake(d, g, amount)
              \/ DecreaseDelegateStake(d, g, amount)
              \/ DeductDelegationForPayment(d, g, amount)
              \/ \E h \in Operators : RedelegateStake(d, g, h, amount)
         \/ ClaimDelegateFromLeavingGateway(g, d)
         \/ ClaimDelegateFromDisabledGateway(g, d)
         \/ CloseEmptyDelegation(g, d)
         \/ CompoundDelegationRewards(g, d)
         \/ AllowDelegate(g, d)
         \/ DisallowDelegate(g, d)
    BY <1>2 DEF DelegatorNext
  <2>0. /\ Principal(g, d) \in Nat /\ Pending(g, d) \in Nat /\ del_amount[<<g, d>>] \in Nat
        /\ Principal(g, d) = del_amount[<<g, d>>] + Pending(g, d)
    BY <1>0
  <2>1. CASE \E amount \in Amounts : DelegateStake(d, g, amount)
    <3>1. PICK amount \in Amounts : DelegateStake(d, g, amount)
      BY <2>1
    <3>2. /\ amount > 0 /\ Accepts(g) /\ MayEnter(g, d)
          /\ SetPrincipal(g, d, Principal(g, d) + amount)
          /\ UNCHANGED cumulative_reward
      BY <3>1 DEF DelegateStake
    <3>3. Principal(g, d) + amount \in Nat /\ Principal(g, d) + amount > Principal(g, d)
      <4>1. amount \in Nat
        BY <1>b
      <4>. QED BY <2>0, <3>2, <4>1
    <3>. QED BY <3>2, <3>3, OneMoves
  <2>2. CASE \E amount \in Amounts : DecreaseDelegateStake(d, g, amount)
    <3>1. PICK amount \in Amounts : DecreaseDelegateStake(d, g, amount)
      BY <2>2
    <3>. DEFINE left == Principal(g, d) - amount
    <3>2. /\ amount > 0 /\ left >= 0
          /\ left = 0 \/ left >= settings[g].min_delegation
          /\ SetPrincipal(g, d, left)
          /\ UNCHANGED cumulative_reward
      BY <3>1 DEF DecreaseDelegateStake, DelegationToVault
    <3>3. left \in Nat /\ left < Principal(g, d)
      <4>1. amount \in Nat
        BY <1>b
      <4>. QED BY <2>0, <3>2, <4>1
    <3>. HIDE DEF left
    <3>. QED BY <3>2, <3>3, OneMoves
  <2>3. CASE \E amount \in Amounts : DeductDelegationForPayment(d, g, amount)
    <3>1. PICK amount \in Amounts : DeductDelegationForPayment(d, g, amount)
      BY <2>3
    <3>. DEFINE left == Principal(g, d) - amount
    <3>2. /\ amount > 0 /\ left >= 0
          /\ left = 0 \/ left >= settings[g].min_delegation
          /\ SetPrincipal(g, d, left)
          /\ UNCHANGED cumulative_reward
      BY <3>1 DEF DeductDelegationForPayment
    <3>3. left \in Nat /\ left < Principal(g, d)
      <4>1. amount \in Nat
        BY <1>b
      <4>. QED BY <2>0, <3>2, <4>1
    <3>. HIDE DEF left
    <3>. QED BY <3>2, <3>3, OneMoves
  <2>4. CASE \E amount \in Amounts, h \in Operators : RedelegateStake(d, g, h, amount)
    BY <2>4, RedelegateMoves
  <2>5. CASE ClaimDelegateFromLeavingGateway(g, d) \/ ClaimDelegateFromDisabledGateway(g, d)
    <3>1. /\ del_amount[<<g, d>>] > 0
          /\ SetPrincipal(g, d, Principal(g, d) - Principal(g, d))
          /\ UNCHANGED cumulative_reward
      BY <2>5 DEF ClaimDelegateFromLeavingGateway, ClaimDelegateFromDisabledGateway,
                  DelegationToVault
    <3>2. Principal(g, d) - Principal(g, d) = 0 /\ 0 < Principal(g, d)
      BY <2>0, <3>1
    <3>3. SetPrincipal(g, d, 0)
      BY <3>1, <3>2
    <3>. QED BY <3>1, <3>2, <3>3, OneMoves
  <2>6. CASE CloseEmptyDelegation(g, d)
    <3>1. /\ del_amount[<<g, d>>] = 0
          /\ reward_debt' = [reward_debt EXCEPT ![<<g, d>>] = 0]
          /\ UNCHANGED <<del_amount, cumulative_reward>>
      BY <2>6 DEF CloseEmptyDelegation
    <3>2. ASSUME NEW k \in Operators, NEW e \in Accounts PROVE Stays(k, e)
      <4>1. <<k, e>> # <<g, d>> => reward_debt'[<<k, e>>] = reward_debt[<<k, e>>]
        BY <3>1, PairIn DEF TypeOK, DelegationTypes
      <4>2. \/ reward_debt'[<<k, e>>] = reward_debt[<<k, e>>] /\ cumulative_reward'[k] = cumulative_reward[k]
            \/ del_amount[<<k, e>>] = 0
        BY <3>1, <4>1
      <4>. QED BY <3>1, <4>2, Untouched DEF Stays
    <3>. QED BY <3>2 DEF Moves
  <2>7. CASE CompoundDelegationRewards(g, d)
    <3>1. SetPrincipal(g, d, Principal(g, d)) /\ UNCHANGED cumulative_reward
      BY <2>7 DEF CompoundDelegationRewards
    <3>. QED BY <1>0, <3>1, OneMoves
  <2>8. CASE UNCHANGED <<del_amount, reward_debt, cumulative_reward>>
    BY <2>8, NothingMoves
  <2>. QED BY <2>1, <2>2, <2>3, <2>4, <2>5, <2>6, <2>7, <2>8 DEF AllowDelegate, DisallowDelegate
<1>3. ASSUME VaultNext PROVE Moves
  <2>. PICK v \in VaultIds :
         \/ ClaimWithdrawal(v)
         \/ InstantWithdrawal(v)
         \/ CloseDrainedWithdrawal(v)
         \/ CancelOperatorWithdrawal(v)
         \/ CancelDelegateWithdrawal(v)
         \/ \E amount \in Amounts : DeductWithdrawalForPayment(v, amount)
    BY <1>3 DEF VaultNext
  <2>1. CASE CancelDelegateWithdrawal(v)
    <3>. DEFINE g == vault[v].gateway
                d == v[1]
    <3>1. /\ Open(v) /\ Accepts(g)
          /\ SetPrincipal(g, d, Principal(g, d) + vault_amount[v])
          /\ UNCHANGED cumulative_reward
      BY <2>1 DEF CancelDelegateWithdrawal
    <3>2. g \in Operators /\ d \in Accounts /\ vault_amount[v] \in Nat
      BY <3>1 DEF TypeOK, VaultTypes, VaultRecord, Open, VaultIds
    <3>3. vault_amount[v] > 0 => Returning(g, d)
      BY <3>1 DEF Returning
    <3>. HIDE DEF g, d
    <3>a. Principal(g, d) \in Nat
      BY <1>0, <3>2
    <3>4. Principal(g, d) + vault_amount[v] \in Nat
      BY <3>a, <3>2
    <3>5. \/ Principal(g, d) + vault_amount[v] = Principal(g, d)
          \/ Principal(g, d) + vault_amount[v] > Principal(g, d) /\ vault_amount[v] > 0
      BY <3>a, <3>2
    <3>. QED BY <3>1, <3>2, <3>3, <3>4, <3>5, OneMoves
  <2>2. CASE UNCHANGED <<del_amount, reward_debt, cumulative_reward>>
    BY <2>2, NothingMoves
  <2>. QED BY <2>1, <2>2 DEF ClaimWithdrawal, InstantWithdrawal, CloseDrainedWithdrawal,
             CancelOperatorWithdrawal, DeductWithdrawalForPayment
<1>4. ASSUME PlanNext PROVE Moves
  BY <1>4, PlanMoves DEF PlanNext
<1>5. ASSUME \/ \E period \in Periods : AdminSetWithdrawalPeriod(period)
             \/ Tick
             \/ UNCHANGED vars
      PROVE  Moves
  <2>1. UNCHANGED <<del_amount, reward_debt, cumulative_reward>>
    BY <1>5 DEF AdminSetWithdrawalPeriod, Tick, vars
  <2>. QED BY <2>1, NothingMoves
<1>. QED BY <1>1, <1>2, <1>3, <1>4, <1>5 DEF Next

(* A quotient grows with its dividend. *)
LEMMA DivMono ==
  ASSUME NEW x \in Nat, NEW y \in Nat, x <= y, NEW m \in Nat \ {0}
  PROVE  x \div m <= y \div m
OBVIOUS

(* A product grows with its factor. *)
LEMMA TimesGrows ==
  ASSUME NEW m \in Nat, NEW x \in Nat, NEW y \in Nat, x <= y
  PROVE  m * x \in Nat /\ m * y \in Nat /\ m * x <= m * y
OBVIOUS

(* A distribution lowers nobody's principal. *)
LEMMA DistributeGrows ==
  ASSUME TypeOK, TypeOK', DelegationInv, NEW o \in [Operators -> Outcomes], DistributeEpoch(o),
         NEW g \in Operators, NEW d \in Accounts
  PROVE  Principal(g, d)' >= Principal(g, d)
<1>. DEFINE x == del_amount[<<g, d>>]
            b == reward_debt[<<g, d>>]
            c == cumulative_reward[g]
            i == Increment(o, g)
<1>1. /\ del_amount'[<<g, d>>] = x /\ reward_debt'[<<g, d>>] = b
      /\ cumulative_reward'[g] = c + i
  BY DEF DistributeEpoch, delegationVars
<1>2. x \in Nat /\ b \in Nat /\ c \in Nat /\ i \in Nat /\ RewardPrecision \in Nat \ {0}
  BY PairIn, BatchNat, ScaleAssumption DEF TypeOK, DelegationTypes, StakeTypes
<1>3. Pending(g, d) = IF x > 0 /\ c > b THEN (x * (c - b)) \div RewardPrecision ELSE 0
  BY DEF Pending
<1>4. Pending(g, d)' = IF x > 0 /\ c + i > b THEN (x * ((c + i) - b)) \div RewardPrecision ELSE 0
  <2>1. Pending(g, d)' = IF del_amount'[<<g, d>>] > 0 /\ cumulative_reward'[g] > reward_debt'[<<g, d>>]
          THEN (del_amount'[<<g, d>>] * (cumulative_reward'[g] - reward_debt'[<<g, d>>]))
                 \div RewardPrecision
          ELSE 0
    BY DEF Pending
  <2>. HIDE DEF x, b, c, i
  <2>. QED BY <1>1, <2>1
<1>5. Principal(g, d) = x + Pending(g, d) /\ Principal(g, d)' = x + Pending(g, d)'
  BY <1>1 DEF Principal
<1>6. Pending(g, d) \in Nat
  BY PendingNat
<1>. HIDE DEF x, b, c, i
<1>7. CASE x > 0 /\ c > b
  <2>1. /\ c - b \in Nat /\ (c + i) - b \in Nat /\ c - b <= (c + i) - b /\ c + i > b
    BY <1>2, <1>7
  <2>2. /\ x * (c - b) \in Nat /\ x * ((c + i) - b) \in Nat
        /\ x * (c - b) <= x * ((c + i) - b)
    BY <1>2, <2>1, TimesGrows
  <2>3. (x * (c - b)) \div RewardPrecision <= (x * ((c + i) - b)) \div RewardPrecision
    BY <1>2, <2>2, DivMono
  <2>4. Pending(g, d) <= Pending(g, d)' /\ Pending(g, d)' \in Nat
    BY <1>2, <1>3, <1>4, <1>7, <2>1, <2>2, <2>3, DivNat
  <2>. QED BY <1>2, <1>5, <1>6, <2>4
<1>8. CASE ~(x > 0 /\ c > b)
  <2>1. Pending(g, d) = 0
    BY <1>3, <1>8
  <2>2. Pending(g, d)' \in Nat
    <3>1. CASE x > 0 /\ c + i > b
      <4>1. (c + i) - b \in Nat
        BY <1>2, <3>1
      <4>2. x * ((c + i) - b) \in Nat
        BY <1>2, <4>1
      <4>. QED BY <1>2, <1>4, <3>1, <4>2, DivNat
    <3>2. CASE ~(x > 0 /\ c + i > b)
      BY <1>4, <3>2
    <3>. QED BY <3>1, <3>2
  <2>. QED BY <1>2, <1>5, <2>1, <2>2
<1>. QED BY <1>7, <1>8

(***************************************************************************)
(* Whatever takes principal out of a delegation leaves it empty or at the  *)
(* gateway's minimum at least.                                             *)
(***************************************************************************)
THEOREM NoDustLeftHolds == Spec => NoDustLeft
<1>1. TypeOK /\ DelegationInv /\ [Next]_vars =>
        [ \A q \in Pairs :
          Principal(q[1], q[2])' < Principal(q[1], q[2]) =>
            \/ del_amount'[q] = 0
            \/ del_amount'[q] >= settings[q[1]].min_delegation ]_vars
  <2>. SUFFICES ASSUME TypeOK, DelegationInv, [Next]_vars, NEW q \in Pairs,
                       Principal(q[1], q[2])' < Principal(q[1], q[2])
                PROVE  \/ del_amount'[q] = 0
                       \/ del_amount'[q] >= settings[q[1]].min_delegation
    OBVIOUS
  <2>1. PICK g \in Operators, d \in Accounts : q = <<g, d>>
    BY DEF Pairs
  <2>2. Principal(g, d)' < Principal(g, d)
    BY <2>1
  <2>3. TypeOK'
    BY TypeStep
  <2>4. Principal(g, d) \in Nat
    BY PendingNat
  <2>5. CASE \E o \in [Operators -> Outcomes] : DistributeEpoch(o)
    <3>1. Principal(g, d)' >= Principal(g, d)
      BY <2>3, <2>5, DistributeGrows
    <3>2. Principal(g, d)' \in Nat
      BY <2>3, PrincipalNext DEF PrincipalsNat
    <3>. QED BY <2>2, <2>4, <3>1, <3>2
  <2>6. CASE Moves
    <3>1. Stays(g, d) \/ Lowered(g, d) \/ Raised(g, d)
      BY <2>6 DEF Moves
    <3>2. Principal(g, d)' \in Nat
      BY <2>3, PrincipalNext DEF PrincipalsNat
    <3>3. Lowered(g, d)
      BY <2>2, <2>4, <3>1, <3>2 DEF Stays, Raised
    <3>. QED BY <2>1, <3>3 DEF Lowered
  <2>. QED BY <2>5, <2>6, MovesStep
<1>. QED BY <1>1, TypeCorrect, DelegationHolds, PTL DEF Spec, NoDustLeft

(***************************************************************************)
(* While delegation to a gateway is switched off, what is staked with it   *)
(* only leaves: no deposit, redelegation or cancelled withdrawal adds to   *)
(* it.                                                                     *)
(***************************************************************************)
THEOREM DisabledOnlyDrainsHolds == Spec => DisabledOnlyDrains
<1>1. TypeOK /\ DelegationInv /\ [Next]_vars =>
        [ \A g \in Operators :
          (Exists(g) /\ ~settings[g].allow /\ rounds' = rounds) =>
            \A d \in Accounts :
              Principal(g, d)' <= Principal(g, d) ]_vars
  <2>. SUFFICES ASSUME TypeOK, DelegationInv, [Next]_vars, NEW g \in Operators,
                       ~settings[g].allow, rounds' = rounds, NEW d \in Accounts
                PROVE  Principal(g, d)' <= Principal(g, d)
    OBVIOUS
  <2>1. Principal(g, d) \in Nat
    BY PendingNat
  <2>2. ~ \E o \in [Operators -> Outcomes] : DistributeEpoch(o)
    <3>1. rounds \in Nat
      BY BoundAssumption DEF TypeOK, ClockTypes
    <3>2. ASSUME NEW o, DistributeEpoch(o) PROVE FALSE
      <4>1. rounds' = rounds + 1
        BY <3>2 DEF DistributeEpoch
      <4>. QED BY <3>1, <4>1
    <3>. QED BY <3>2
  <2>3. Stays(g, d) \/ Lowered(g, d) \/ Raised(g, d)
    BY <2>2, MovesStep DEF Moves
  <2>4. ~Raised(g, d)
    BY DEF Raised, Accepts
  <2>5. Principal(g, d)' \in Nat
    BY TypeStep, PrincipalNext DEF PrincipalsNat
  <2>. QED BY <2>1, <2>3, <2>4, <2>5 DEF Stays, Lowered
<1>. QED BY <1>1, TypeCorrect, DelegationHolds, PTL DEF Spec, DisabledOnlyDrains

(***************************************************************************)
(* A gateway's allowlist keeps newcomers out: an account that it does not  *)
(* name, with nothing staked there and nothing on its way out, gets no     *)
(* stake there by any instruction.                                         *)
(***************************************************************************)
THEOREM AllowlistKeepsOutHolds == Spec => AllowlistKeepsOut
<1>1. TypeOK /\ DelegationInv /\ [Next]_vars =>
        [ \A q \in Pairs :
          (/\ Exists(q[1])
           /\ settings[q[1]].allowlist
           /\ q \notin allowlist
           /\ Committed(q[1], q[2]) = 0) => del_amount'[q] = 0 ]_vars
  <2>. SUFFICES ASSUME TypeOK, DelegationInv, [Next]_vars, NEW q \in Pairs,
                       settings[q[1]].allowlist, q \notin allowlist,
                       Committed(q[1], q[2]) = 0
                PROVE  del_amount'[q] = 0
    OBVIOUS
  <2>1. PICK g \in Operators, d \in Accounts : q = <<g, d>>
    BY DEF Pairs
  <2>2. /\ settings[g].allowlist /\ <<g, d>> \notin allowlist
        /\ Committed(g, d) = 0
    BY <2>1
  <2>3. TypeOK'
    BY TypeStep
  <2>4. /\ Principal(g, d) \in Nat /\ Pending(g, d) \in Nat /\ del_amount[<<g, d>>] \in Nat
        /\ Principal(g, d) = del_amount[<<g, d>>] + Pending(g, d)
    BY PendingNat DEF Principal
  <2>5. /\ Principal(g, d)' \in Nat /\ Pending(g, d)' \in Nat /\ del_amount'[<<g, d>>] \in Nat
        /\ Principal(g, d)' = del_amount'[<<g, d>>] + Pending(g, d)'
    BY <2>3, PrincipalNext DEF PrincipalsNat
  <2>6. Principal(g, d) = 0 /\ ~Returning(g, d)
    BY <2>2, NothingCommitted
  <2>7. del_amount[<<g, d>>] = 0
    BY <2>4, <2>6
  <2>8. CASE \E o \in [Operators -> Outcomes] : DistributeEpoch(o)
    <3>1. UNCHANGED del_amount
      BY <2>8 DEF DistributeEpoch, delegationVars
    <3>. QED BY <2>1, <2>7, <3>1
  <2>9. CASE Moves
    <3>1. Stays(g, d) \/ Lowered(g, d) \/ Raised(g, d)
      BY <2>9 DEF Moves
    <3>2. ~MayEnter(g, d)
      BY <2>2, <2>7 DEF MayEnter
    <3>3. Principal(g, d)' = 0
      BY <2>5, <2>6, <3>1, <3>2 DEF Stays, Lowered, Raised
    <3>. QED BY <2>1, <2>5, <3>3
  <2>. QED BY <2>8, <2>9, MovesStep
<1>. QED BY <1>1, TypeCorrect, DelegationHolds, PTL DEF Spec, AllowlistKeepsOut

-----------------------------------------------------------------------------
(***************************************************************************)
(* Wealth.  What an account could take out has four parts; an instruction  *)
(* moves tokens between the parts of one account and leaves the other      *)
(* accounts aside.                                                         *)
(***************************************************************************)
StakeOf(a) == IF a \in Operators THEN operator_stake[a] ELSE 0

PrincipalsOf(a) == Total([g \in Operators |-> Principal(g, a)], Operators)

VaultsOf(a) ==
    Total([i \in 0 .. MaxVaults - 1 |-> vault_amount[<<a, i>>]], 0 .. MaxVaults - 1)

PartsNat ==
    \A a \in Accounts :
      /\ wallet[a] \in Nat /\ StakeOf(a) \in Nat
      /\ PrincipalsOf(a) \in Nat /\ VaultsOf(a) \in Nat
      /\ Wealth(a) = wallet[a] + StakeOf(a) + PrincipalsOf(a) + VaultsOf(a)

Aside(a) ==
    /\ wallet'[a] = wallet[a]
    /\ StakeOf(a)' = StakeOf(a)
    /\ PrincipalsOf(a)' = PrincipalsOf(a)
    /\ VaultsOf(a)' = VaultsOf(a)

NobodyRicher == \A a \in Accounts : Wealth(a)' <= Wealth(a)

(* The parts are natural numbers. *)
LEMMA PartsAreNat == TypeOK => PartsNat
<1>. SUFFICES ASSUME TypeOK, NEW a \in Accounts
              PROVE  /\ wallet[a] \in Nat /\ StakeOf(a) \in Nat
                     /\ PrincipalsOf(a) \in Nat /\ VaultsOf(a) \in Nat
                     /\ Wealth(a) = wallet[a] + StakeOf(a) + PrincipalsOf(a) + VaultsOf(a)
  BY DEF PartsNat
<1>. DEFINE Ids == 0 .. MaxVaults - 1
            f == [g \in Operators |-> Principal(g, a)]
            h == [i \in Ids |-> vault_amount[<<a, i>>]]
<1>1. wallet[a] \in Nat /\ StakeOf(a) \in Nat
  BY DEF TypeOK, TokenTypes, StakeTypes, StakeOf
<1>2. \A g \in Operators : f[g] \in Nat
  BY PendingNat
<1>3. \A i \in Ids : h[i] \in Nat
  BY DEF TypeOK, VaultTypes, VaultIds
<1>4. PrincipalsOf(a) = SumFunctionOnSet(f, Operators) /\ VaultsOf(a) = SumFunctionOnSet(h, Ids)
  BY DEF PrincipalsOf, VaultsOf, Total
<1>5. IsFiniteSet(Ids)
  BY Finite
<1>. HIDE DEF f, h, Ids
<1>6. PrincipalsOf(a) \in Nat
  BY <1>2, <1>4, Finite, SumNat
<1>7. VaultsOf(a) \in Nat
  BY <1>3, <1>4, <1>5, SumNat
<1>8. Wealth(a) = wallet[a] + StakeOf(a) + PrincipalsOf(a) + VaultsOf(a)
  BY DEF Wealth, StakeOf, PrincipalsOf, VaultsOf
<1>. QED BY <1>1, <1>6, <1>7, <1>8

(* So they are after a step. *)
LEMMA PartsNext == TypeOK' => PartsNat'
BY PartsAreNat, PTL

(* A step that moves one account's tokens, and none of them in, makes      *)
(* nobody richer.                                                          *)
LEMMA OneAccount ==
  ASSUME TypeOK, TypeOK', NEW b \in Accounts,
         NEW w \in Int, NEW s \in Int, NEW p \in Int, NEW v \in Int,
         wallet'[b] <= wallet[b] + w, StakeOf(b)' <= StakeOf(b) + s,
         PrincipalsOf(b)' <= PrincipalsOf(b) + p, VaultsOf(b)' <= VaultsOf(b) + v,
         w + s + p + v <= 0,
         \A a \in Accounts : a # b => Aside(a)
  PROVE  NobodyRicher
<1>. SUFFICES ASSUME NEW a \in Accounts PROVE Wealth(a)' <= Wealth(a)
  BY DEF NobodyRicher
<1>1. /\ wallet[a] \in Nat /\ StakeOf(a) \in Nat
      /\ PrincipalsOf(a) \in Nat /\ VaultsOf(a) \in Nat
      /\ Wealth(a) = wallet[a] + StakeOf(a) + PrincipalsOf(a) + VaultsOf(a)
  BY PartsAreNat DEF PartsNat
<1>2. /\ wallet'[a] \in Nat /\ StakeOf(a)' \in Nat
      /\ PrincipalsOf(a)' \in Nat /\ VaultsOf(a)' \in Nat
      /\ Wealth(a)' = wallet'[a] + StakeOf(a)' + PrincipalsOf(a)' + VaultsOf(a)'
  BY PartsNext DEF PartsNat
<1>3. CASE a = b
  BY <1>1, <1>2, <1>3
<1>4. CASE a # b
  BY <1>1, <1>2, <1>4 DEF Aside
<1>. QED BY <1>3, <1>4

(* Principals that stay add up to the same. *)
LEMMA PrincipalsSame ==
  ASSUME NEW a, \A g \in Operators : Stays(g, a)
  PROVE  PrincipalsOf(a)' = PrincipalsOf(a)
BY DEF PrincipalsOf, Stays

(* One principal of an account changes. *)
LEMMA PrincipalsAt ==
  ASSUME TypeOK, TypeOK', NEW g \in Operators, NEW a \in Accounts,
         \A k \in Operators : k # g => Stays(k, a)
  PROVE  PrincipalsOf(a)' = PrincipalsOf(a) - Principal(g, a) + Principal(g, a)'
<1>. DEFINE f == [k \in Operators |-> Principal(k, a)]
            h == [k \in Operators |-> Principal(k, a)']
<1>1. \A k \in Operators : f[k] \in Nat
  BY PendingNat
<1>2. \A k \in Operators : h[k] \in Nat
  <2>1. \A k \in Operators : Principal(k, a)' \in Nat
    BY PrincipalNext DEF PrincipalsNat
  <2>. QED BY <2>1
<1>3. \A k \in Operators \ {g} : h[k] = f[k]
  BY DEF Stays
<1>4. PrincipalsOf(a) = SumFunctionOnSet(f, Operators) /\ PrincipalsOf(a)' = SumFunctionOnSet(h, Operators)
  BY DEF PrincipalsOf, Total
<1>5. f[g] = Principal(g, a) /\ h[g] = Principal(g, a)'
  OBVIOUS
<1>. HIDE DEF f, h
<1>6. SumFunctionOnSet(h, Operators) = SumFunctionOnSet(f, Operators) - f[g] + h[g]
  <2>1. \A k \in Operators : f[k] \in Int /\ h[k] \in Int
    BY <1>1, <1>2
  <2>. QED BY <1>3, <2>1, Finite, SumUpdate
<1>. QED BY <1>4, <1>5, <1>6

(* Settling one delegation changes the principals of its owner only. *)
LEMMA SetPrincipalWealth ==
  ASSUME TypeOK, TypeOK', NEW g \in Operators, NEW d \in Accounts, NEW p \in Nat,
         SetPrincipal(g, d, p), UNCHANGED cumulative_reward
  PROVE  /\ PrincipalsOf(d)' = PrincipalsOf(d) - Principal(g, d) + p
         /\ \A a \in Accounts : a # d => PrincipalsOf(a)' = PrincipalsOf(a)
<1>1. /\ Principal(g, d)' = p
      /\ \A k \in Operators, e \in Accounts : <<k, e>> # <<g, d>> => Stays(k, e)
  BY SetOnePrincipal
<1>2. \A k \in Operators : k # g => Stays(k, d)
  BY <1>1
<1>3. PrincipalsOf(d)' = PrincipalsOf(d) - Principal(g, d) + Principal(g, d)'
  BY <1>2, PrincipalsAt
<1>4. ASSUME NEW a \in Accounts, a # d PROVE PrincipalsOf(a)' = PrincipalsOf(a)
  <2>1. \A k \in Operators : Stays(k, a)
    BY <1>1, <1>4
  <2>. QED BY <2>1, PrincipalsSame
<1>. QED BY <1>1, <1>3, <1>4

(* Vaults that keep their amounts. *)
LEMMA VaultsSame ==
  ASSUME NEW a, \A i \in 0 .. MaxVaults - 1 : vault_amount'[<<a, i>>] = vault_amount[<<a, i>>]
  PROVE  VaultsOf(a)' = VaultsOf(a)
BY DEF VaultsOf

(* One vault of an account changes. *)
LEMMA VaultsAt ==
  ASSUME TypeOK, TypeOK', NEW v \in VaultIds,
         \A u \in VaultIds : u # v => vault_amount'[u] = vault_amount[u]
  PROVE  /\ v[1] \in Accounts
         /\ VaultsOf(v[1])' = VaultsOf(v[1]) - vault_amount[v] + vault_amount'[v]
         /\ \A a \in Accounts : a # v[1] => VaultsOf(a)' = VaultsOf(a)
<1>. DEFINE Ids == 0 .. MaxVaults - 1
            f == [i \in Ids |-> vault_amount[<<v[1], i>>]]
            h == [i \in Ids |-> vault_amount'[<<v[1], i>>]]
<1>1. /\ v[1] \in Accounts /\ v[2] \in Ids /\ v = <<v[1], v[2]>>
      /\ \A a \in Accounts, i \in Ids : <<a, i>> \in VaultIds
  BY DEF VaultIds
<1>2. /\ \A i \in Ids : f[i] \in Int /\ h[i] \in Int
      /\ \A i \in Ids \ {v[2]} : h[i] = f[i]
  BY <1>1 DEF TypeOK, VaultTypes
<1>3. f[v[2]] = vault_amount[v] /\ h[v[2]] = vault_amount'[v]
  BY <1>1
<1>4. VaultsOf(v[1]) = SumFunctionOnSet(f, Ids) /\ VaultsOf(v[1])' = SumFunctionOnSet(h, Ids)
  BY DEF VaultsOf, Total
<1>5. ASSUME NEW a \in Accounts, a # v[1] PROVE VaultsOf(a)' = VaultsOf(a)
  <2>1. \A i \in Ids : vault_amount'[<<a, i>>] = vault_amount[<<a, i>>]
    BY <1>1, <1>5
  <2>. QED BY <2>1, VaultsSame
<1>6. IsFiniteSet(Ids)
  BY Finite
<1>. HIDE DEF f, h, Ids
<1>7. SumFunctionOnSet(h, Ids) = SumFunctionOnSet(f, Ids) - f[v[2]] + h[v[2]]
  BY <1>1, <1>2, <1>6, SumUpdate
<1>. QED BY <1>1, <1>3, <1>4, <1>5, <1>7

(* A new vault adds to its owner's. *)
LEMMA OpenVaultWealth ==
  ASSUME TypeOK, TypeOK', ClosedEmpty, NEW o \in Accounts, NEW g, NEW amount \in Nat, NEW isDelegate,
         OpenVault(o, g, amount, isDelegate)
  PROVE  /\ VaultsOf(o)' = VaultsOf(o) + amount
         /\ \A a \in Accounts : a # o => VaultsOf(a)' = VaultsOf(a)
<1>0. PICK v \in VaultIds : v = <<o, next_id[o]>>
  BY DEF OpenVault
<1>1. /\ ~Open(v) /\ v[1] = o
      /\ vault_amount' = [vault_amount EXCEPT ![v] = amount]
      /\ vault_amount \in [VaultIds -> Nat]
  BY <1>0 DEF OpenVault, TypeOK, VaultTypes
<1>2. vault_amount[v] = 0
  BY <1>1 DEF ClosedEmpty
<1>3. vault_amount'[v] = amount /\ \A u \in VaultIds : u # v => vault_amount'[u] = vault_amount[u]
  BY <1>1
<1>4. /\ VaultsOf(v[1])' = VaultsOf(v[1]) - vault_amount[v] + vault_amount'[v]
      /\ \A a \in Accounts : a # v[1] => VaultsOf(a)' = VaultsOf(a)
  BY <1>1, <1>3, VaultsAt
<1>5. VaultsOf(o) \in Nat
  BY PartsAreNat DEF PartsNat
<1>. QED BY <1>1, <1>2, <1>3, <1>4, <1>5

(* A closed vault is taken from its owner's. *)
LEMMA CloseVaultWealth ==
  ASSUME TypeOK, TypeOK', NEW v \in VaultIds, CloseVault(v)
  PROVE  /\ v[1] \in Accounts
         /\ VaultsOf(v[1])' = VaultsOf(v[1]) - vault_amount[v]
         /\ \A a \in Accounts : a # v[1] => VaultsOf(a)' = VaultsOf(a)
<1>1. vault_amount'[v] = 0 /\ \A u \in VaultIds : u # v => vault_amount'[u] = vault_amount[u]
  BY DEF CloseVault, TypeOK, VaultTypes
<1>2. /\ v[1] \in Accounts
      /\ VaultsOf(v[1])' = VaultsOf(v[1]) - vault_amount[v] + vault_amount'[v]
      /\ \A a \in Accounts : a # v[1] => VaultsOf(a)' = VaultsOf(a)
  BY <1>1, VaultsAt
<1>3. VaultsOf(v[1]) \in Nat /\ vault_amount[v] \in Nat
  BY <1>2, PartsAreNat DEF PartsNat, TypeOK, VaultTypes
<1>. QED BY <1>1, <1>2, <1>3

(* The exit vaults hold together what the operator takes out. *)
LEMMA ExitVaultsWealth ==
  ASSUME TypeOK, TypeOK', ClosedEmpty, NEW g \in Operators, NEW amount \in Nat,
         OpenExitVaults(g, amount)
  PROVE  /\ VaultsOf(g)' = VaultsOf(g) + amount
         /\ \A a \in Accounts : a # g => VaultsOf(a)' = VaultsOf(a)
<1>. DEFINE Ids == 0 .. MaxVaults - 1
            protected == MinOf(amount, MinOperatorStake)
            excess == SatSub(amount, MinOperatorStake)
            m == next_id[g]
            exit == <<g, m>>
            other == <<g, m + 1>>
            f == [i \in Ids |-> vault_amount[<<g, i>>]]
            mid == [i \in Ids |-> IF i = m THEN protected ELSE f[i]]
            h == [i \in Ids |-> vault_amount'[<<g, i>>]]
<1>1. protected \in Nat /\ excess \in Nat /\ protected + excess = amount
  BY LimitAssumption DEF MinOf, SatSub
<1>2. /\ exit \in VaultIds /\ ~Open(exit)
      /\ excess > 0 => other \in VaultIds /\ ~Open(other)
      /\ vault_amount' = [v \in VaultIds |->
           CASE v = exit -> protected
             [] v = other /\ excess > 0 -> excess
             [] OTHER -> vault_amount[v]]
  BY DEF OpenExitVaults
<1>3. /\ m \in Nat /\ g \in Accounts
      /\ \A a \in Accounts, i \in Ids : <<a, i>> \in VaultIds
      /\ \A i : <<g, i>> \in VaultIds => i \in Ids
      /\ vault_amount \in [VaultIds -> Nat]
  BY SetAssumption DEF TypeOK, VaultTypes, VaultIds
<1>4. exit # other
  BY <1>3
<1>. HIDE DEF protected, excess, Ids
<1>5. /\ vault_amount'[exit] = protected
      /\ excess > 0 => vault_amount'[other] = excess
      /\ \A v \in VaultIds : v # exit /\ ~(v = other /\ excess > 0) => vault_amount'[v] = vault_amount[v]
  BY <1>2, <1>4
<1>6. m \in Ids /\ f[m] = 0 /\ (excess > 0 => m + 1 \in Ids /\ f[m + 1] = 0)
  BY <1>2, <1>3 DEF ClosedEmpty
<1>7. /\ \A i \in Ids : f[i] \in Nat /\ mid[i] \in Int /\ h[i] \in Int
      /\ mid[m] = protected
      /\ \A i \in Ids \ {m} : mid[i] = f[i]
      /\ \A i \in Ids : i # m + 1 => h[i] = mid[i]
      /\ excess = 0 => \A i \in Ids : h[i] = mid[i]
      /\ excess > 0 => h[m + 1] = excess /\ mid[m + 1] = 0
  <2>1. \A i \in Ids : f[i] \in Nat /\ mid[i] \in Int
    BY <1>1, <1>3
  <2>2. \A i \in Ids : h[i] \in Int
    BY <1>3 DEF TypeOK, VaultTypes
  <2>3. mid[m] = protected /\ \A i \in Ids \ {m} : mid[i] = f[i]
    BY <1>6
  <2>4. \A i \in Ids : i # m /\ ~(i = m + 1 /\ excess > 0) => h[i] = f[i]
    BY <1>3, <1>5
  <2>5. h[m] = protected
    BY <1>5, <1>6
  <2>6. excess > 0 => h[m + 1] = excess /\ mid[m + 1] = 0
    BY <1>3, <1>5, <1>6
  <2>. QED BY <1>1, <1>3, <2>1, <2>2, <2>3, <2>4, <2>5, <2>6
<1>8. VaultsOf(g) = SumFunctionOnSet(f, Ids) /\ VaultsOf(g)' = SumFunctionOnSet(h, Ids)
  BY DEF VaultsOf, Total, Ids
<1>9. IsFiniteSet(Ids)
  BY Finite DEF Ids
<1>10. ASSUME NEW a \in Accounts, a # g PROVE VaultsOf(a)' = VaultsOf(a)
  <2>1. \A i \in Ids : vault_amount'[<<a, i>>] = vault_amount[<<a, i>>]
    BY <1>3, <1>5, <1>10
  <2>. QED BY <2>1, VaultsSame DEF Ids
<1>. HIDE DEF f, h, mid, m
<1>11. SumFunctionOnSet(mid, Ids) = SumFunctionOnSet(f, Ids) - f[m] + mid[m]
  <2>1. \A i \in Ids : f[i] \in Int /\ mid[i] \in Int
    BY <1>7
  <2>. QED BY <1>6, <1>7, <1>9, <2>1, SumUpdate
<1>12. SumFunctionOnSet(f, Ids) \in Nat
  BY <1>7, <1>9, SumNat
<1>13. SumFunctionOnSet(mid, Ids) = SumFunctionOnSet(f, Ids) + protected
  BY <1>1, <1>6, <1>7, <1>11, <1>12
<1>14. CASE excess > 0
  <2>1. SumFunctionOnSet(h, Ids) = SumFunctionOnSet(mid, Ids) - mid[m + 1] + h[m + 1]
    <3>1. \A i \in Ids : mid[i] \in Int /\ h[i] \in Int
      BY <1>7
    <3>2. \A i \in Ids \ {m + 1} : h[i] = mid[i]
      BY <1>7
    <3>3. m + 1 \in Ids
      BY <1>6, <1>14
    <3>. QED BY <1>9, <3>1, <3>2, <3>3, SumUpdate
  <2>. QED BY <1>1, <1>7, <1>8, <1>10, <1>12, <1>13, <1>14, <2>1
<1>15. CASE excess = 0
  <2>1. SumFunctionOnSet(h, Ids) = SumFunctionOnSet(mid, Ids)
    BY <1>7, <1>9, <1>15, SumCong
  <2>. QED BY <1>1, <1>8, <1>10, <1>12, <1>13, <1>15, <2>1
<1>. QED BY <1>1, <1>14, <1>15

(***************************************************************************)
(* A vault of operator stake belongs to the gateway's operator.            *)
(* cancel_withdrawal of another account's vault would make the operator    *)
(* richer.                                                                 *)
(***************************************************************************)
OwnVaults ==
    \A v \in VaultIds : Open(v) /\ ~vault[v].is_delegate => vault[v].gateway = v[1]

(* Every step opens operator vaults for the operator only. *)
LEMMA OwnVaultsStep == TypeOK /\ OwnVaults /\ [Next]_vars => OwnVaults'
<1>. SUFFICES ASSUME TypeOK, OwnVaults, [Next]_vars PROVE OwnVaults'
  OBVIOUS
<1>. USE DEF clockVars, tokenVars, counterVars, stakeVars, gatewayVars,
             delegationVars, vaultVars, otherVars
<1>0. vault \in [VaultIds -> VaultRecord \cup {NoVault}]
  BY DEF TypeOK, VaultTypes
<1>1. ASSUME NEW o, NEW g, NEW amount, NEW isDelegate \in BOOLEAN,
             OpenVault(o, g, amount, isDelegate), isDelegate \/ g = o
      PROVE  OwnVaults'
  <2>. DEFINE w == VaultOf(g, withdrawal_period, isDelegate, FALSE)
              u == <<o, next_id[o]>>
  <2>1. w.gateway = g /\ w.is_delegate = isDelegate /\ u[1] = o
    BY DEF VaultOf
  <2>2. vault' = [vault EXCEPT ![u] = w]
    BY <1>1 DEF OpenVault
  <2>. HIDE DEF w, u
  <2>. QED BY <1>0, <1>1, <2>1, <2>2 DEF OwnVaults, Open
<1>2. ASSUME NEW v \in VaultIds, CloseVault(v)
      PROVE  OwnVaults'
  BY <1>0, <1>2 DEF CloseVault, OwnVaults, Open
<1>3. ASSUME NEW g \in Operators, NEW amount, OpenExitVaults(g, amount)
      PROVE  OwnVaults'
  <2>. DEFINE protected == MinOf(amount, MinOperatorStake)
              excess == SatSub(amount, MinOperatorStake)
              exit == <<g, next_id[g]>>
              other == <<g, next_id[g] + 1>>
              exitVault == VaultOf(g, IF protected > 0 THEN LeavePeriod ELSE 0, FALSE, protected > 0)
              otherVault == VaultOf(g, withdrawal_period, FALSE, FALSE)
  <2>1. vault' = [v \in VaultIds |->
             CASE v = exit -> exitVault
               [] v = other /\ excess > 0 -> otherVault
               [] OTHER -> vault[v]]
    BY <1>3 DEF OpenExitVaults
  <2>2. exitVault.gateway = g /\ otherVault.gateway = g /\ exit[1] = g /\ other[1] = g
    BY DEF VaultOf
  <2>. HIDE DEF exit, other, exitVault, otherVault, excess
  <2>3. ASSUME NEW v \in VaultIds
        PROVE  vault'[v].gateway = v[1] \/ vault'[v] = vault[v]
    <3>1. CASE v = exit \/ (v = other /\ excess > 0)
      <4>1. vault'[v] = exitVault \/ vault'[v] = otherVault
        BY <2>1, <3>1
      <4>. QED BY <2>2, <3>1, <4>1
    <3>2. CASE v # exit /\ ~(v = other /\ excess > 0)
      BY <2>1, <3>2
    <3>. QED BY <3>1, <3>2
  <2>. QED BY <2>3 DEF OwnVaults, Open
<1>4. ASSUME NEW a, NEW p, NEW slot, PayFromFundingPlan(a, p, slot)
      PROVE  OwnVaults'
  <2>. DEFINE R == PlanResidues(a, p)
              new(g) == VaultOf(g, withdrawal_period, TRUE, FALSE)
  <2>1. vault' = [v \in VaultIds |->
             IF \E g \in R : v = <<a, slot[g]>>
               THEN new(CHOOSE g \in R : v = <<a, slot[g]>>)
               ELSE vault[v]]
    BY <1>4 DEF PayFromFundingPlan
  <2>2. \A g : new(g).is_delegate
    BY DEF VaultOf
  <2>. HIDE DEF R, new
  <2>. QED BY <2>1, <2>2 DEF OwnVaults, Open
<1>5. ASSUME UNCHANGED vault PROVE OwnVaults'
  BY <1>5 DEF OwnVaults, Open
<1>6. ASSUME OperatorNext PROVE OwnVaults'
  <2>. PICK g \in Operators :
         \/ \E stake \in Amounts, allow \in BOOLEAN, min \in MinDelegations :
              JoinNetwork(g, stake, allow, min)
         \/ \E amount \in Amounts :
              \/ IncreaseOperatorStake(g, amount)
              \/ DecreaseOperatorStake(g, amount)
              \/ DeductOperatorStakeForPayment(g, amount)
         \/ LeaveNetwork(g)
         \/ PruneGateway(g)
         \/ FinalizeGone(g)
         \/ \E allow \in BOOLEAN, min \in MinDelegations :
              UpdateGatewaySettings(g, allow, min)
         \/ \E enabled \in AllowlistChoices : SetAllowlistEnabled(g, enabled)
    BY <1>6 DEF OperatorNext
  <2>1. CASE \E amount : OpenVault(g, g, amount, FALSE)
    BY <1>1, <2>1
  <2>2. CASE \E amount : OpenExitVaults(g, amount)
    BY <1>3, <2>2
  <2>3. CASE UNCHANGED vault
    BY <1>5, <2>3
  <2>. QED BY <2>1, <2>2, <2>3 DEF JoinNetwork, IncreaseOperatorStake, DecreaseOperatorStake,
             DeductOperatorStakeForPayment, LeaveNetwork, PruneGateway, FinalizeGone,
             UpdateGatewaySettings, SetAllowlistEnabled
<1>7. ASSUME DelegatorNext PROVE OwnVaults'
  <2>. PICK g \in Operators, d \in Accounts :
         \/ \E amount \in Amounts :
              \/ DelegateStake(d, g, amount)
              \/ DecreaseDelegateStake(d, g, amount)
              \/ DeductDelegationForPayment(d, g, amount)
              \/ \E h \in Operators : RedelegateStake(d, g, h, amount)
         \/ ClaimDelegateFromLeavingGateway(g, d)
         \/ ClaimDelegateFromDisabledGateway(g, d)
         \/ CloseEmptyDelegation(g, d)
         \/ CompoundDelegationRewards(g, d)
         \/ AllowDelegate(g, d)
         \/ DisallowDelegate(g, d)
    BY <1>7 DEF DelegatorNext
  <2>1. CASE \E amount : DelegationToVault(g, d, amount)
    <3>1. PICK amount : OpenVault(d, g, amount, TRUE)
      BY <2>1 DEF DelegationToVault
    <3>. QED BY <1>1, <3>1
  <2>2. CASE UNCHANGED vault
    BY <1>5, <2>2
  <2>. QED BY <2>1, <2>2 DEF DelegateStake, DecreaseDelegateStake,
             DeductDelegationForPayment, RedelegateStake,
             ClaimDelegateFromLeavingGateway, ClaimDelegateFromDisabledGateway,
             CloseEmptyDelegation, CompoundDelegationRewards, AllowDelegate,
             DisallowDelegate
<1>8. ASSUME NEW v \in VaultIds,
             \/ ClaimWithdrawal(v)
             \/ InstantWithdrawal(v)
             \/ CloseDrainedWithdrawal(v)
             \/ CancelOperatorWithdrawal(v)
             \/ CancelDelegateWithdrawal(v)
             \/ \E amount \in Amounts : DeductWithdrawalForPayment(v, amount)
      PROVE  OwnVaults'
  <2>1. CloseVault(v) \/ UNCHANGED vault
    BY <1>8 DEF ClaimWithdrawal, InstantWithdrawal, CloseDrainedWithdrawal,
       CancelOperatorWithdrawal, CancelDelegateWithdrawal, DeductWithdrawalForPayment
  <2>. QED BY <1>2, <1>5, <2>1
<1>9. ASSUME \/ \E o \in [Operators -> Outcomes] : DistributeEpoch(o)
             \/ \E period \in Periods : AdminSetWithdrawalPeriod(period)
             \/ Tick
             \/ UNCHANGED vars
      PROVE  OwnVaults'
  <2>1. UNCHANGED vault
    BY <1>9 DEF DistributeEpoch, AdminSetWithdrawalPeriod, Tick, vars
  <2>. QED BY <1>5, <2>1
<1>. QED BY <1>4, <1>6, <1>7, <1>8, <1>9 DEF Next, VaultNext, PlanNext

(* In every reachable state operator vaults belong to the operator. *)
LEMMA OwnVaultsHold == Spec => []OwnVaults
<1>1. Init => OwnVaults
  BY DEF Init, OwnVaults, Open
<1>. QED BY <1>1, OwnVaultsStep, TypeCorrect, PTL DEF Spec

(* redelegate_stake moves principal less its fee. *)
LEMMA RedelegateWealth ==
  ASSUME TypeOK, TypeOK', NEW d \in Accounts, NEW g \in Operators,
         NEW h \in Operators, NEW amount \in Amounts, RedelegateStake(d, g, h, amount)
  PROVE  /\ PrincipalsOf(d)' <= PrincipalsOf(d)
         /\ \A a \in Accounts : a # d => PrincipalsOf(a)' = PrincipalsOf(a)
<1>. DEFINE fee == (amount * FeeRate(d)) \div RateScale
            net == SatSub(amount, fee)
            remaining == Principal(g, d) - amount
            raised == Principal(h, d) + net
            before == [k \in Operators |-> Principal(k, d)]
            mid == [before EXCEPT ![g] = remaining]
            after == [k \in Operators |-> Principal(k, d)']
<1>1. /\ g # h /\ remaining >= 0
      /\ del_amount' = [del_amount EXCEPT ![<<g, d>>] = remaining, ![<<h, d>>] = raised]
      /\ reward_debt' = [reward_debt EXCEPT
           ![<<g, d>>] = cumulative_reward[g], ![<<h, d>>] = cumulative_reward[h]]
      /\ UNCHANGED cumulative_reward
  BY DEF RedelegateStake
<1>2. amount \in Nat /\ FeeRate(d) \in Nat /\ RateScale \in Nat \ {0}
  BY InputAssumption, FeeRateNat, ScaleAssumption
<1>3. fee \in Nat
  BY <1>2, DivNat
<1>4. net \in Nat /\ net <= amount
  BY <1>2, <1>3, SatSubNat
<1>5. /\ Principal(g, d) \in Nat /\ Principal(h, d) \in Nat
      /\ del_amount \in [Pairs -> Nat] /\ reward_debt \in [Pairs -> Nat]
      /\ <<g, d>> \in Pairs /\ <<h, d>> \in Pairs /\ <<g, d>> # <<h, d>>
  BY <1>1, PendingNat, PairIn DEF TypeOK, DelegationTypes
<1>6. remaining \in Nat /\ raised \in Nat
  BY <1>1, <1>2, <1>4, <1>5
<1>7. \A k \in Operators : before[k] \in Nat /\ before[k] = Principal(k, d)
  BY PendingNat
<1>8. \A k \in Operators : after[k] \in Nat /\ after[k] = Principal(k, d)'
  <2>1. \A k \in Operators : Principal(k, d)' \in Nat
    BY PrincipalNext DEF PrincipalsNat
  <2>. QED BY <2>1
<1>9. /\ PrincipalsOf(d) = SumFunctionOnSet(before, Operators)
      /\ PrincipalsOf(d)' = SumFunctionOnSet(after, Operators)
  BY DEF PrincipalsOf, Total
<1>10. remaining = Principal(g, d) - amount /\ raised = Principal(h, d) + net
  OBVIOUS
<1>. HIDE DEF remaining, raised, net, fee
<1>11. /\ del_amount'[<<g, d>>] = remaining /\ reward_debt'[<<g, d>>] = cumulative_reward[g]
       /\ del_amount'[<<h, d>>] = raised /\ reward_debt'[<<h, d>>] = cumulative_reward[h]
       /\ \A q \in Pairs : q # <<g, d>> /\ q # <<h, d>> =>
            del_amount'[q] = del_amount[q] /\ reward_debt'[q] = reward_debt[q]
  BY <1>1, <1>5
<1>12. Principal(g, d)' = remaining /\ Principal(h, d)' = raised
  BY <1>1, <1>6, <1>11, SettledPrincipal
<1>13. ASSUME NEW k \in Operators, NEW e \in Accounts, <<k, e>> # <<g, d>>, <<k, e>> # <<h, d>>
       PROVE  Stays(k, e)
  <2>1. /\ del_amount'[<<k, e>>] = del_amount[<<k, e>>]
        /\ reward_debt'[<<k, e>>] = reward_debt[<<k, e>>]
    BY <1>11, <1>13, PairIn
  <2>. QED BY <1>1, <2>1, Untouched DEF Stays
<1>14. ASSUME NEW a \in Accounts, a # d PROVE PrincipalsOf(a)' = PrincipalsOf(a)
  <2>1. \A k \in Operators : Stays(k, a)
    BY <1>13, <1>14
  <2>. QED BY <2>1, PrincipalsSame
<1>15. /\ \A k \in Operators : mid[k] \in Int
       /\ mid[g] = remaining /\ mid[h] = before[h]
       /\ \A k \in Operators \ {g} : mid[k] = before[k]
       /\ \A k \in Operators \ {h} : after[k] = mid[k]
  <2>1. \A k \in Operators : k # g /\ k # h => after[k] = before[k]
    <3>. SUFFICES ASSUME NEW k \in Operators, k # g, k # h PROVE after[k] = before[k]
      OBVIOUS
    <3>1. Stays(k, d)
      BY <1>13
    <3>. QED BY <3>1, <1>7, <1>8 DEF Stays
  <2>2. after[g] = remaining
    BY <1>8, <1>12
  <2>3. \A k \in Operators : mid[k] = IF k = g THEN remaining ELSE before[k]
    OBVIOUS
  <2>. HIDE DEF mid, before, after
  <2>. QED BY <1>1, <1>6, <1>7, <2>1, <2>2, <2>3
<1>16. after[h] = raised
  BY <1>8, <1>12
<1>. HIDE DEF mid, before, after
<1>17. SumFunctionOnSet(mid, Operators) = SumFunctionOnSet(before, Operators) - before[g] + mid[g]
  <2>1. \A k \in Operators : before[k] \in Int /\ mid[k] \in Int
    BY <1>7, <1>15
  <2>. QED BY <1>15, <2>1, Finite, SumUpdate
<1>18. SumFunctionOnSet(after, Operators) = SumFunctionOnSet(mid, Operators) - mid[h] + after[h]
  <2>1. \A k \in Operators : mid[k] \in Int /\ after[k] \in Int
    BY <1>8, <1>15
  <2>. QED BY <1>15, <2>1, Finite, SumUpdate
<1>19. SumFunctionOnSet(before, Operators) \in Nat
  BY <1>7, Finite, SumNat
<1>20. PrincipalsOf(d)' <= PrincipalsOf(d)
  <2>1. before[g] = Principal(g, d) /\ before[h] = Principal(h, d)
    BY <1>7
  <2>. QED BY <1>2, <1>4, <1>5, <1>9, <1>10, <1>15, <1>16, <1>17, <1>18, <1>19, <2>1
<1>. QED BY <1>14, <1>20

(* What a funding plan leaves over goes from the payer's delegations to    *)
(* the payer's vaults.                                                     *)
LEMMA PlanWealth ==
  ASSUME TypeOK, TypeOK', ClosedEmpty, NEW a \in Accounts, NEW p \in Plans,
         NEW slot \in PlanSlots(a, p), PayFromFundingPlan(a, p, slot),
         NEW residue, residue = SumFunctionOnSet([g \in Operators |-> PlanResidue(a, p, g)], Operators)
  PROVE  /\ residue \in Nat
         /\ PrincipalsOf(a)' <= PrincipalsOf(a) - residue
         /\ VaultsOf(a)' <= VaultsOf(a) + residue
         /\ \A c \in Accounts : c # a =>
              PrincipalsOf(c)' = PrincipalsOf(c) /\ VaultsOf(c)' = VaultsOf(c)
<1>. DEFINE Ids == 0 .. MaxVaults - 1
            R == PlanResidues(a, p)
            r == [g \in Operators |-> PlanResidue(a, p, g)]
            New(i) == \E g \in R : i = slot[g]
            Owner(i) == CHOOSE g \in R : i = slot[g]
            opened == [i \in Ids |-> IF New(i) THEN PlanResidue(a, p, Owner(i)) ELSE 0]
            held == [i \in Ids |-> vault_amount[<<a, i>>]]
            holds == [i \in Ids |-> vault_amount'[<<a, i>>]]
            both == [i \in Ids |-> held[i] + opened[i]]
            before == [g \in Operators |-> Principal(g, a)]
            after == [g \in Operators |-> Principal(g, a)']
            kept == [g \in Operators |-> after[g] + r[g]]
<1>1. /\ PlanAllowed(a, p)
      /\ \A g \in R : <<a, slot[g]>> \in VaultIds /\ ~Open(<<a, slot[g]>>)
      /\ UNCHANGED cumulative_reward
      /\ del_amount' = [q \in Pairs |->
           IF q[2] = a /\ p.delegation[q[1]] > 0
             THEN PlanPost(a, p, q[1]) - PlanResidue(a, p, q[1])
             ELSE del_amount[q]]
      /\ reward_debt' = [q \in Pairs |->
           IF q[2] = a /\ p.delegation[q[1]] > 0
             THEN cumulative_reward[q[1]] ELSE reward_debt[q]]
      /\ vault_amount' = [v \in VaultIds |->
           IF \E g \in R : v = <<a, slot[g]>>
             THEN PlanResidue(a, p, CHOOSE g \in R : v = <<a, slot[g]>>)
           ELSE IF v[1] = a THEN vault_amount[v] - p.vaults[v[2]]
           ELSE vault_amount[v]]
  BY DEF PayFromFundingPlan
<1>2. /\ p.vaults \in [Ids -> Nat] /\ p.delegation \in [Operators -> Nat]
      /\ \A g \in Operators : /\ PlanResidue(a, p, g) \in Nat
                              /\ PlanPost(a, p, g) \in Nat
                              /\ PlanResidue(a, p, g) <= PlanPost(a, p, g)
  BY <1>1, PlanNat
<1>3. /\ R \subseteq Operators
      /\ \A g, h \in R : slot[g] = slot[h] => g = h
      /\ \A g \in Operators : g \notin R => PlanResidue(a, p, g) = 0
  <2>1. \A g \in Operators : ~(PlanResidue(a, p, g) > 0) => PlanResidue(a, p, g) = 0
    BY <1>2
  <2>. QED BY <2>1 DEF PlanSlots, PlanResidues
<1>4. /\ vault_amount \in [VaultIds -> Nat]
      /\ \A c \in Accounts, i \in Ids : <<c, i>> \in VaultIds
      /\ \A i : <<a, i>> \in VaultIds => i \in Ids
  BY DEF TypeOK, VaultTypes, VaultIds
<1>5. residue = SumFunctionOnSet(r, Operators) /\ residue \in Nat
  BY <1>1, PlanSums
<1>6. ASSUME NEW c \in Accounts, c # a
      PROVE  PrincipalsOf(c)' = PrincipalsOf(c) /\ VaultsOf(c)' = VaultsOf(c)
  <2>1. ASSUME NEW g \in Operators PROVE Stays(g, c)
    <3>1. /\ del_amount'[<<g, c>>] = del_amount[<<g, c>>]
          /\ reward_debt'[<<g, c>>] = reward_debt[<<g, c>>]
      BY <1>1, <1>6, PairIn
    <3>. QED BY <1>1, <3>1, Untouched DEF Stays
  <2>2. \A i \in Ids : vault_amount'[<<c, i>>] = vault_amount[<<c, i>>]
    BY <1>1, <1>4, <1>6
  <2>. QED BY <2>1, <2>2, PrincipalsSame, VaultsSame
<1>7. ASSUME NEW g \in Operators
      PROVE  Principal(g, a)' + PlanResidue(a, p, g) <= Principal(g, a)
  <2>1. /\ Principal(g, a) \in Nat /\ del_amount[<<g, a>>] \in Nat /\ Pending(g, a) \in Nat
        /\ Principal(g, a) = del_amount[<<g, a>>] + Pending(g, a)
    BY PendingNat DEF Principal
  <2>2. /\ PlanResidue(a, p, g) \in Nat /\ PlanPost(a, p, g) \in Nat
        /\ PlanResidue(a, p, g) <= PlanPost(a, p, g) /\ p.delegation[g] \in Nat
    BY <1>2
  <2>3. CASE p.delegation[g] > 0
    <3>1. PlanPost(a, p, g) = del_amount[<<g, a>>] + Pending(g, a) - p.delegation[g]
      BY <2>3 DEF PlanPost, PlanSettled
    <3>. DEFINE left == PlanPost(a, p, g) - PlanResidue(a, p, g)
    <3>2. left \in Nat
      BY <2>2
    <3>3. del_amount'[<<g, a>>] = left /\ reward_debt'[<<g, a>>] = cumulative_reward[g]
      BY <1>1, <2>3, PairIn
    <3>. HIDE DEF left
    <3>4. Principal(g, a)' = left
      BY <1>1, <3>2, <3>3, SettledPrincipal
    <3>. QED BY <2>1, <2>2, <3>1, <3>4 DEF left
  <2>4. CASE ~(p.delegation[g] > 0)
    <3>1. /\ del_amount'[<<g, a>>] = del_amount[<<g, a>>]
          /\ reward_debt'[<<g, a>>] = reward_debt[<<g, a>>]
      BY <1>1, <2>4, PairIn
    <3>2. Principal(g, a)' = Principal(g, a)
      BY <1>1, <3>1, Untouched
    <3>3. PlanResidue(a, p, g) = 0
      BY <2>4 DEF PlanResidue
    <3>. QED BY <2>1, <3>2, <3>3
  <2>. QED BY <2>3, <2>4
<1>8. /\ \A g \in Operators : after[g] \in Nat /\ before[g] \in Nat /\ r[g] \in Nat
      /\ \A g \in Operators : kept[g] = after[g] + r[g] /\ kept[g] <= before[g]
  <2>1. \A g \in Operators : Principal(g, a)' \in Nat
    BY PrincipalNext DEF PrincipalsNat
  <2>2. \A g \in Operators : Principal(g, a) \in Nat
    BY PendingNat
  <2>. QED BY <1>2, <1>7, <2>1, <2>2
<1>9. /\ PrincipalsOf(a) = SumFunctionOnSet(before, Operators)
      /\ PrincipalsOf(a)' = SumFunctionOnSet(after, Operators)
      /\ VaultsOf(a) = SumFunctionOnSet(held, Ids)
      /\ VaultsOf(a)' = SumFunctionOnSet(holds, Ids)
  BY DEF PrincipalsOf, VaultsOf, Total
<1>10. IsFiniteSet(Ids)
  BY Finite
<1>11. \A i \in Ids : New(i) => Owner(i) \in R /\ i = slot[Owner(i)]
  OBVIOUS
<1>12. \A g \in R : slot[g] \in Ids /\ New(slot[g]) /\ Owner(slot[g]) = g
  <2>. SUFFICES ASSUME NEW g \in R
                PROVE  slot[g] \in Ids /\ New(slot[g]) /\ Owner(slot[g]) = g
    OBVIOUS
  <2>1. slot[g] \in Ids
    BY <1>1, <1>4
  <2>2. New(slot[g])
    OBVIOUS
  <2>3. Owner(slot[g]) \in R /\ slot[g] = slot[Owner(slot[g])]
    BY <2>2
  <2>. HIDE DEF R, Owner, New, Ids
  <2>. QED BY <1>3, <2>1, <2>2, <2>3
<1>. HIDE DEF R, Ids
<1>13. \A i \in Ids :
         /\ held[i] \in Nat /\ opened[i] \in Nat /\ holds[i] \in Int
         /\ holds[i] <= held[i] + opened[i]
  <2>. SUFFICES ASSUME NEW i \in Ids
                PROVE  /\ held[i] \in Nat /\ opened[i] \in Nat /\ holds[i] \in Int
                       /\ holds[i] <= held[i] + opened[i]
    OBVIOUS
  <2>1. held[i] = vault_amount[<<a, i>>] /\ held[i] \in Nat /\ <<a, i>> \in VaultIds
    BY <1>4
  <2>2. holds[i] = vault_amount'[<<a, i>>]
    OBVIOUS
  <2>3. CASE New(i)
    <3>1. Owner(i) \in R /\ Owner(i) \in Operators /\ i = slot[Owner(i)]
      BY <1>3, <1>11, <2>3
    <3>2. opened[i] = PlanResidue(a, p, Owner(i))
      BY <2>3
    <3>3. \E g \in R : <<a, i>> = <<a, slot[g]>>
      BY <3>1
    <3>4. vault_amount'[<<a, i>>] = PlanResidue(a, p, CHOOSE g \in R : <<a, i>> = <<a, slot[g]>>)
      BY <1>1, <2>1, <3>3
    <3>. DEFINE k == CHOOSE g \in R : <<a, i>> = <<a, slot[g]>>
    <3>5. k \in R /\ i = slot[k]
      BY <3>3
    <3>6. k = Owner(i)
      <4>. HIDE DEF k, Owner
      <4>. QED BY <1>3, <3>1, <3>5
    <3>7. holds[i] = PlanResidue(a, p, Owner(i))
      BY <2>2, <3>4, <3>6
    <3>8. PlanResidue(a, p, Owner(i)) \in Nat
      BY <1>2, <3>1
    <3>. HIDE DEF held, opened, holds, Owner, New
    <3>. QED BY <2>1, <3>2, <3>7, <3>8
  <2>4. CASE ~New(i)
    <3>1. opened[i] = 0
      BY <2>4
    <3>2. ~ \E g \in R : <<a, i>> = <<a, slot[g]>>
      BY <2>4
    <3>3. vault_amount'[<<a, i>>] = vault_amount[<<a, i>>] - p.vaults[i]
      BY <1>1, <2>1, <3>2
    <3>4. p.vaults[i] \in Nat
      BY <1>2
    <3>. HIDE DEF held, opened, holds, Owner, New
    <3>. QED BY <2>1, <2>2, <3>1, <3>3, <3>4
  <2>. QED BY <2>3, <2>4
<1>14. SumFunctionOnSet(opened, Ids) = residue
  <2>. DEFINE s == [g \in R |-> PlanResidue(a, p, g)]
              to == [g \in R |-> slot[g]]
              id == [g \in R |-> g]
  <2>1. IsFiniteSet(R)
    BY <1>3, Finite, FS_Subset
  <2>2. SumFunctionOnSet(opened, Ids) = SumFunctionOnSet(s, R)
    <3>1. /\ to \in [R -> Ids]
          /\ \A x, y \in R : to[x] = to[y] => x = y
      BY <1>3, <1>12
    <3>2. \A x \in R : s[x] \in Int /\ opened[to[x]] = s[x]
      BY <1>2, <1>3, <1>12
    <3>3. \A i \in Ids : (\A x \in R : i # to[x]) => opened[i] = 0
      BY <1>11
    <3>. HIDE DEF to, s, opened
    <3>. QED BY <1>10, <2>1, <3>1, <3>2, <3>3, SumInject
  <2>3. SumFunctionOnSet(r, Operators) = SumFunctionOnSet(s, R)
    <3>1. /\ id \in [R -> Operators]
          /\ \A x, y \in R : id[x] = id[y] => x = y
      BY <1>3
    <3>2. \A x \in R : s[x] \in Int /\ r[id[x]] = s[x]
      BY <1>2, <1>3
    <3>3. \A g \in Operators : (\A x \in R : g # id[x]) => r[g] = 0
      BY <1>3
    <3>. HIDE DEF id, s, r
    <3>. QED BY <2>1, <3>1, <3>2, <3>3, Finite, SumInject
  <2>. QED BY <1>5, <2>2, <2>3
<1>15. \A i \in Ids : both[i] = held[i] + opened[i]
  OBVIOUS
<1>. HIDE DEF r, opened, held, holds, both, before, after, kept
<1>16. SumFunctionOnSet(both, Ids) = SumFunctionOnSet(held, Ids) + SumFunctionOnSet(opened, Ids)
  <2>1. \A i \in Ids : held[i] \in Int /\ opened[i] \in Int /\ both[i] = held[i] + opened[i]
    BY <1>13, <1>15
  <2>. QED BY <1>10, <2>1, SumAdd
<1>17. SumFunctionOnSet(holds, Ids) <= SumFunctionOnSet(both, Ids)
  <2>1. \A i \in Ids : holds[i] \in Int /\ both[i] \in Int /\ holds[i] <= both[i]
    BY <1>13, <1>15
  <2>. QED BY <1>10, <2>1, SumMono
<1>18. SumFunctionOnSet(kept, Operators) = SumFunctionOnSet(after, Operators) + SumFunctionOnSet(r, Operators)
  <2>1. \A g \in Operators : after[g] \in Int /\ r[g] \in Int /\ kept[g] = after[g] + r[g]
    BY <1>8
  <2>. QED BY <2>1, Finite, SumAdd
<1>19. SumFunctionOnSet(kept, Operators) <= SumFunctionOnSet(before, Operators)
  <2>1. \A g \in Operators : kept[g] \in Int /\ before[g] \in Int /\ kept[g] <= before[g]
    BY <1>8
  <2>. QED BY <2>1, Finite, SumMono
<1>20. /\ SumFunctionOnSet(before, Operators) \in Nat
       /\ SumFunctionOnSet(after, Operators) \in Nat
       /\ SumFunctionOnSet(held, Ids) \in Nat
  BY <1>8, <1>10, <1>13, Finite, SumNat
<1>21. PrincipalsOf(a)' <= PrincipalsOf(a) - residue
  BY <1>5, <1>9, <1>18, <1>19, <1>20
<1>22. VaultsOf(a)' <= VaultsOf(a) + residue
  BY <1>9, <1>14, <1>16, <1>17
<1>. QED BY <1>5, <1>6, <1>21, <1>22

(* A step that leaves wallets, stakes, principals and vaults alone. *)
LEMMA NobodyMoves ==
  ASSUME TypeOK, TypeOK', UNCHANGED <<wallet, vault_amount>>,
         \A a \in Accounts : StakeOf(a)' <= StakeOf(a),
         \A g \in Operators, d \in Accounts : Stays(g, d)
  PROVE  NobodyRicher
<1>. SUFFICES ASSUME NEW a \in Accounts PROVE Wealth(a)' <= Wealth(a)
  BY DEF NobodyRicher
<1>1. /\ wallet[a] \in Nat /\ StakeOf(a) \in Nat
      /\ PrincipalsOf(a) \in Nat /\ VaultsOf(a) \in Nat
      /\ Wealth(a) = wallet[a] + StakeOf(a) + PrincipalsOf(a) + VaultsOf(a)
  BY PartsAreNat DEF PartsNat
<1>2. /\ StakeOf(a)' \in Nat
      /\ Wealth(a)' = wallet'[a] + StakeOf(a)' + PrincipalsOf(a)' + VaultsOf(a)'
  BY PartsNext DEF PartsNat
<1>3. wallet'[a] = wallet[a] /\ PrincipalsOf(a)' = PrincipalsOf(a) /\ VaultsOf(a)' = VaultsOf(a)
  BY PrincipalsSame, VaultsSame
<1>4. StakeOf(a)' <= StakeOf(a)
  OBVIOUS
<1>. QED BY <1>1, <1>2, <1>3, <1>4

(* Delegations that no step touches. *)
LEMMA AllStay ==
  ASSUME UNCHANGED <<del_amount, reward_debt, cumulative_reward>>
  PROVE  \A g \in Operators, d \in Accounts : Stays(g, d)
BY Untouched DEF Stays

(* A gateway's accumulator is reset only when it has no delegations. *)
LEMMA ResetStay ==
  ASSUME TypeOK, NEW g \in Operators, UNCHANGED <<del_amount, reward_debt>>,
         cumulative_reward' = [cumulative_reward EXCEPT ![g] = 0],
         \A d \in Accounts : del_amount[<<g, d>>] = 0
  PROVE  \A k \in Operators, d \in Accounts : Stays(k, d)
<1>. SUFFICES ASSUME NEW k \in Operators, NEW d \in Accounts PROVE Stays(k, d)
  OBVIOUS
<1>1. k # g => cumulative_reward'[k] = cumulative_reward[k]
  BY DEF TypeOK, StakeTypes
<1>2. del_amount'[<<k, d>>] = del_amount[<<k, d>>] /\ reward_debt'[<<k, d>>] = reward_debt[<<k, d>>]
  OBVIOUS
<1>3. cumulative_reward'[k] = cumulative_reward[k] \/ del_amount[<<k, d>>] = 0
  BY <1>1
<1>. QED BY <1>2, <1>3, Untouched DEF Stays

(* The operators' actions: stake moves between the wallet, the gateway and *)
(* the operator's vaults.                                                  *)
LEMMA OperatorWealth ==
  TypeOK /\ TypeOK' /\ DelegationInv /\ ClosedEmpty /\ OperatorNext => NobodyRicher
<1>. SUFFICES ASSUME TypeOK, TypeOK', DelegationInv, ClosedEmpty, OperatorNext
              PROVE  NobodyRicher
  OBVIOUS
<1>. USE DEF clockVars, tokenVars, counterVars, stakeVars, gatewayVars,
             delegationVars, vaultVars, otherVars
<1>. PICK g \in Operators :
         \/ \E stake \in Amounts, allow \in BOOLEAN, min \in MinDelegations :
              JoinNetwork(g, stake, allow, min)
         \/ \E amount \in Amounts :
              \/ IncreaseOperatorStake(g, amount)
              \/ DecreaseOperatorStake(g, amount)
              \/ DeductOperatorStakeForPayment(g, amount)
         \/ LeaveNetwork(g)
         \/ PruneGateway(g)
         \/ FinalizeGone(g)
         \/ \E allow \in BOOLEAN, min \in MinDelegations :
              UpdateGatewaySettings(g, allow, min)
         \/ \E enabled \in AllowlistChoices : SetAllowlistEnabled(g, enabled)
  BY DEF OperatorNext
<1>1. /\ operator_stake \in [Operators -> Nat] /\ operator_stake[g] \in Nat
      /\ wallet \in [Accounts -> Nat] /\ g \in Accounts
      /\ StakeOf(g) = operator_stake[g] /\ StakeOf(g)' = operator_stake'[g]
      /\ wallet[g] \in Nat
      /\ PrincipalsOf(g) \in Nat /\ VaultsOf(g) \in Nat
      /\ MinOperatorStake \in Nat
  BY SetAssumption, LimitAssumption, PartsAreNat DEF TypeOK, StakeTypes, TokenTypes, StakeOf, PartsNat
<1>2. \A amount \in Amounts : amount \in Nat
  BY InputAssumption
<1>. DEFINE Wallet(w) == /\ wallet'[g] = wallet[g] + w
                         /\ \A a \in Accounts : a # g => wallet'[a] = wallet[a]
            Stake(s) == /\ StakeOf(g)' = StakeOf(g) + s
                        /\ \A a \in Accounts : a # g => StakeOf(a)' = StakeOf(a)
            Vaults(v) == /\ VaultsOf(g)' = VaultsOf(g) + v
                         /\ \A a \in Accounts : a # g => VaultsOf(a)' = VaultsOf(a)
            Stay == \A k \in Operators, d \in Accounts : Stays(k, d)
<1>3. ASSUME NEW x \in Nat, operator_stake' = [operator_stake EXCEPT ![g] = x]
      PROVE  Stake(x - operator_stake[g])
  BY <1>1, <1>3 DEF StakeOf
<1>4. ASSUME NEW w \in Int, NEW s \in Int, NEW v \in Int,
             Wallet(w), Stake(s), Vaults(v), Stay, w + s + v <= 0
      PROVE  NobodyRicher
  <2>1. \A a \in Accounts : PrincipalsOf(a)' = PrincipalsOf(a)
    BY <1>4, PrincipalsSame
  <2>2. \A a \in Accounts : a # g => Aside(a)
    BY <1>4, <2>1 DEF Aside
  <2>3. /\ wallet'[g] <= wallet[g] + w /\ StakeOf(g)' <= StakeOf(g) + s
        /\ PrincipalsOf(g)' <= PrincipalsOf(g) + 0 /\ VaultsOf(g)' <= VaultsOf(g) + v
        /\ w + s + 0 + v <= 0
    BY <1>1, <1>4, <2>1
  <2>. HIDE DEF Wallet, Stake, Vaults, Stay
  <2>. QED BY <1>1, <1>4, <2>2, <2>3, OneAccount
<1>5. UNCHANGED wallet => Wallet(0)
  BY <1>1
<1>6. UNCHANGED vault_amount => Vaults(0)
  BY <1>1, VaultsSame
<1>a. UNCHANGED <<del_amount, reward_debt, cumulative_reward>> => Stay
  BY AllStay
<1>b. ASSUME NEW x \in Int, wallet' = [wallet EXCEPT ![g] = @ - x]
      PROVE  Wallet(0 - x)
  BY <1>1, <1>b
<1>7. CASE \E stake \in Amounts, allow \in BOOLEAN, min \in MinDelegations :
             JoinNetwork(g, stake, allow, min)
  <2>1. PICK stake \in Amounts, allow \in BOOLEAN, min \in MinDelegations :
          JoinNetwork(g, stake, allow, min)
    BY <1>7
  <2>2. /\ ~Exists(g) /\ UNCHANGED <<del_amount, reward_debt, vault_amount>>
        /\ cumulative_reward' = [cumulative_reward EXCEPT ![g] = 0]
        /\ operator_stake' = [operator_stake EXCEPT ![g] = stake]
        /\ wallet' = [wallet EXCEPT ![g] = @ - stake]
    BY <2>1 DEF JoinNetwork, WalletToPool
  <2>3. \A d \in Accounts : del_amount[<<g, d>>] = 0
    <3>. SUFFICES ASSUME NEW d \in Accounts PROVE del_amount[<<g, d>>] = 0
      OBVIOUS
    <3>1. <<g, d>> \in Pairs /\ <<g, d>>[1] = g /\ del_amount[<<g, d>>] \in Nat
      BY PairIn, PendingNat
    <3>2. ~(del_amount[<<g, d>>] > 0)
      BY <2>2, <3>1 DEF DelegationInv, NoStrandedDelegation
    <3>. QED BY <3>1, <3>2
  <2>4. Stay
    BY <2>2, <2>3, ResetStay
  <2>5. stake \in Nat /\ (0 - stake) + (stake - operator_stake[g]) + 0 <= 0
    BY <1>1, <1>2
  <2>a. Stake(stake - operator_stake[g])
    BY <1>3, <2>2, <2>5
  <2>b. stake \in Int /\ wallet' = [wallet EXCEPT ![g] = @ - stake]
    BY <2>2, <2>5
  <2>c. Wallet(0 - stake)
    BY <1>b, <2>b
  <2>d. Vaults(0)
    BY <1>6, <2>2
  <2>. HIDE DEF Wallet, Stake, Vaults, Stay
  <2>6. Wallet(0 - stake) /\ Stake(stake - operator_stake[g]) /\ Vaults(0)
    BY <2>a, <2>c, <2>d
  <2>7. 0 - stake \in Int /\ stake - operator_stake[g] \in Int
    BY <1>1, <2>5
  <2>. QED BY <1>4, <2>4, <2>5, <2>6, <2>7
<1>8. CASE \E amount \in Amounts : IncreaseOperatorStake(g, amount)
  <2>1. PICK amount \in Amounts : IncreaseOperatorStake(g, amount)
    BY <1>8
  <2>2. /\ UNCHANGED <<del_amount, reward_debt, cumulative_reward, vault_amount>>
        /\ operator_stake' = [operator_stake EXCEPT ![g] = @ + amount]
        /\ wallet' = [wallet EXCEPT ![g] = @ - amount]
    BY <2>1 DEF IncreaseOperatorStake, WalletToPool
  <2>3. /\ amount \in Nat /\ operator_stake[g] + amount \in Nat
        /\ (0 - amount) + ((operator_stake[g] + amount) - operator_stake[g]) + 0 <= 0
    BY <1>1, <1>2
  <2>a. operator_stake' = [operator_stake EXCEPT ![g] = operator_stake[g] + amount]
    BY <2>2
  <2>b. Stake((operator_stake[g] + amount) - operator_stake[g])
    BY <1>3, <2>3, <2>a
  <2>c. amount \in Int /\ wallet' = [wallet EXCEPT ![g] = @ - amount]
    BY <2>2, <2>3
  <2>d. Wallet(0 - amount)
    BY <1>b, <2>c
  <2>e. Vaults(0) /\ Stay
    BY <1>6, <1>a, <2>2
  <2>. HIDE DEF Wallet, Stake, Vaults, Stay
  <2>4. /\ Wallet(0 - amount) /\ Vaults(0) /\ Stay
        /\ Stake((operator_stake[g] + amount) - operator_stake[g])
    BY <2>b, <2>d, <2>e
  <2>5. 0 - amount \in Int /\ (operator_stake[g] + amount) - operator_stake[g] \in Int
    BY <1>1, <2>3
  <2>. QED BY <1>4, <2>3, <2>4, <2>5
<1>9. CASE \E amount \in Amounts : DecreaseOperatorStake(g, amount)
  <2>1. PICK amount \in Amounts : DecreaseOperatorStake(g, amount)
    BY <1>9
  <2>. DEFINE x == operator_stake[g] - amount
  <2>2. /\ UNCHANGED <<del_amount, reward_debt, cumulative_reward, wallet>>
        /\ operator_stake' = [operator_stake EXCEPT ![g] = x]
        /\ OpenVault(g, g, amount, FALSE) /\ x >= 0
    BY <2>1 DEF DecreaseOperatorStake
  <2>3. /\ x \in Nat /\ amount \in Nat /\ x - operator_stake[g] \in Int
        /\ 0 + (x - operator_stake[g]) + amount <= 0
    BY <1>1, <1>2, <2>2
  <2>. HIDE DEF x
  <2>4. Wallet(0) /\ Stake(x - operator_stake[g]) /\ Vaults(amount) /\ Stay
    BY <1>1, <1>3, <1>5, <1>a, <2>2, <2>3, OpenVaultWealth
  <2>. HIDE DEF Wallet, Stake, Vaults, Stay
  <2>. QED BY <1>4, <2>3, <2>4
<1>10. CASE \E amount \in Amounts : DeductOperatorStakeForPayment(g, amount)
  <2>1. PICK amount \in Amounts : DeductOperatorStakeForPayment(g, amount)
    BY <1>10
  <2>. DEFINE x == operator_stake[g] - amount
  <2>2. /\ UNCHANGED <<del_amount, reward_debt, cumulative_reward, wallet, vault_amount>>
        /\ operator_stake' = [operator_stake EXCEPT ![g] = x]
        /\ x >= MinOperatorStake
    BY <2>1 DEF DeductOperatorStakeForPayment, PoolToTreasury
  <2>3. /\ x \in Nat /\ x - operator_stake[g] \in Int
        /\ 0 + (x - operator_stake[g]) + 0 <= 0
    BY <1>1, <1>2, <2>2
  <2>. HIDE DEF x
  <2>4. Wallet(0) /\ Stake(x - operator_stake[g]) /\ Vaults(0) /\ Stay
    BY <1>1, <1>3, <1>5, <1>6, <1>a, <2>2, <2>3
  <2>. HIDE DEF Wallet, Stake, Vaults, Stay
  <2>. QED BY <1>4, <2>3, <2>4
<1>11. CASE LeaveNetwork(g)
  <2>1. /\ UNCHANGED <<del_amount, reward_debt, cumulative_reward, wallet>>
        /\ operator_stake' = [operator_stake EXCEPT ![g] = 0]
        /\ OpenExitVaults(g, operator_stake[g])
    BY <1>11 DEF LeaveNetwork, MarkLeaving
  <2>2. 0 + (0 - operator_stake[g]) + operator_stake[g] <= 0 /\ 0 - operator_stake[g] \in Int
    BY <1>1
  <2>3. Wallet(0) /\ Stake(0 - operator_stake[g]) /\ Vaults(operator_stake[g]) /\ Stay
    BY <1>1, <1>3, <1>5, <1>a, <2>1, ExitVaultsWealth
  <2>. HIDE DEF Wallet, Stake, Vaults, Stay
  <2>. QED BY <1>1, <1>4, <2>2, <2>3
<1>12. CASE PruneGateway(g)
  <2>. DEFINE slash == MinOf(MinOperatorStake, operator_stake[g])
              rest == SatSub(operator_stake[g], slash)
  <2>1. /\ UNCHANGED <<del_amount, reward_debt, cumulative_reward, wallet>>
        /\ operator_stake' = [operator_stake EXCEPT ![g] = 0]
        /\ OpenExitVaults(g, rest)
    BY <1>12 DEF PruneGateway, MarkLeaving, PoolToTreasury
  <2>2. slash \in Nat
    BY <1>1 DEF MinOf
  <2>. HIDE DEF slash
  <2>3. rest \in Nat /\ rest <= operator_stake[g]
    BY <1>1, <2>2, SatSubNat
  <2>. HIDE DEF rest
  <2>4. 0 + (0 - operator_stake[g]) + rest <= 0 /\ 0 - operator_stake[g] \in Int
    BY <1>1, <2>3
  <2>5. Wallet(0) /\ Stake(0 - operator_stake[g]) /\ Vaults(rest) /\ Stay
    BY <1>1, <1>3, <1>5, <1>a, <2>1, <2>3, ExitVaultsWealth
  <2>. HIDE DEF Wallet, Stake, Vaults, Stay
  <2>. QED BY <1>4, <2>3, <2>4, <2>5
<1>13. CASE FinalizeGone(g)
  <2>1. /\ total_delegated_stake[g] = 0 /\ UNCHANGED <<del_amount, reward_debt, wallet, vault_amount>>
        /\ cumulative_reward' = [cumulative_reward EXCEPT ![g] = 0]
        /\ operator_stake' = [operator_stake EXCEPT ![g] = 0]
    BY <1>13 DEF FinalizeGone, MayFinalize
  <2>2. DelegatedTo(g) = 0
    BY <2>1 DEF DelegationInv, GatewayCounters
  <2>3. \A d \in Accounts : del_amount[<<g, d>>] = 0
    <3>1. \A d \in Accounts : del_amount[<<g, d>>] \in Nat /\ del_amount[<<g, d>>] <= DelegatedTo(g)
      BY PendingNat, DelegatedNat
    <3>. QED BY <2>2, <3>1
  <2>4. 0 + (0 - operator_stake[g]) + 0 <= 0 /\ 0 - operator_stake[g] \in Int
    BY <1>1
  <2>5. Wallet(0) /\ Stake(0 - operator_stake[g]) /\ Vaults(0) /\ Stay
    BY <1>1, <1>3, <1>5, <1>6, <2>1, <2>3, ResetStay
  <2>. HIDE DEF Wallet, Stake, Vaults, Stay
  <2>. QED BY <1>4, <2>4, <2>5
<1>14. CASE UNCHANGED <<del_amount, reward_debt, cumulative_reward, wallet, vault_amount, operator_stake>>
  <2>1. \A a \in Accounts : StakeOf(a)' <= StakeOf(a)
    <3>1. \A a \in Accounts : StakeOf(a)' = StakeOf(a) /\ StakeOf(a) \in Nat
      BY <1>14, PartsAreNat DEF StakeOf, PartsNat
    <3>. QED BY <3>1
  <2>. QED BY <1>14, <2>1, AllStay, NobodyMoves
<1>. QED BY <1>7, <1>8, <1>9, <1>10, <1>11, <1>12, <1>13, <1>14
         DEF UpdateGatewaySettings, SetAllowlistEnabled

(* Operators' stakes that stay. *)
LEMMA StakesSame ==
  ASSUME UNCHANGED operator_stake
  PROVE  \A a \in Accounts : StakeOf(a)' = StakeOf(a)
BY DEF StakeOf

(* A payout into a wallet, or a payment out of it. *)
LEMMA WalletAt ==
  ASSUME TypeOK, NEW b \in Accounts, NEW x \in Int,
         wallet' = [wallet EXCEPT ![b] = wallet[b] + x]
  PROVE  wallet'[b] = wallet[b] + x /\ \A a \in Accounts : a # b => wallet'[a] = wallet[a]
BY DEF TypeOK, TokenTypes

(* The delegators' actions: principal moves between the wallet, the        *)
(* delegations and the delegator's vaults.                                 *)
LEMMA DelegatorWealth ==
  TypeOK /\ TypeOK' /\ ClosedEmpty /\ DelegatorNext => NobodyRicher
<1>. SUFFICES ASSUME TypeOK, TypeOK', ClosedEmpty, DelegatorNext
              PROVE  NobodyRicher
  OBVIOUS
<1>. USE DEF clockVars, tokenVars, counterVars, stakeVars, gatewayVars,
             delegationVars, vaultVars, otherVars
<1>. PICK g \in Operators, d \in Accounts :
         \/ \E amount \in Amounts :
              \/ DelegateStake(d, g, amount)
              \/ DecreaseDelegateStake(d, g, amount)
              \/ DeductDelegationForPayment(d, g, amount)
              \/ \E h \in Operators : RedelegateStake(d, g, h, amount)
         \/ ClaimDelegateFromLeavingGateway(g, d)
         \/ ClaimDelegateFromDisabledGateway(g, d)
         \/ CloseEmptyDelegation(g, d)
         \/ CompoundDelegationRewards(g, d)
         \/ AllowDelegate(g, d)
         \/ DisallowDelegate(g, d)
  BY DEF DelegatorNext
<1>. DEFINE held == Principal(g, d)
<1>1. /\ wallet \in [Accounts -> Nat] /\ wallet[d] \in Nat
      /\ PrincipalsOf(d) \in Nat /\ VaultsOf(d) \in Nat /\ StakeOf(d) \in Nat
      /\ held \in Nat
  BY PartsAreNat, PendingNat DEF TypeOK, TokenTypes, PartsNat
<1>2. \A amount \in Amounts : amount \in Nat
  BY InputAssumption
<1>. HIDE DEF held
<1>. DEFINE Wallet(w) == /\ wallet'[d] = wallet[d] + w
                         /\ \A a \in Accounts : a # d => wallet'[a] = wallet[a]
            Principals(p) == /\ PrincipalsOf(d)' <= PrincipalsOf(d) + p
                             /\ \A a \in Accounts : a # d => PrincipalsOf(a)' = PrincipalsOf(a)
            Vaults(v) == /\ VaultsOf(d)' = VaultsOf(d) + v
                         /\ \A a \in Accounts : a # d => VaultsOf(a)' = VaultsOf(a)
<1>4. ASSUME NEW w \in Int, NEW p \in Int, NEW v \in Int,
             Wallet(w), Principals(p), Vaults(v), UNCHANGED operator_stake, w + p + v <= 0
      PROVE  NobodyRicher
  <2>1. \A a \in Accounts : StakeOf(a)' = StakeOf(a)
    BY <1>4, StakesSame
  <2>2. \A a \in Accounts : a # d => Aside(a)
    BY <1>4, <2>1 DEF Aside
  <2>3. /\ wallet'[d] <= wallet[d] + w /\ StakeOf(d)' <= StakeOf(d) + 0
        /\ PrincipalsOf(d)' <= PrincipalsOf(d) + p /\ VaultsOf(d)' <= VaultsOf(d) + v
        /\ w + 0 + p + v <= 0
    <3>1. wallet'[d] \in Int /\ VaultsOf(d)' \in Int /\ VaultsOf(d)' = VaultsOf(d) + v
      BY <1>1, <1>4
    <3>. QED BY <1>1, <1>4, <2>1, <3>1
  <2>. HIDE DEF Wallet, Principals, Vaults
  <2>. QED BY <1>4, <2>2, <2>3, OneAccount
<1>5. UNCHANGED wallet => Wallet(0)
  BY <1>1
<1>6. UNCHANGED vault_amount => Vaults(0)
  BY <1>1, VaultsSame
<1>7. ASSUME NEW x \in Nat, SetPrincipal(g, d, x), UNCHANGED cumulative_reward
      PROVE  Principals(x - held)
  <2>1. /\ PrincipalsOf(d)' = PrincipalsOf(d) - Principal(g, d) + x
        /\ \A a \in Accounts : a # d => PrincipalsOf(a)' = PrincipalsOf(a)
    BY <1>7, SetPrincipalWealth
  <2>2. PrincipalsOf(d)' = PrincipalsOf(d) - held + x
    BY <2>1 DEF held
  <2>3. PrincipalsOf(d)' <= PrincipalsOf(d) + (x - held)
    BY <1>1, <2>2
  <2>. QED BY <2>1, <2>3
<1>8. ASSUME NEW amount \in Nat, DelegationToVault(g, d, amount), held - amount \in Nat
      PROVE  NobodyRicher
  <2>. DEFINE x == held - amount
  <2>1. /\ SetPrincipal(g, d, x) /\ OpenVault(d, g, amount, TRUE)
        /\ UNCHANGED <<cumulative_reward, operator_stake, wallet>>
    BY <1>8 DEF DelegationToVault, held
  <2>2. x \in Nat /\ x - held \in Int /\ 0 + (x - held) + amount <= 0
    BY <1>1, <1>8
  <2>. HIDE DEF x
  <2>3. Principals(x - held)
    BY <1>7, <2>1, <2>2
  <2>4. Vaults(amount)
    BY <1>8, <2>1, OpenVaultWealth
  <2>5. Wallet(0)
    BY <1>5, <2>1
  <2>6. UNCHANGED operator_stake /\ amount \in Int
    BY <1>8, <2>1
  <2>. HIDE DEF Wallet, Principals, Vaults
  <2>. QED BY <1>4, <2>2, <2>3, <2>4, <2>5, <2>6
<1>9. CASE \E amount \in Amounts : DelegateStake(d, g, amount)
  <2>1. PICK amount \in Amounts : DelegateStake(d, g, amount)
    BY <1>9
  <2>. DEFINE x == held + amount
  <2>2. /\ SetPrincipal(g, d, x) /\ wallet' = [wallet EXCEPT ![d] = @ - amount]
        /\ UNCHANGED <<cumulative_reward, operator_stake, vault_amount>>
    BY <2>1 DEF DelegateStake, WalletToPool, held
  <2>3. /\ x \in Nat /\ x - held \in Int /\ amount \in Int /\ 0 - amount \in Int
        /\ (0 - amount) + (x - held) + 0 <= 0
    BY <1>1, <1>2
  <2>4. Wallet(0 - amount)
    BY <1>1, <2>2, <2>3
  <2>. HIDE DEF x
  <2>5. Principals(x - held)
    BY <1>7, <2>2, <2>3
  <2>6. Vaults(0) /\ UNCHANGED operator_stake
    BY <1>6, <2>2
  <2>. HIDE DEF Wallet, Principals, Vaults
  <2>. QED BY <1>4, <2>3, <2>4, <2>5, <2>6
<1>10. CASE \E amount \in Amounts : DecreaseDelegateStake(d, g, amount)
  <2>1. PICK amount \in Amounts : DecreaseDelegateStake(d, g, amount)
    BY <1>10
  <2>2. DelegationToVault(g, d, amount) /\ held - amount >= 0
    BY <2>1 DEF DecreaseDelegateStake, held
  <2>3. amount \in Nat /\ held - amount \in Nat
    BY <1>1, <1>2, <2>2
  <2>. QED BY <1>8, <2>2, <2>3
<1>11. CASE DelegationToVault(g, d, held)
  <2>1. held - held \in Nat
    BY <1>1
  <2>. QED BY <1>1, <1>8, <1>11, <2>1
<1>12. CASE \E amount \in Amounts : DeductDelegationForPayment(d, g, amount)
  <2>1. PICK amount \in Amounts : DeductDelegationForPayment(d, g, amount)
    BY <1>12
  <2>. DEFINE x == held - amount
  <2>2. /\ SetPrincipal(g, d, x) /\ x >= 0
        /\ UNCHANGED <<cumulative_reward, operator_stake, vault_amount, wallet>>
    BY <2>1 DEF DeductDelegationForPayment, PoolToTreasury, held
  <2>3. x \in Nat /\ x - held \in Int /\ 0 + (x - held) + 0 <= 0
    BY <1>1, <1>2, <2>2
  <2>. HIDE DEF x
  <2>4. Principals(x - held)
    BY <1>7, <2>2, <2>3
  <2>5. Wallet(0) /\ Vaults(0) /\ UNCHANGED operator_stake
    BY <1>5, <1>6, <2>2
  <2>. HIDE DEF Wallet, Principals, Vaults
  <2>. QED BY <1>4, <2>3, <2>4, <2>5
<1>13. CASE \E amount \in Amounts, h \in Operators : RedelegateStake(d, g, h, amount)
  <2>1. PICK amount \in Amounts, h \in Operators : RedelegateStake(d, g, h, amount)
    BY <1>13
  <2>2. UNCHANGED <<operator_stake, vault_amount, wallet>>
    BY <2>1 DEF RedelegateStake, PoolToTreasury
  <2>3. /\ PrincipalsOf(d)' <= PrincipalsOf(d)
        /\ \A a \in Accounts : a # d => PrincipalsOf(a)' = PrincipalsOf(a)
    BY <2>1, RedelegateWealth
  <2>4. PrincipalsOf(d) + 0 = PrincipalsOf(d)
    BY <1>1
  <2>5. Principals(0)
    BY <2>3, <2>4
  <2>6. Wallet(0) /\ Vaults(0) /\ UNCHANGED operator_stake
    BY <1>5, <1>6, <2>2
  <2>. HIDE DEF Wallet, Principals, Vaults
  <2>. QED BY <1>4, <2>5, <2>6
<1>14. CASE CompoundDelegationRewards(g, d)
  <2>1. /\ SetPrincipal(g, d, held)
        /\ UNCHANGED <<cumulative_reward, operator_stake, vault_amount, wallet>>
    BY <1>14 DEF CompoundDelegationRewards, held
  <2>2. held - held \in Int /\ 0 + (held - held) + 0 <= 0
    BY <1>1
  <2>3. Principals(held - held)
    BY <1>1, <1>7, <2>1
  <2>4. Wallet(0) /\ Vaults(0) /\ UNCHANGED operator_stake
    BY <1>5, <1>6, <2>1
  <2>. HIDE DEF Wallet, Principals, Vaults
  <2>. QED BY <1>4, <2>2, <2>3, <2>4
<1>15. CASE CloseEmptyDelegation(g, d)
  <2>1. /\ del_amount[<<g, d>>] = 0 /\ reward_debt' = [reward_debt EXCEPT ![<<g, d>>] = 0]
        /\ UNCHANGED <<cumulative_reward, del_amount, operator_stake, vault_amount, wallet>>
    BY <1>15 DEF CloseEmptyDelegation
  <2>2. ASSUME NEW k \in Operators, NEW e \in Accounts PROVE Stays(k, e)
    <3>1. CASE <<k, e>> = <<g, d>>
      BY <2>1, <3>1, Untouched DEF Stays
    <3>2. CASE <<k, e>> # <<g, d>>
      <4>1. reward_debt'[<<k, e>>] = reward_debt[<<k, e>>]
        BY <2>1, <3>2, PairIn DEF TypeOK, DelegationTypes
      <4>. QED BY <2>1, <4>1, Untouched DEF Stays
    <3>. QED BY <3>1, <3>2
  <2>3. \A a \in Accounts : StakeOf(a)' <= StakeOf(a)
    <3>1. \A a \in Accounts : StakeOf(a)' = StakeOf(a) /\ StakeOf(a) \in Nat
      BY <2>1, StakesSame, PartsAreNat DEF PartsNat
    <3>. QED BY <3>1
  <2>. QED BY <2>1, <2>2, <2>3, NobodyMoves
<1>16. CASE UNCHANGED <<del_amount, reward_debt, cumulative_reward, wallet, vault_amount, operator_stake>>
  <2>1. \A a \in Accounts : StakeOf(a)' <= StakeOf(a)
    <3>1. \A a \in Accounts : StakeOf(a)' = StakeOf(a) /\ StakeOf(a) \in Nat
      BY <1>16, StakesSame, PartsAreNat DEF PartsNat
    <3>. QED BY <3>1
  <2>. QED BY <1>16, <2>1, AllStay, NobodyMoves
<1>17. /\ ClaimDelegateFromLeavingGateway(g, d) => DelegationToVault(g, d, held)
       /\ ClaimDelegateFromDisabledGateway(g, d) => DelegationToVault(g, d, held)
  BY DEF ClaimDelegateFromLeavingGateway, ClaimDelegateFromDisabledGateway, held
<1>18. AllowDelegate(g, d) \/ DisallowDelegate(g, d) =>
         UNCHANGED <<del_amount, reward_debt, cumulative_reward, wallet, vault_amount, operator_stake>>
  BY DEF AllowDelegate, DisallowDelegate
<1>. QED BY <1>9, <1>10, <1>11, <1>12, <1>13, <1>14, <1>15, <1>16, <1>17, <1>18

(* The withdrawal vaults: a vault's tokens go to its owner's wallet, back  *)
(* to the owner's stake, or to the treasury.                               *)
LEMMA VaultWealth ==
  TypeOK /\ TypeOK' /\ OwnVaults /\ VaultNext => NobodyRicher
<1>. SUFFICES ASSUME TypeOK, TypeOK', OwnVaults, NEW v \in VaultIds,
                     \/ ClaimWithdrawal(v)
                     \/ InstantWithdrawal(v)
                     \/ CloseDrainedWithdrawal(v)
                     \/ CancelOperatorWithdrawal(v)
                     \/ CancelDelegateWithdrawal(v)
                     \/ \E amount \in Amounts : DeductWithdrawalForPayment(v, amount)
              PROVE  NobodyRicher
  BY DEF VaultNext
<1>. USE DEF clockVars, tokenVars, counterVars, stakeVars, gatewayVars,
             delegationVars, vaultVars, otherVars
<1>0. PICK o \in Accounts : o = v[1]
  BY DEF VaultIds
<1>. DEFINE x == vault_amount[v]
<1>1. /\ wallet[o] \in Nat /\ wallet \in [Accounts -> Nat]
      /\ PrincipalsOf(o) \in Nat /\ VaultsOf(o) \in Nat /\ StakeOf(o) \in Nat
      /\ x \in Nat
      /\ vault \in [VaultIds -> VaultRecord \cup {NoVault}]
      /\ vault_amount \in [VaultIds -> Nat]
  BY PartsAreNat DEF TypeOK, TokenTypes, VaultTypes, PartsNat
<1>2. \A amount \in Amounts : amount \in Nat
  BY InputAssumption
<1>. HIDE DEF x
<1>. DEFINE Wallet(w) == /\ wallet'[o] = wallet[o] + w
                         /\ \A a \in Accounts : a # o => wallet'[a] = wallet[a]
            Stake(s) == /\ StakeOf(o)' = StakeOf(o) + s
                        /\ \A a \in Accounts : a # o => StakeOf(a)' = StakeOf(a)
            Principals(p) == /\ PrincipalsOf(o)' = PrincipalsOf(o) + p
                             /\ \A a \in Accounts : a # o => PrincipalsOf(a)' = PrincipalsOf(a)
            Vaults(y) == /\ VaultsOf(o)' = VaultsOf(o) + y
                         /\ \A a \in Accounts : a # o => VaultsOf(a)' = VaultsOf(a)
<1>4. ASSUME NEW w \in Int, NEW s \in Int, NEW p \in Int, NEW y \in Int,
             Wallet(w), Stake(s), Principals(p), Vaults(y), w + s + p + y <= 0
      PROVE  NobodyRicher
  <2>1. \A a \in Accounts : a # o => Aside(a)
    BY <1>4 DEF Aside
  <2>2. /\ wallet'[o] <= wallet[o] + w /\ StakeOf(o)' <= StakeOf(o) + s
        /\ PrincipalsOf(o)' <= PrincipalsOf(o) + p /\ VaultsOf(o)' <= VaultsOf(o) + y
    BY <1>1, <1>4
  <2>. HIDE DEF Wallet, Stake, Principals, Vaults
  <2>. QED BY <1>4, <2>1, <2>2, OneAccount
<1>5. UNCHANGED wallet => Wallet(0)
  BY <1>1
<1>6. UNCHANGED operator_stake => Stake(0)
  BY <1>1, StakesSame
<1>7. UNCHANGED <<del_amount, reward_debt, cumulative_reward>> => Principals(0)
  <2>1. SUFFICES ASSUME UNCHANGED <<del_amount, reward_debt, cumulative_reward>>
                 PROVE  Principals(0)
    OBVIOUS
  <2>2. \A g \in Operators, d \in Accounts : Stays(g, d)
    BY <2>1, AllStay
  <2>3. \A a \in Accounts : PrincipalsOf(a)' = PrincipalsOf(a)
    BY <2>2, PrincipalsSame
  <2>. QED BY <1>1, <2>3
<1>8. CloseVault(v) => Vaults(0 - x)
  <2>1. SUFFICES ASSUME CloseVault(v) PROVE Vaults(0 - x)
    OBVIOUS
  <2>2. /\ VaultsOf(o)' = VaultsOf(o) - x
        /\ \A a \in Accounts : a # o => VaultsOf(a)' = VaultsOf(a)
    BY <1>0, <2>1, CloseVaultWealth DEF x
  <2>. QED BY <1>1, <2>2
<1>9. CASE ClaimWithdrawal(v)
  <2>1. /\ CloseVault(v) /\ wallet' = [wallet EXCEPT ![o] = @ + x]
        /\ UNCHANGED <<operator_stake, del_amount, reward_debt, cumulative_reward>>
    BY <1>0, <1>9 DEF ClaimWithdrawal, PoolToWallet, x
  <2>2. x \in Int /\ 0 - x \in Int /\ x + 0 + 0 + (0 - x) <= 0
    BY <1>1
  <2>3. Wallet(x)
    BY <1>1, <2>1
  <2>4. Stake(0) /\ Principals(0) /\ Vaults(0 - x)
    BY <1>6, <1>7, <1>8, <2>1
  <2>. HIDE DEF Wallet, Stake, Principals, Vaults
  <2>. QED BY <1>4, <2>2, <2>3, <2>4
<1>10. CASE InstantWithdrawal(v)
  <2>. DEFINE fee == (x * PenaltyRate(v)) \div RateScale
              w == SatSub(x, fee)
  <2>1. /\ CloseVault(v) /\ Open(v) /\ wallet' = [wallet EXCEPT ![o] = @ + w]
        /\ UNCHANGED <<operator_stake, del_amount, reward_debt, cumulative_reward>>
    BY <1>0, <1>10 DEF InstantWithdrawal, PoolToWallet, x
  <2>2. PenaltyRate(v) \in Nat /\ RateScale \in Nat \ {0}
    BY <2>1, PenaltyRateNat, ScaleAssumption
  <2>3. fee \in Nat
    BY <1>1, <2>2, DivNat
  <2>. HIDE DEF fee
  <2>4. w \in Nat /\ w <= x
    BY <1>1, <2>3, SatSubNat
  <2>. HIDE DEF w
  <2>5. w \in Int /\ 0 - x \in Int /\ w + 0 + 0 + (0 - x) <= 0
    BY <1>1, <2>4
  <2>6. Wallet(w)
    BY <1>1, <2>1, <2>5
  <2>7. Stake(0) /\ Principals(0) /\ Vaults(0 - x)
    BY <1>6, <1>7, <1>8, <2>1
  <2>. HIDE DEF Wallet, Stake, Principals, Vaults
  <2>. QED BY <1>4, <2>5, <2>6, <2>7
<1>11. CASE CloseDrainedWithdrawal(v)
  <2>1. /\ CloseVault(v)
        /\ UNCHANGED <<wallet, operator_stake, del_amount, reward_debt, cumulative_reward>>
    BY <1>11 DEF CloseDrainedWithdrawal
  <2>2. 0 - x \in Int /\ 0 + 0 + 0 + (0 - x) <= 0
    BY <1>1
  <2>3. Wallet(0) /\ Stake(0) /\ Principals(0) /\ Vaults(0 - x)
    BY <1>5, <1>6, <1>7, <1>8, <2>1
  <2>. HIDE DEF Wallet, Stake, Principals, Vaults
  <2>. QED BY <1>4, <2>2, <2>3
<1>12. CASE CancelOperatorWithdrawal(v)
  <2>1. /\ CloseVault(v) /\ Open(v) /\ ~vault[v].is_delegate
        /\ operator_stake' = [operator_stake EXCEPT ![vault[v].gateway] = @ + x]
        /\ UNCHANGED <<wallet, del_amount, reward_debt, cumulative_reward>>
    BY <1>12 DEF CancelOperatorWithdrawal, x
  <2>2. o \in Operators /\ vault[v].gateway = o
    BY <1>0, <1>1, <2>1 DEF OwnVaults, Open, VaultRecord
  <2>3. operator_stake' = [operator_stake EXCEPT ![o] = @ + x]
    BY <2>1, <2>2
  <2>4. Stake(x)
    BY <1>1, <2>2, <2>3 DEF TypeOK, StakeTypes, StakeOf
  <2>5. x \in Int /\ 0 - x \in Int /\ 0 + x + 0 + (0 - x) <= 0
    BY <1>1
  <2>6. Wallet(0) /\ Principals(0) /\ Vaults(0 - x)
    BY <1>5, <1>7, <1>8, <2>1
  <2>. HIDE DEF Wallet, Stake, Principals, Vaults
  <2>. QED BY <1>4, <2>4, <2>5, <2>6
<1>13. CASE CancelDelegateWithdrawal(v)
  <2>. DEFINE g == vault[v].gateway
  <2>1. /\ CloseVault(v) /\ Open(v) /\ SetPrincipal(g, o, Principal(g, o) + x)
        /\ UNCHANGED <<wallet, operator_stake, cumulative_reward>>
    BY <1>0, <1>13 DEF CancelDelegateWithdrawal, x
  <2>2. g \in Operators
    BY <1>1, <2>1 DEF Open, VaultRecord
  <2>. HIDE DEF g
  <2>3. Principal(g, o) \in Nat
    BY <2>2, PendingNat
  <2>4. Principal(g, o) + x \in Nat
    BY <1>1, <2>3
  <2>5. /\ PrincipalsOf(o)' = PrincipalsOf(o) - Principal(g, o) + (Principal(g, o) + x)
        /\ \A a \in Accounts : a # o => PrincipalsOf(a)' = PrincipalsOf(a)
    BY <2>1, <2>2, <2>4, SetPrincipalWealth
  <2>6. Principals(x)
    BY <1>1, <2>3, <2>5
  <2>7. x \in Int /\ 0 - x \in Int /\ 0 + 0 + x + (0 - x) <= 0
    BY <1>1
  <2>8. Wallet(0) /\ Stake(0) /\ Vaults(0 - x)
    BY <1>5, <1>6, <1>8, <2>1
  <2>. HIDE DEF Wallet, Stake, Principals, Vaults
  <2>. QED BY <1>4, <2>6, <2>7, <2>8
<1>14. CASE \E amount \in Amounts : DeductWithdrawalForPayment(v, amount)
  <2>1. PICK amount \in Amounts : DeductWithdrawalForPayment(v, amount)
    BY <1>14
  <2>2. /\ vault_amount' = [vault_amount EXCEPT ![v] = @ - amount]
        /\ UNCHANGED <<wallet, operator_stake, del_amount, reward_debt, cumulative_reward>>
    BY <2>1 DEF DeductWithdrawalForPayment, PoolToTreasury
  <2>3. /\ vault_amount'[v] = x - amount
        /\ \A u \in VaultIds : u # v => vault_amount'[u] = vault_amount[u]
    BY <1>1, <2>2 DEF x
  <2>4. /\ VaultsOf(o)' = VaultsOf(o) - x + (x - amount)
        /\ \A a \in Accounts : a # o => VaultsOf(a)' = VaultsOf(a)
    BY <1>0, <2>3, VaultsAt DEF x
  <2>5. amount \in Int /\ 0 - amount \in Int /\ 0 + 0 + 0 + (0 - amount) <= 0
    BY <1>2
  <2>6. Vaults(0 - amount)
    BY <1>1, <2>4, <2>5
  <2>7. Wallet(0) /\ Stake(0) /\ Principals(0)
    BY <1>5, <1>6, <1>7, <2>2
  <2>. HIDE DEF Wallet, Stake, Principals, Vaults
  <2>. QED BY <1>4, <2>5, <2>6, <2>7
<1>. QED BY <1>9, <1>10, <1>11, <1>12, <1>13, <1>14

(* A funding plan spends from the payer only.                              *)
LEMMA PayerWealth ==
  TypeOK /\ TypeOK' /\ ClosedEmpty /\ PlanNext => NobodyRicher
<1>. SUFFICES ASSUME TypeOK, TypeOK', ClosedEmpty, PlanNext PROVE NobodyRicher
  OBVIOUS
<1>. PICK a \in Accounts, p \in Plans : \E slot \in PlanSlots(a, p) : PayFromFundingPlan(a, p, slot)
  BY DEF PlanNext
<1>. PICK slot \in PlanSlots(a, p) : PayFromFundingPlan(a, p, slot)
  OBVIOUS
<1>. PICK residue : residue = SumFunctionOnSet([g \in Operators |-> PlanResidue(a, p, g)], Operators)
  OBVIOUS
<1>1. /\ residue \in Nat
      /\ PrincipalsOf(a)' <= PrincipalsOf(a) - residue
      /\ VaultsOf(a)' <= VaultsOf(a) + residue
      /\ \A c \in Accounts : c # a =>
           PrincipalsOf(c)' = PrincipalsOf(c) /\ VaultsOf(c)' = VaultsOf(c)
  BY PlanWealth
<1>2. /\ PlanAllowed(a, p)
      /\ wallet' = [wallet EXCEPT ![a] = @ - p.balance]
      /\ operator_stake' = [g \in Operators |->
             IF g = a THEN operator_stake[g] - p.stake ELSE operator_stake[g]]
  BY DEF PayFromFundingPlan
<1>3. p.balance \in Nat /\ p.stake \in Nat
  BY <1>2, PlanNat
<1>4. /\ wallet'[a] <= wallet[a] + 0
      /\ \A c \in Accounts : c # a => wallet'[c] = wallet[c]
  BY <1>2, <1>3 DEF TypeOK, TokenTypes
<1>5. /\ StakeOf(a)' <= StakeOf(a) + 0
      /\ \A c \in Accounts : c # a => StakeOf(c)' = StakeOf(c)
  <2>1. \A g \in Operators : operator_stake[g] \in Nat
    BY DEF TypeOK, StakeTypes
  <2>. QED BY <1>2, <1>3, <2>1 DEF StakeOf
<1>6. \A c \in Accounts : c # a => Aside(c)
  BY <1>1, <1>4, <1>5 DEF Aside
<1>7. PrincipalsOf(a)' <= PrincipalsOf(a) + (0 - residue)
  <2>1. PrincipalsOf(a) \in Nat
    BY PartsAreNat DEF PartsNat
  <2>. QED BY <1>1, <2>1
<1>8. residue \in Int /\ 0 - residue \in Int /\ 0 + 0 + (0 - residue) + residue <= 0
  BY <1>1
<1>. QED BY <1>1, <1>4, <1>5, <1>6, <1>7, <1>8, OneAccount

(* No step but a distribution makes anyone richer.                         *)
LEMMA WealthStep ==
  /\ TypeOK /\ TypeOK' /\ DelegationInv /\ ClosedEmpty /\ OwnVaults
  /\ [Next]_vars /\ rounds' = rounds
  => NobodyRicher
<1>. SUFFICES ASSUME TypeOK, TypeOK', DelegationInv, ClosedEmpty, OwnVaults,
                     [Next]_vars, rounds' = rounds
              PROVE  NobodyRicher
  OBVIOUS
<1>1. ASSUME NEW o \in [Operators -> Outcomes], DistributeEpoch(o) PROVE FALSE
  BY <1>1 DEF DistributeEpoch, TypeOK, ClockTypes
<1>2. ASSUME UNCHANGED <<tokenVars, stakeVars, delegationVars, vaultVars>> PROVE NobodyRicher
  <2>1. UNCHANGED <<wallet, vault_amount, operator_stake, del_amount, reward_debt, cumulative_reward>>
    BY <1>2 DEF tokenVars, stakeVars, delegationVars, vaultVars
  <2>2. \A a \in Accounts : StakeOf(a)' <= StakeOf(a)
    <3>1. \A a \in Accounts : StakeOf(a)' = StakeOf(a) /\ StakeOf(a) \in Nat
      BY <2>1, StakesSame, PartsAreNat DEF PartsNat
    <3>. QED BY <3>1
  <2>. QED BY <2>1, <2>2, AllStay, NobodyMoves
<1>3. ASSUME \/ \E period \in Periods : AdminSetWithdrawalPeriod(period)
             \/ Tick
             \/ UNCHANGED vars
      PROVE  NobodyRicher
  BY <1>2, <1>3 DEF AdminSetWithdrawalPeriod, Tick, vars
<1>. QED BY <1>1, <1>3, OperatorWealth, DelegatorWealth, VaultWealth, PayerWealth DEF Next

(* OnlyRewardsEnrich: no instruction but a distribution, in any order and  *)
(* for any number of accounts, raises what an account could take out.      *)
THEOREM OnlyRewardsEnrichHolds == Spec => OnlyRewardsEnrich
<1>1. /\ TypeOK /\ TypeOK' /\ DelegationInv /\ ClosedEmpty /\ OwnVaults /\ [Next]_vars
      => [ rounds' = rounds => \A a \in Accounts : Wealth(a)' <= Wealth(a) ]_vars
  BY WealthStep DEF NobodyRicher
<1>2. SupplyInv => ClosedEmpty
  BY DEF SupplyInv
<1>. QED BY <1>1, <1>2, TypeCorrect, DelegationHolds, SupplyHolds, OwnVaultsHold, PTL
         DEF Spec, OnlyRewardsEnrich

(* Only a distribution counts a round. *)
LEMMA RoundsStep ==
  [Next]_vars /\ rounds' # rounds => \E o \in [Operators -> Outcomes] : DistributeEpoch(o)
<1>. SUFFICES ASSUME [Next]_vars, rounds' # rounds,
                     ~ \E o \in [Operators -> Outcomes] : DistributeEpoch(o)
              PROVE  FALSE
  OBVIOUS
<1>. USE DEF clockVars
<1>1. OperatorNext => UNCHANGED rounds
  BY DEF OperatorNext, JoinNetwork, IncreaseOperatorStake, DecreaseOperatorStake,
         DeductOperatorStakeForPayment, LeaveNetwork, PruneGateway, FinalizeGone,
         UpdateGatewaySettings, SetAllowlistEnabled
<1>2. DelegatorNext => UNCHANGED rounds
  <2>. SUFFICES ASSUME DelegatorNext PROVE UNCHANGED rounds
    OBVIOUS
  <2>. PICK g \in Operators, d \in Accounts :
         \/ \E amount \in Amounts :
              \/ DelegateStake(d, g, amount)
              \/ DecreaseDelegateStake(d, g, amount)
              \/ DeductDelegationForPayment(d, g, amount)
              \/ \E h \in Operators : RedelegateStake(d, g, h, amount)
         \/ ClaimDelegateFromLeavingGateway(g, d)
         \/ ClaimDelegateFromDisabledGateway(g, d)
         \/ CloseEmptyDelegation(g, d)
         \/ CompoundDelegationRewards(g, d)
         \/ AllowDelegate(g, d)
         \/ DisallowDelegate(g, d)
    BY DEF DelegatorNext
  <2>1. \A amount : DelegationToVault(g, d, amount) => UNCHANGED rounds
    BY DEF DelegationToVault
  <2>2. \A amount \in Amounts : DelegateStake(d, g, amount) => UNCHANGED rounds
    BY DEF DelegateStake
  <2>3. \A amount \in Amounts : DecreaseDelegateStake(d, g, amount) => UNCHANGED rounds
    BY <2>1 DEF DecreaseDelegateStake
  <2>4. \A amount \in Amounts : DeductDelegationForPayment(d, g, amount) => UNCHANGED rounds
    BY DEF DeductDelegationForPayment
  <2>5. \A amount \in Amounts, h \in Operators : RedelegateStake(d, g, h, amount) => UNCHANGED rounds
    BY DEF RedelegateStake
  <2>6. ClaimDelegateFromLeavingGateway(g, d) \/ ClaimDelegateFromDisabledGateway(g, d)
          => UNCHANGED rounds
    BY <2>1 DEF ClaimDelegateFromLeavingGateway, ClaimDelegateFromDisabledGateway
  <2>7. /\ CloseEmptyDelegation(g, d) \/ CompoundDelegationRewards(g, d) => UNCHANGED rounds
        /\ AllowDelegate(g, d) \/ DisallowDelegate(g, d) => UNCHANGED rounds
    BY DEF CloseEmptyDelegation, CompoundDelegationRewards, AllowDelegate, DisallowDelegate
  <2>. QED BY <2>2, <2>3, <2>4, <2>5, <2>6, <2>7
<1>3. VaultNext => UNCHANGED rounds
  BY DEF VaultNext, ClaimWithdrawal, InstantWithdrawal, CloseDrainedWithdrawal,
         CancelOperatorWithdrawal, CancelDelegateWithdrawal, DeductWithdrawalForPayment
<1>4. PlanNext => UNCHANGED rounds
  BY DEF PlanNext, PayFromFundingPlan
<1>5. /\ \A period \in Periods : AdminSetWithdrawalPeriod(period) => UNCHANGED rounds
      /\ Tick => UNCHANGED rounds
      /\ UNCHANGED vars => UNCHANGED rounds
  BY DEF AdminSetWithdrawalPeriod, Tick, vars
<1>. QED BY <1>1, <1>2, <1>3, <1>4, <1>5 DEF Next

(* A distribution makes nobody poorer. *)
LEMMA NobodyPoorer ==
  ASSUME TypeOK, TypeOK', DelegationInv, NEW o \in [Operators -> Outcomes], DistributeEpoch(o),
         NEW a \in Accounts
  PROVE  Wealth(a)' >= Wealth(a)
<1>. DEFINE f == [g \in Operators |-> Principal(g, a)]
            h == [g \in Operators |-> Principal(g, a)']
<1>1. /\ wallet[a] \in Nat /\ StakeOf(a) \in Nat
      /\ PrincipalsOf(a) \in Nat /\ VaultsOf(a) \in Nat
      /\ Wealth(a) = wallet[a] + StakeOf(a) + PrincipalsOf(a) + VaultsOf(a)
  BY PartsAreNat DEF PartsNat
<1>2. /\ wallet'[a] \in Nat /\ StakeOf(a)' \in Nat
      /\ PrincipalsOf(a)' \in Nat /\ VaultsOf(a)' \in Nat
      /\ Wealth(a)' = wallet'[a] + StakeOf(a)' + PrincipalsOf(a)' + VaultsOf(a)'
  BY PartsNext DEF PartsNat
<1>3. /\ UNCHANGED <<wallet, vault_amount>>
      /\ operator_stake' = [g \in Operators |-> operator_stake[g] + OperatorReward(o, g)]
  BY DEF DistributeEpoch, vaultVars
<1>4. wallet'[a] = wallet[a] /\ VaultsOf(a)' = VaultsOf(a)
  BY <1>3, VaultsSame
<1>5. StakeOf(a)' >= StakeOf(a)
  <2>1. \A g \in Operators : operator_stake[g] \in Nat /\ OperatorReward(o, g) \in Nat
    BY BatchNat DEF TypeOK, StakeTypes
  <2>. QED BY <1>3, <2>1 DEF StakeOf
<1>6. \A g \in Operators : f[g] \in Int /\ h[g] \in Int /\ f[g] <= h[g]
  <2>1. \A g \in Operators : Principal(g, a)' \in Nat
    BY PrincipalNext DEF PrincipalsNat
  <2>2. \A g \in Operators : Principal(g, a) \in Nat
    BY PendingNat
  <2>3. \A g \in Operators : Principal(g, a)' >= Principal(g, a)
    BY DistributeGrows
  <2>. QED BY <2>1, <2>2, <2>3
<1>7. PrincipalsOf(a) = SumFunctionOnSet(f, Operators) /\ PrincipalsOf(a)' = SumFunctionOnSet(h, Operators)
  BY DEF PrincipalsOf, Total
<1>. HIDE DEF f, h
<1>8. PrincipalsOf(a) <= PrincipalsOf(a)'
  BY <1>6, <1>7, Finite, SumMono
<1>. QED BY <1>1, <1>2, <1>4, <1>5, <1>8

(* The claims to the fraction of a token, by the supply counters. *)
LEMMA ExactByCounters ==
  SupplyInv => ExactClaims = RewardPrecision * (total_staked + total_delegated + total_withdrawn) + AllOwed
BY DEF SupplyInv, SupplyCounters, ExactClaims

(* So they are after a step. *)
LEMMA ExactNext ==
  SupplyInv' =>
    ExactClaims' = RewardPrecision * (total_staked' + total_delegated' + total_withdrawn') + AllOwed'
BY DEF SupplyInv, SupplyCounters, ExactClaims

(* A distribution promises no more than the pool receives, and what it does *)
(* not promise of it is lost to rounding.                                   *)
LEMMA ClaimsCovered ==
  ASSUME TypeOK, TypeOK', DelegationInv, SupplyInv, SupplyInv',
         NEW o \in [Operators -> Outcomes], DistributeEpoch(o)
  PROVE  /\ ExactClaims' - ExactClaims <= RewardPrecision * (stake_pool' - stake_pool)
         /\ RewardPrecision * (stake_pool' - stake_pool) - (ExactClaims' - ExactClaims)
              <= RoundingLoss
         /\ stake_pool' + treasury' = stake_pool + treasury
<1>. DEFINE E == SumFunctionOnSet([g \in Operators |-> OperatorReward(o, g)], Operators)
            N == SumFunctionOnSet([g \in Operators |-> Orphaned(o, g)], Operators)
            K == SumFunctionOnSet([g \in Operators |-> Kept(o, g)], Operators)
            P == SatSub(Transferred(o), N)
            S == total_staked + total_delegated + total_withdrawn
            n == Cardinality({g \in Operators : Joined(g)})
            L == IF n > 0 THEN n - 1 ELSE 0
            D == Total(total_delegated_stake, Operators)
<1>1. /\ stake_pool' = stake_pool + P /\ treasury' = treasury - P
      /\ total_staked' = total_staked + E
      /\ UNCHANGED <<total_delegated, total_withdrawn>>
  BY DEF DistributeEpoch
<1>2. E \in Nat /\ N \in Nat
  BY BatchSums
<1>3. /\ K \in Nat /\ E + N + K <= Transferred(o)
      /\ E + N + K = SumFunctionOnSet([g \in Operators |-> Scaled(o, g)], Operators)
  BY BatchCovered
<1>4. Transferred(o) \in Nat
  BY BatchNat
<1>5. /\ AllOwed' <= AllOwed + RewardPrecision * K
      /\ AllOwed + RewardPrecision * K <= AllOwed' + D
  BY DistributeOwed
<1>6. AllOwed \in Nat /\ AllOwed' \in Nat /\ RewardPrecision \in Nat
  BY AllOwedNat, AllOwedNext, ScaleAssumption
<1>7. /\ stake_pool \in Nat /\ total_staked \in Nat /\ treasury \in Nat
      /\ total_delegated \in Nat /\ total_withdrawn \in Nat
  BY DEF TypeOK, TokenTypes, CounterTypes
<1>8. D \in Nat
  BY <1>7 DEF SupplyInv, SupplyCounters
<1>9. L \in Nat
  <2>1. n \in Nat
    BY Finite, FS_Subset, FS_CardinalityType
  <2>. HIDE DEF n
  <2>. QED BY <2>1
<1>10. Transferred(o) - (E + N + K) <= L
  <2>1. \A g \in Operators : o[g] # Idle => Joined(g)
    BY DEF DistributeEpoch
  <2>2. Transferred(o) - SumFunctionOnSet([g \in Operators |-> Scaled(o, g)], Operators) <= L
    BY <2>1, ScaledLoss
  <2>. QED BY <1>3, <2>2
<1>11. RoundingLoss = RewardPrecision * L + D
  BY DEF RoundingLoss
<1>. HIDE DEF E, N, K, D, L
<1>12. P \in Nat /\ E + K <= P /\ P <= E + K + L
  BY <1>2, <1>3, <1>4, <1>9, <1>10 DEF SatSub
<1>13. ExactClaims = RewardPrecision * S + AllOwed
  BY ExactByCounters
<1>14. ExactClaims' = RewardPrecision * (S + E) + AllOwed'
  <2>1. total_staked' + total_delegated' + total_withdrawn' = S + E
    BY <1>1, <1>2, <1>7
  <2>. QED BY <2>1, ExactNext
<1>15. S \in Nat
  BY <1>7
<1>. HIDE DEF P, S
<1>16. /\ RewardPrecision * S \in Nat /\ RewardPrecision * E \in Nat
       /\ RewardPrecision * K \in Nat /\ RewardPrecision * P \in Nat
       /\ RewardPrecision * L \in Nat
  <2>1. \A m, x \in Nat : m * x \in Nat
    OBVIOUS
  <2>. QED BY <1>2, <1>3, <1>6, <1>9, <1>12, <1>15, <2>1
<1>17. /\ RewardPrecision * (S + E) = RewardPrecision * S + RewardPrecision * E
       /\ RewardPrecision * E + RewardPrecision * K <= RewardPrecision * P
       /\ RewardPrecision * P <= RewardPrecision * E + RewardPrecision * K + RewardPrecision * L
  <2>1. \A m, x, y \in Nat : m * (x + y) = m * x + m * y
    OBVIOUS
  <2>2. \A m, x, y \in Nat : x <= y => m * x <= m * y
    OBVIOUS
  <2>3. E + K \in Nat /\ E + K + L \in Nat
    BY <1>2, <1>3, <1>9
  <2>4. /\ RewardPrecision * (E + K) = RewardPrecision * E + RewardPrecision * K
        /\ RewardPrecision * (E + K + L) = RewardPrecision * (E + K) + RewardPrecision * L
    BY <1>2, <1>3, <1>6, <1>9, <2>1, <2>3
  <2>5. /\ RewardPrecision * (E + K) <= RewardPrecision * P
        /\ RewardPrecision * P <= RewardPrecision * (E + K + L)
    BY <1>6, <1>12, <2>2, <2>3
  <2>6. RewardPrecision * (S + E) = RewardPrecision * S + RewardPrecision * E
    BY <1>2, <1>6, <1>15, <2>1
  <2>. QED BY <2>4, <2>5, <2>6
<1>18. stake_pool' - stake_pool = P
  BY <1>1, <1>7, <1>12
<1>19. /\ ExactClaims' - ExactClaims <= RewardPrecision * P
       /\ RewardPrecision * P - (ExactClaims' - ExactClaims) <= RewardPrecision * L + D
  <2>. DEFINE m == RewardPrecision * S
              e == RewardPrecision * E
              k == RewardPrecision * K
              p == RewardPrecision * P
              l == RewardPrecision * L
  <2>1. /\ m \in Nat /\ e \in Nat /\ k \in Nat /\ p \in Nat /\ l \in Nat
        /\ ExactClaims = m + AllOwed /\ ExactClaims' = m + e + AllOwed'
        /\ e + k <= p /\ p <= e + k + l
        /\ AllOwed' <= AllOwed + k /\ AllOwed + k <= AllOwed' + D
    BY <1>5, <1>13, <1>14, <1>16, <1>17
  <2>. HIDE DEF m, e, k, p, l
  <2>2. \A a, b \in Nat : b <= a + k /\ a + k <= b + D
          => /\ (m + e + b) - (m + a) <= p
             /\ p - ((m + e + b) - (m + a)) <= l + D
    BY <1>8, <2>1
  <2>3. /\ (m + e + AllOwed') - (m + AllOwed) <= p
        /\ p - ((m + e + AllOwed') - (m + AllOwed)) <= l + D
    BY <1>6, <2>1, <2>2
  <2>4. ExactClaims' - ExactClaims <= p /\ p - (ExactClaims' - ExactClaims) <= l + D
    BY <2>1, <2>3
  <2>. QED BY <2>4 DEF p, l
<1>. QED BY <1>1, <1>7, <1>11, <1>12, <1>18, <1>19

(* DistributionCovered: however many gateways a batch pays and however     *)
(* often it is repeated, what it promises is backed to the fraction, and   *)
(* what it brings into the pool is promised, but for the rounding.         *)
THEOREM DistributionCoveredHolds == Spec => DistributionCovered
<1>1. TypeOK /\ TypeOK' /\ DelegationInv /\ SupplyInv /\ SupplyInv' /\ [Next]_vars
      => [ rounds' # rounds =>
             /\ \A a \in Accounts : Wealth(a)' >= Wealth(a)
             /\ ExactClaims' - ExactClaims <= RewardPrecision * (stake_pool' - stake_pool)
             /\ RewardPrecision * (stake_pool' - stake_pool) - (ExactClaims' - ExactClaims)
                  <= RoundingLoss
             /\ stake_pool' + treasury' = stake_pool + treasury ]_vars
  BY RoundsStep, NobodyPoorer, ClaimsCovered
<1>. QED BY <1>1, TypeCorrect, DelegationHolds, SupplyHolds, PTL DEF Spec, DistributionCovered
=============================================================================
