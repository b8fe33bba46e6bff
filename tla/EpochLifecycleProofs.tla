------------------------ MODULE EpochLifecycleProofs ------------------------
(***************************************************************************)
(* Proofs about EpochLifecycle, for every set of operators, every length   *)
(* of an epoch and every bound.                                            *)
(***************************************************************************)
EXTENDS EpochLifecycle, SumTheorems

-----------------------------------------------------------------------------
(***************************************************************************)
(* What a crank does to the record of its epoch.                           *)
(***************************************************************************)

(* An account that exists holds an Epoch. *)
LEMMA EpochTyped ==
  ASSUME TypeOK, NEW e \in Epochs, Exists(e)
  PROVE  epoch[e] \in EpochRecord
BY DEF TypeOK, Exists

(* What create_epoch fixes for good. *)
Framed(r, s) ==
  /\ r.start = s.start
  /\ r.active = s.active
  /\ r.total = s.total
  /\ r.has_rent_receipt = s.has_rent_receipt

(* How far the tally is. *)
TallyKept(r, s) ==
  /\ r.tally_index = s.tally_index
  /\ r.weights_tallied = s.weights_tallied

(* The account of e now holds r. *)
Holds(e, r) == r \in EpochRecord /\ epoch' = [epoch EXCEPT ![e] = r]

(* A tally in progress: two fields change. *)
Tallied(s, n, b) ==
  [s EXCEPT !.tally_index = n, !.weights_tallied = b]

(* The result is an Epoch with the same frame. *)
LEMMA RecordTally ==
  ASSUME NEW s \in EpochRecord, NEW n \in Nat, NEW b \in BOOLEAN
  PROVE  LET r == Tallied(s, n, b) IN
         /\ r \in EpochRecord /\ Framed(r, s)
         /\ r.tally_index = n /\ r.weights_tallied = b /\ r.distributed = s.distributed
BY DEF EpochRecord, Framed, Tallied

(* Prescribed observers and rewards per head. *)
Prescribed(s, S, p, q) ==
  [s EXCEPT !.observers = S, !.per_gateway = p, !.per_observer = q,
               !.prescriptions_done = TRUE]

(* The result is an Epoch with the same frame. *)
LEMMA RecordPrescribe ==
  ASSUME NEW s \in EpochRecord, NEW S \in SUBSET Operators, NEW p \in Nat, NEW q \in Nat
  PROVE  LET r == Prescribed(s, S, p, q) IN
         /\ r \in EpochRecord /\ Framed(r, s) /\ TallyKept(r, s)
         /\ r.distributed = s.distributed
BY DEF EpochRecord, Framed, TallyKept, Prescribed

(* A report. *)
Reported(s, O, f, m) ==
  [s EXCEPT !.observed = O, !.failure_counts = f, !.submitted = m]

(* The result is an Epoch with the same frame. *)
LEMMA RecordSave ==
  ASSUME NEW s \in EpochRecord, NEW O \in SUBSET Operators, NEW f \in [Slots -> Nat],
         NEW m \in Nat
  PROVE  LET r == Reported(s, O, f, m) IN
         /\ r \in EpochRecord /\ Framed(r, s) /\ TallyKept(r, s)
         /\ r.distributed = s.distributed
BY DEF EpochRecord, Framed, TallyKept, Reported

(* A closed report. *)
ReportClosed(s, m) ==
  [s EXCEPT !.closed = m]

(* The result is an Epoch with the same frame. *)
LEMMA RecordClosed ==
  ASSUME NEW s \in EpochRecord, NEW m \in Nat
  PROVE  LET r == ReportClosed(s, m) IN
         /\ r \in EpochRecord /\ Framed(r, s) /\ TallyKept(r, s)
         /\ r.distributed = s.distributed
BY DEF EpochRecord, Framed, TallyKept, ReportClosed

(* A batch of rewards. *)
Paid(s, n, b) ==
  [s EXCEPT !.distribution_index = n, !.distributed = b]

(* The result is an Epoch with the same frame. *)
LEMMA RecordDistribute ==
  ASSUME NEW s \in EpochRecord, NEW n \in Nat, NEW b \in BOOLEAN
  PROVE  LET r == Paid(s, n, b) IN
         /\ r \in EpochRecord /\ Framed(r, s) /\ TallyKept(r, s)
         /\ r.distributed = b
BY DEF EpochRecord, Framed, TallyKept, Paid

-----------------------------------------------------------------------------
(***************************************************************************)
(* The cranks and the observers, one by one.                               *)
(***************************************************************************)

(* Rounding down keeps a natural number one. *)
LEMMA DivNat ==
  ASSUME NEW a \in Nat, NEW b \in Nat \ {0}
  PROVE  a \div b \in Nat
OBVIOUS

(* The slots of an epoch hold gateways. *)
LEMMA CoveredSlots ==
  ASSUME TypeOK, NEW e \in Epochs, Exists(e)
  PROVE  /\ Covered(e) \subseteq DOMAIN registry
         /\ \A i \in Covered(e) : i \in Nat /\ registry[i] \in Operators
<1>1. epoch[e].active \in Nat
  BY EpochTyped DEF EpochRecord
<1>2. Len(registry) \in Nat /\ DOMAIN registry = 1 .. Len(registry)
  BY DEF TypeOK
<1>3. \A i \in DOMAIN registry : registry[i] \in Operators
  BY DEF TypeOK
<1>. QED BY <1>1, <1>2, <1>3 DEF Covered, MinOf

(* tally_weights moves the tally of its epoch and nothing else of it. *)
LEMMA TallyStep ==
  ASSUME TypeOK, NEW e \in Epochs, NEW n, NEW weighty, TallyWeights(e, n, weighty)
  PROVE  /\ Exists(e) /\ n \in Nat /\ epoch[e].tally_index <= n /\ n <= epoch[e].active
         /\ e = current_epoch_index - 1
         /\ \E r : /\ Holds(e, r) /\ Framed(r, epoch[e])
                   /\ r.tally_index = n
                   /\ r.weights_tallied => n >= epoch[e].active
                   /\ r.distributed = epoch[e].distributed
<1>1. Exists(e) /\ epoch[e] \in EpochRecord /\ e = current_epoch_index - 1
  BY EpochTyped DEF TallyWeights, MayTally
<1>2. n \in Nat /\ epoch[e].tally_index <= n /\ n <= epoch[e].active
  BY <1>1 DEF TallyWeights, EpochRecord
<1>. DEFINE b == n >= epoch[e].active
            r == Tallied(epoch[e], n, b)
<1>3. epoch' = [epoch EXCEPT ![e] = r]
  BY Zenon DEF TallyWeights, TypeOK, Tallied
<1>4. b \in BOOLEAN
  OBVIOUS
<1>. HIDE DEF r, b
<1>5. /\ r \in EpochRecord /\ Framed(r, epoch[e])
      /\ r.tally_index = n /\ r.weights_tallied = b
      /\ r.distributed = epoch[e].distributed
  BY <1>1, <1>2, <1>4, RecordTally DEF r
<1>6. r.weights_tallied => n >= epoch[e].active
  BY <1>5, Zenon DEF b
<1>7. Holds(e, r)
  BY <1>3, <1>5 DEF Holds
<1>. QED BY <1>1, <1>2, <1>5, <1>6, <1>7, Zenon

(* A reward per head is a natural number. *)
LEMMA ShareNat ==
  ASSUME NEW total \in Nat, NEW ratio \in Nat, NEW heads \in Nat \ {0}
  PROVE  ((total * ratio) \div RateScale) \div heads \in Nat
<1>1. total * ratio \in Nat
  OBVIOUS
<1>2. (total * ratio) \div RateScale \in Nat
  BY <1>1, DivNat, RateAssumption
<1>. QED BY <1>2, DivNat

(* prescribe_epoch keeps the frame and the tally of its epoch. *)
LEMMA PrescribeStep ==
  ASSUME TypeOK, NEW e \in Epochs, NEW S, PrescribeEpoch(e, S)
  PROVE  /\ Exists(e)
         /\ \E r : /\ Holds(e, r) /\ Framed(r, epoch[e]) /\ TallyKept(r, epoch[e])
                   /\ r.distributed = epoch[e].distributed
<1>. DEFINE p == IF Weighted(e) = {} THEN 0
                 ELSE ((epoch[e].total * GatewayRatio) \div RateScale) \div Sharers(e, S)
            q == IF S = {} THEN 0
                 ELSE ((epoch[e].total * (RateScale - GatewayRatio)) \div RateScale)
                        \div Cardinality(S)
            r == Prescribed(epoch[e], S, p, q)
<1>1. Exists(e) /\ epoch[e] \in EpochRecord
  BY EpochTyped DEF PrescribeEpoch
<1>2. Weighted(e) \in SUBSET Operators /\ S \in SUBSET Operators
  <2>1. Weighted(e) \subseteq Operators
    BY <1>1, CoveredSlots DEF Weighted
  <2>. QED BY <2>1 DEF PrescribeEpoch
<1>3. IsFiniteSet(Weighted(e)) /\ IsFiniteSet(S)
  BY <1>2, SetAssumption, FS_Subset
<1>4. epoch[e].total \in Nat
  BY <1>1 DEF EpochRecord
<1>5. p \in Nat
  <2>1. CASE Weighted(e) = {}
    BY <2>1
  <2>2. CASE Weighted(e) # {}
    <3>1. Sharers(e, S) \in Nat \ {0}
      BY <1>3, <2>2, FS_CardinalityType, FS_EmptySet DEF Sharers
    <3>2. GatewayRatio \in Nat
      BY RateAssumption
    <3>. QED BY <1>4, <2>2, <3>1, <3>2, ShareNat
  <2>. QED BY <2>1, <2>2
<1>6. q \in Nat
  <2>1. CASE S = {}
    BY <2>1
  <2>2. CASE S # {}
    <3>1. Cardinality(S) \in Nat \ {0}
      BY <1>3, <2>2, FS_CardinalityType, FS_EmptySet
    <3>2. RateScale - GatewayRatio \in Nat
      BY RateAssumption
    <3>. QED BY <1>4, <2>2, <3>1, <3>2, ShareNat
  <2>. QED BY <2>1, <2>2
<1>7. epoch' = [epoch EXCEPT ![e] = r]
  BY Zenon DEF PrescribeEpoch, TypeOK, Prescribed
<1>. HIDE DEF r, p, q
<1>8. /\ r \in EpochRecord /\ Framed(r, epoch[e]) /\ TallyKept(r, epoch[e])
      /\ r.distributed = epoch[e].distributed
  BY <1>1, <1>2, <1>5, <1>6, RecordPrescribe DEF r
<1>9. Holds(e, r)
  BY <1>7, <1>8 DEF Holds
<1>. QED BY <1>1, <1>8, <1>9

(* save_observations keeps the frame and the tally of its epoch. *)
LEMMA SaveStep ==
  ASSUME TypeOK, NEW e \in Epochs, NEW g \in Operators, NEW bad, SaveObservations(e, g, bad)
  PROVE  /\ Exists(e)
         /\ \E r : /\ Holds(e, r) /\ Framed(r, epoch[e]) /\ TallyKept(r, epoch[e])
                   /\ r.distributed = epoch[e].distributed
<1>. DEFINE O == epoch[e].observed \cup {g}
            f == [i \in Slots |-> epoch[e].failure_counts[i] + (IF i \in bad THEN 1 ELSE 0)]
            m == epoch[e].submitted + 1
            r == Reported(epoch[e], O, f, m)
<1>1. Exists(e) /\ epoch[e] \in EpochRecord
  BY EpochTyped DEF SaveObservations
<1>2. O \in SUBSET Operators /\ f \in [Slots -> Nat] /\ m \in Nat
  BY <1>1 DEF EpochRecord
<1>3. epoch' = [epoch EXCEPT ![e] = r]
  BY Zenon DEF SaveObservations, TypeOK, Reported
<1>. HIDE DEF r, O, f, m
<1>4. /\ r \in EpochRecord /\ Framed(r, epoch[e]) /\ TallyKept(r, epoch[e])
      /\ r.distributed = epoch[e].distributed
  BY <1>1, <1>2, RecordSave DEF r
<1>5. Holds(e, r)
  BY <1>3, <1>4 DEF Holds
<1>. QED BY <1>1, <1>4, <1>5

(* So does close_observation. *)
LEMMA CloseObservationStep ==
  ASSUME TypeOK, NEW e \in Epochs, NEW g \in Operators, CloseObservation(e, g)
  PROVE  /\ Exists(e)
         /\ \E r : /\ Holds(e, r) /\ Framed(r, epoch[e]) /\ TallyKept(r, epoch[e])
                   /\ r.distributed = epoch[e].distributed
<1>. DEFINE m == epoch[e].closed + 1
            r == ReportClosed(epoch[e], m)
<1>1. Exists(e) /\ epoch[e] \in EpochRecord
  BY EpochTyped DEF CloseObservation
<1>2. m \in Nat
  BY <1>1 DEF EpochRecord
<1>3. epoch' = [epoch EXCEPT ![e] = r]
  BY Zenon DEF CloseObservation, TypeOK, ReportClosed
<1>. HIDE DEF r, m
<1>4. /\ r \in EpochRecord /\ Framed(r, epoch[e]) /\ TallyKept(r, epoch[e])
      /\ r.distributed = epoch[e].distributed
  BY <1>1, <1>2, RecordClosed DEF r
<1>5. Holds(e, r)
  BY <1>3, <1>4 DEF Holds
<1>. QED BY <1>1, <1>4, <1>5

(* An epoch nobody reported on is finished at once. *)
LEMMA SkipStep ==
  ASSUME TypeOK, NEW e \in Epochs, SkipUnobserved(e)
  PROVE  /\ Exists(e)
         /\ \E r : Holds(e, r) /\ Framed(r, epoch[e]) /\ TallyKept(r, epoch[e]) /\ r.distributed
<1>. DEFINE r == Paid(epoch[e], epoch[e].active, TRUE)
<1>1. Exists(e) /\ epoch[e] \in EpochRecord
  BY EpochTyped DEF SkipUnobserved, MayDistribute
<1>2. epoch[e].active \in Nat
  BY <1>1 DEF EpochRecord
<1>3. epoch' = [epoch EXCEPT ![e] = r]
  BY Zenon DEF SkipUnobserved, TypeOK, Paid
<1>. HIDE DEF r
<1>4. r \in EpochRecord /\ Framed(r, epoch[e]) /\ TallyKept(r, epoch[e]) /\ r.distributed
  BY <1>1, <1>2, RecordDistribute, Zenon DEF r
<1>5. Holds(e, r)
  BY <1>3, <1>4 DEF Holds
<1>. QED BY <1>1, <1>4, <1>5

(* A gateway's reward is a natural number. *)
LEMMA RewardNat ==
  ASSUME TypeOK, NEW e \in Epochs, Exists(e), NEW i \in Covered(e)
  PROVE  FullReward(e, i) \in Nat
<1>1. epoch[e].per_gateway \in Nat /\ epoch[e].per_observer \in Nat
  BY EpochTyped DEF EpochRecord
<1>2. RateScale - PenaltyRate \in Nat
  BY RateAssumption
<1>3. epoch[e].per_gateway * (RateScale - PenaltyRate) \in Nat
  BY <1>1, <1>2
<1>4. (epoch[e].per_gateway * (RateScale - PenaltyRate)) \div RateScale \in Nat
  BY <1>3, DivNat, RateAssumption
<1>. QED BY <1>1, <1>4 DEF FullReward

(* What a batch pays is a natural number and no more than the treasury. *)
LEMMA TransferNat ==
  ASSUME TypeOK, NEW e \in Epochs, Exists(e), NEW n \in Nat
  PROVE  LET slots == Covered(e) \cap (epoch[e].distribution_index + 1 .. n)
             t     == MinOf(Due(e, slots), treasury)
         IN  t \in Nat /\ t <= treasury
<1>. DEFINE slots == Covered(e) \cap (epoch[e].distribution_index + 1 .. n)
<1>1. IsFiniteSet(slots)
  <2>1. epoch[e].distribution_index + 1 \in Int
    BY EpochTyped DEF EpochRecord
  <2>2. IsFiniteSet(epoch[e].distribution_index + 1 .. n)
    BY <2>1, FS_Interval
  <2>. QED BY <2>2, FS_Subset
<1>2. \A i \in slots : [j \in slots |-> FullReward(e, j)][i] \in Nat
  BY RewardNat
<1>. HIDE DEF slots
<1>3. Due(e, slots) \in Nat
  BY <1>1, <1>2, SumNat DEF Due
<1>4. treasury \in Nat
  BY DEF TypeOK
<1>5. MinOf(Due(e, slots), treasury) \in Nat /\ MinOf(Due(e, slots), treasury) <= treasury
  BY <1>3, <1>4 DEF MinOf
<1>. QED BY <1>5 DEF slots

(* A batch of distribute_epoch moves as much out of the treasury as it adds *)
(* to what its epoch has paid.                                              *)
LEMMA DistributeStep ==
  ASSUME TypeOK, NEW e \in Epochs, NEW n, DistributeEpoch(e, n)
  PROVE  /\ Exists(e) /\ ~epoch[e].distributed
         /\ \E r : Holds(e, r) /\ Framed(r, epoch[e]) /\ TallyKept(r, epoch[e])
         /\ \E t \in Nat : /\ t <= treasury
                           /\ treasury' = treasury - t
                           /\ paid' = [paid EXCEPT ![e] = paid[e] + t]
<1>. DEFINE slots == Covered(e) \cap (epoch[e].distribution_index + 1 .. n)
            t == MinOf(Due(e, slots), treasury)
            r == Paid(epoch[e], n, n >= epoch[e].active)
<1>1. Exists(e) /\ epoch[e] \in EpochRecord /\ ~epoch[e].distributed
  BY EpochTyped DEF DistributeEpoch, MayDistribute
<1>2. n \in Nat
  BY <1>1 DEF DistributeEpoch, EpochRecord
<1>3. t \in Nat /\ t <= treasury
  BY <1>1, <1>2, TransferNat
<1>4. treasury' = treasury - t /\ paid' = [paid EXCEPT ![e] = paid[e] + t]
  BY Zenon DEF DistributeEpoch
<1>5. epoch' = [epoch EXCEPT ![e] = r]
  BY Zenon DEF DistributeEpoch, TypeOK, Paid
<1>. HIDE DEF r, t
<1>6. r \in EpochRecord /\ Framed(r, epoch[e]) /\ TallyKept(r, epoch[e])
  BY <1>1, <1>2, (n >= epoch[e].active) \in BOOLEAN, RecordDistribute, Zenon DEF r
<1>7. Holds(e, r)
  BY <1>5, <1>6 DEF Holds
<1>. QED BY <1>1, <1>3, <1>4, <1>6, <1>7

(* A new epoch starts with no slot tallied and no reward above the treasury. *)
LEMMA CreateStep ==
  ASSUME TypeOK, NEW receipt \in BOOLEAN, CreateEpoch(receipt)
  PROVE  \E r : /\ Holds(current_epoch_index, r)
                /\ r.active = Len(registry)
                /\ r.tally_index = 0 /\ ~r.weights_tallied
                /\ ~r.distributed
                /\ r.total <= treasury
                /\ r.has_rent_receipt = receipt
<1>. DEFINE e == current_epoch_index
            total == (treasury * RewardRate(e)) \div RateScale
            r == [start |-> EpochStart, end |-> EpochStart + epoch_duration,
                  active |-> Len(registry),
                  tally_index |-> 0, weights_tallied |-> FALSE,
                  prescriptions_done |-> FALSE, observers |-> {}, observed |-> {},
                  failure_counts |-> [i \in Slots |-> 0], submitted |-> 0, closed |-> 0,
                  total |-> total, per_gateway |-> 0, per_observer |-> 0,
                  distribution_index |-> 0, distributed |-> FALSE,
                  has_rent_receipt |-> receipt]
<1>1. e \in Nat /\ treasury \in Nat
  BY DEF TypeOK
<1>2. RewardRate(e) \in 0 .. RateScale
  <2>1. CASE e < DecayStart \/ e > DecayLast
    BY <2>1, <1>1, RateAssumption DEF RewardRate
  <2>2. CASE ~(e < DecayStart) /\ ~(e > DecayLast)
    <3>. DEFINE a == MaxRewardRate - MinRewardRate
                k == e - DecayStart
                d == DecayLast - DecayStart
    <3>1. a \in Nat /\ k \in Nat /\ d \in Nat \ {0} /\ k <= d
      BY <1>1, <2>2, RateAssumption
    <3>. HIDE DEF a, k, d
    <3>2. a * k \in Nat /\ a * k <= d * a
      BY <3>1
    <3>3. (a * k) \div d \in Nat /\ (a * k) \div d <= a
      BY <3>1, <3>2
    <3>4. RewardRate(e) = MaxRewardRate - (a * k) \div d
      BY <2>2 DEF RewardRate, a, k, d
    <3>5. a \in 0 .. MaxRewardRate
      BY RateAssumption DEF a
    <3>. QED BY <3>3, <3>4, <3>5, RateAssumption
  <2>. QED BY <2>1, <2>2
<1>3. total \in Nat /\ total <= treasury
  <2>. DEFINE x == RewardRate(e)
  <2>1. x \in Nat /\ x <= RateScale /\ RateScale \in Nat \ {0}
    BY <1>2, RateAssumption
  <2>. HIDE DEF x
  <2>2. treasury * x \in Nat /\ treasury * x <= RateScale * treasury
    BY <1>1, <2>1
  <2>3. (treasury * x) \div RateScale \in Nat /\ (treasury * x) \div RateScale <= treasury
    BY <1>1, <2>1, <2>2
  <2>. QED BY <2>3 DEF x
<1>4. EpochStart \in Int /\ EpochStart + epoch_duration \in Int
  BY SetAssumption DEF TypeOK, EpochStart
<1>5. Len(registry) \in Nat /\ [i \in Slots |-> 0] \in [Slots -> Nat]
  BY DEF TypeOK
<1>6. epoch' = [epoch EXCEPT ![e] = r]
  BY Zenon DEF CreateEpoch
<1>. HIDE DEF total
<1>7. r \in EpochRecord
  BY <1>3, <1>4, <1>5 DEF EpochRecord
<1>8. Holds(e, r)
  BY <1>6, <1>7 DEF Holds
<1>. QED BY <1>3, <1>8

-----------------------------------------------------------------------------
(***************************************************************************)
(* Type correctness.                                                       *)
(***************************************************************************)

(* An account that holds a record again is typed. *)
LEMMA HoldsType ==
  ASSUME TypeOK, NEW e \in Epochs, NEW r, Holds(e, r)
  PROVE  epoch' \in [Epochs -> EpochRecord \cup {NoEpoch}]
BY DEF TypeOK, Holds

(* The initial state is well typed. *)
LEMMA InitType == Init => TypeOK
<1>. SUFFICES ASSUME Init PROVE TypeOK
  OBVIOUS
<1>. USE DEF Init
<1>0. enabled \in BOOLEAN
  BY Zenon
<1>1. /\ now \in Nat /\ treasury \in Nat /\ disable_at \in Nat
      /\ epoch_duration \in Durations /\ genesis \in Int /\ current_epoch_index \in Nat
  BY NumberAssumption
<1>2. /\ registry \in Seq(Operators)
      /\ composite_weight \in [Operators -> {0, 1}]
      /\ status \in [Operators -> {"None", "Joined", "Leaving"}]
      /\ start_timestamp \in [Operators -> Nat] /\ leave_timestamp \in [Operators -> Nat]
      /\ leave_epoch_duration \in [Operators -> Nat] /\ registry_index \in [Operators -> Nat]
      /\ weights_epoch \in [Operators -> Nat] /\ failed_consecutive \in [Operators -> Nat]
  OBVIOUS
<1>3. /\ epoch \in [Epochs -> EpochRecord \cup {NoEpoch}]
      /\ observations \subseteq Epochs \X Operators /\ receipts \subseteq Epochs
      /\ paid \in [Epochs -> Nat]
  OBVIOUS
<1>. QED BY <1>0, <1>1, <1>2, <1>3 DEF TypeOK

(* So is what the authority's instructions leave, *)
LEMMA AdminType ==
  ASSUME TypeOK, AdminNext
  PROVE  TypeOK'
<1>. USE DEF TypeOK, settingsVars, slotVars, gatewayVars, scoreVars, epochVars
<1>1. ASSUME NEW on \in Switches, SetEpochsEnabled(on) PROVE TypeOK'
  <2>1. enabled' \in BOOLEAN
    BY <1>1, Zenon DEF SetEpochsEnabled
  <2>2. disable_at' \in Nat
    BY <1>1, NumberAssumption DEF SetEpochsEnabled
  <2>. QED BY <1>1, <2>1, <2>2 DEF SetEpochsEnabled
<1>2. ASSUME NEW duration \in Retunes, AdminSetEpochDuration(duration) PROVE TypeOK'
  <2>1. duration \in Durations /\ duration \in Nat /\ now \in Nat /\ current_epoch_index \in Nat
    BY SetAssumption
  <2>2. current_epoch_index * duration \in Int
    BY <2>1
  <2>3. epoch_duration' \in Durations /\ genesis' \in Int
    BY <1>2, <2>1, <2>2 DEF AdminSetEpochDuration
  <2>. QED BY <1>2, <2>3 DEF AdminSetEpochDuration
<1>3. ASSUME NEW index \in FirstIndices, AdminSetCurrentEpochIndex(index) PROVE TypeOK'
  BY <1>3, SetAssumption DEF AdminSetCurrentEpochIndex
<1>4. ASSUME NEW e \in Epochs, AdminCloseStaleEpoch(e) PROVE TypeOK'
  <2>1. epoch' \in [Epochs -> EpochRecord \cup {NoEpoch}]
    BY <1>4 DEF AdminCloseStaleEpoch
  <2>. QED BY <1>4, <2>1 DEF AdminCloseStaleEpoch
<1>5. ASSUME NEW e \in Epochs, AdminCloseOrphanedEpochRentReceipt(e) PROVE TypeOK'
  BY <1>5 DEF AdminCloseOrphanedEpochRentReceipt
<1>. QED BY <1>1, <1>2, <1>3, <1>4, <1>5 DEF AdminNext

(* what the cranks leave, *)
LEMMA CrankType ==
  ASSUME TypeOK, CrankNext
  PROVE  TypeOK'
<1>. USE DEF settingsVars, slotVars, gatewayVars, scoreVars, epochVars
<1>1. ASSUME NEW receipt \in ReceiptChoices, CreateEpoch(receipt) PROVE TypeOK'
  <2>1. current_epoch_index \in Epochs
    BY <1>1 DEF CreateEpoch
  <2>2. receipt \in BOOLEAN
    BY SetAssumption
  <2>3. epoch' \in [Epochs -> EpochRecord \cup {NoEpoch}]
    BY <1>1, <2>1, <2>2, CreateStep, HoldsType
  <2>4. receipts' \subseteq Epochs
    BY <1>1, <2>1 DEF CreateEpoch, TypeOK
  <2>5. current_epoch_index' \in Nat
    BY <1>1 DEF CreateEpoch, TypeOK
  <2>6. UNCHANGED <<now, treasury, enabled, disable_at, epoch_duration, genesis, slotVars,
                    gatewayVars, scoreVars, observations, paid>>
    BY <1>1 DEF CreateEpoch
  <2>. QED BY <2>3, <2>4, <2>5, <2>6 DEF TypeOK
<1>2. ASSUME NEW e \in Epochs, Tally(e) PROVE TypeOK'
  <2>1. PICK n \in 0 .. Cardinality(Operators), weighty \in SUBSET Operators :
          TallyWeights(e, n, weighty)
    BY <1>2 DEF Tally
  <2>2. epoch' \in [Epochs -> EpochRecord \cup {NoEpoch}]
    BY <2>1, TallyStep, HoldsType
  <2>3. composite_weight' \in [Operators -> {0, 1}]
    BY <2>1 DEF TallyWeights, TypeOK
  <2>4. weights_epoch' \in [Operators -> Nat]
    BY <2>1, NumberAssumption DEF TallyWeights, TypeOK, Epochs
  <2>. QED BY <2>1, <2>2, <2>3, <2>4 DEF TallyWeights, TypeOK
<1>3. ASSUME NEW e \in Epochs, Prescribe(e) PROVE TypeOK'
  <2>1. PICK S \in SUBSET Operators : PrescribeEpoch(e, S)
    BY <1>3 DEF Prescribe
  <2>2. epoch' \in [Epochs -> EpochRecord \cup {NoEpoch}]
    BY <2>1, PrescribeStep, HoldsType
  <2>. QED BY <2>1, <2>2 DEF PrescribeEpoch, TypeOK
<1>4. ASSUME NEW e \in Epochs, SkipUnobserved(e) PROVE TypeOK'
  <2>1. epoch' \in [Epochs -> EpochRecord \cup {NoEpoch}]
    BY <1>4, SkipStep, HoldsType
  <2>. QED BY <1>4, <2>1 DEF SkipUnobserved, TypeOK
<1>5. ASSUME NEW e \in Epochs, NEW n \in Slots, DistributeEpoch(e, n) PROVE TypeOK'
  <2>1. epoch' \in [Epochs -> EpochRecord \cup {NoEpoch}]
    BY <1>5, DistributeStep, HoldsType
  <2>2. treasury' \in Nat /\ paid' \in [Epochs -> Nat]
    <3>1. PICK t \in Nat : /\ t <= treasury
                           /\ treasury' = treasury - t
                           /\ paid' = [paid EXCEPT ![e] = paid[e] + t]
      BY <1>5, DistributeStep
    <3>. QED BY <3>1 DEF TypeOK
  <2>3. failed_consecutive' \in [Operators -> Nat]
    <3>. DEFINE slots == Covered(e) \cap (epoch[e].distribution_index + 1 .. n)
                scored == {i \in slots : Joined(registry[i]) /\ Eligible(e, registry[i])}
                P(g) == \E i \in scored : registry[i] = g
                Q(g) == \E i \in scored : registry[i] = g /\ Failed(e, i)
    <3>1. failed_consecutive' = [g \in Operators |->
            IF P(g) THEN IF Q(g) THEN failed_consecutive[g] + 1 ELSE 0
            ELSE failed_consecutive[g]]
      BY <1>5, Zenon DEF DistributeEpoch
    <3>. HIDE DEF P, Q
    <3>. QED BY <3>1 DEF TypeOK
  <2>4. UNCHANGED <<now, settingsVars, slotVars, gatewayVars, composite_weight,
                    weights_epoch, observations, receipts>>
    BY <1>5 DEF DistributeEpoch
  <2>. QED BY <2>1, <2>2, <2>3, <2>4 DEF TypeOK
<1>6. ASSUME NEW e \in Epochs, CloseEpoch(e) PROVE TypeOK'
  <2>1. epoch' \in [Epochs -> EpochRecord \cup {NoEpoch}]
    BY <1>6 DEF CloseEpoch, TypeOK
  <2>2. receipts' \subseteq Epochs
    BY <1>6 DEF CloseEpoch, TypeOK
  <2>. QED BY <1>6, <2>1, <2>2 DEF CloseEpoch, TypeOK
<1>. QED BY <1>1, <1>2, <1>3, <1>4, <1>5, <1>6 DEF CrankNext, Distribute

(* what the observers leave, *)
LEMMA ObserverType ==
  ASSUME TypeOK, ObserverNext
  PROVE  TypeOK'
<1>. USE DEF settingsVars, slotVars, gatewayVars, scoreVars
<1>1. ASSUME NEW e \in Epochs, NEW g \in Operators, NEW bad \in SUBSET Slots,
             SaveObservations(e, g, bad)
      PROVE  TypeOK'
  <2>1. epoch' \in [Epochs -> EpochRecord \cup {NoEpoch}]
    BY <1>1, SaveStep, HoldsType
  <2>2. observations' \subseteq Epochs \X Operators
    <3>1. <<e, g>> \in Epochs \X Operators
      OBVIOUS
    <3>2. observations' = observations \cup {<<e, g>>}
      BY <1>1 DEF SaveObservations
    <3>. QED BY <3>1, <3>2 DEF TypeOK
  <2>. QED BY <1>1, <2>1, <2>2 DEF SaveObservations, TypeOK
<1>2. ASSUME NEW e \in Epochs, NEW g \in Operators, CloseObservation(e, g)
      PROVE  TypeOK'
  <2>1. epoch' \in [Epochs -> EpochRecord \cup {NoEpoch}]
    BY <1>2, CloseObservationStep, HoldsType
  <2>2. observations' \subseteq Epochs \X Operators
    BY <1>2 DEF CloseObservation, TypeOK
  <2>. QED BY <1>2, <2>1, <2>2 DEF CloseObservation, TypeOK
<1>. QED BY <1>1, <1>2 DEF ObserverNext

(* finalize_gone's swap-remove of slot k. *)
LEMMA SwapRemove ==
  ASSUME NEW s \in Seq(Operators), NEW k \in 1 .. Len(s)
  PROVE  LET t == SubSeq([s EXCEPT ![k] = s[Len(s)]], 1, Len(s) - 1) IN
         /\ s[Len(s)] \in Operators
         /\ t \in Seq(Operators)
         /\ Len(t) = Len(s) - 1
         /\ \A i \in 1 .. Len(s) - 1 : t[i] = IF i = k THEN s[Len(s)] ELSE s[i]
<1>1. Len(s) \in Nat /\ Len(s) >= 1
  OBVIOUS
<1>2. s[Len(s)] \in Operators
  BY <1>1
<1>. DEFINE m == [s EXCEPT ![k] = s[Len(s)]]
<1>3. m \in Seq(Operators) /\ Len(m) = Len(s)
  BY <1>1, <1>2
<1>4. \A i \in 1 .. Len(s) : m[i] = IF i = k THEN s[Len(s)] ELSE s[i]
  BY <1>1
<1>. HIDE DEF m
<1>5. /\ SubSeq(m, 1, Len(s) - 1) \in Seq(Operators)
      /\ Len(SubSeq(m, 1, Len(s) - 1)) = Len(s) - 1
      /\ \A i \in 1 .. Len(s) - 1 : SubSeq(m, 1, Len(s) - 1)[i] = m[i]
  BY <1>1, <1>3
<1>. QED BY <1>1, <1>2, <1>4, <1>5 DEF m

(* and what the operators leave. *)
LEMMA GatewayType ==
  ASSUME TypeOK, GatewayNext
  PROVE  TypeOK'
<1>. USE DEF TypeOK, settingsVars, slotVars, gatewayVars, scoreVars, epochVars
<1>1. ASSUME NEW g \in Operators, JoinNetwork(g) PROVE TypeOK'
  <2>1. registry' \in Seq(Operators) /\ registry_index' \in [Operators -> Nat]
    BY <1>1 DEF JoinNetwork
  <2>. QED BY <1>1, <2>1 DEF JoinNetwork
<1>2. ASSUME NEW g \in Operators, MarkLeaving(g), treasury' \in Nat PROVE TypeOK'
  <2>1. leave_epoch_duration' \in [Operators -> Nat]
    BY <1>2, SetAssumption DEF MarkLeaving
  <2>. QED BY <1>2, <2>1 DEF MarkLeaving
<1>3. ASSUME NEW g \in Operators, LeaveNetwork(g) PROVE TypeOK'
  BY <1>2, <1>3 DEF LeaveNetwork
<1>4. ASSUME NEW g \in Operators, PruneGateway(g) PROVE TypeOK'
  <2>1. treasury' \in Nat
    BY <1>4, NumberAssumption DEF PruneGateway
  <2>. QED BY <1>2, <1>4, <2>1 DEF PruneGateway
<1>5. ASSUME NEW g \in Operators, FinalizeGone(g) PROVE TypeOK'
  <2>1. registry \in Seq(Operators) /\ registry_index[g] \in 1 .. Len(registry)
    BY <1>5 DEF FinalizeGone
  <2>2. registry' \in Seq(Operators) /\ registry[Len(registry)] \in Operators
    BY <1>5, <2>1, SwapRemove, Zenon DEF FinalizeGone
  <2>3. registry_index' \in [Operators -> Nat]
    BY <1>5, <2>2 DEF FinalizeGone, SwappedIndex
  <2>. QED BY <1>5, <2>2, <2>3 DEF FinalizeGone
<1>. QED BY <1>1, <1>3, <1>4, <1>5 DEF GatewayNext

(* Every step keeps every account within its type. *)
LEMMA NextType ==
  ASSUME TypeOK, [Next]_vars
  PROVE  TypeOK'
<1>1. CASE Tick
  BY <1>1 DEF Tick, TypeOK, settingsVars, slotVars, gatewayVars, scoreVars, epochVars
<1>2. CASE UNCHANGED vars
  BY <1>2 DEF vars, TypeOK, settingsVars, slotVars, gatewayVars, scoreVars, epochVars
<1>. QED BY <1>1, <1>2, AdminType, CrankType, ObserverType, GatewayType DEF Next

(***************************************************************************)
(* Every account of the epoch machine holds what its type allows: no crank *)
(* drives the treasury or a counter below zero, and every slot of the      *)
(* registry names an operator.                                             *)
(***************************************************************************)
THEOREM TypeCorrect == Spec => []TypeOK
<1>. QED BY InitType, NextType, PTL DEF Spec

-----------------------------------------------------------------------------
(***************************************************************************)
(* The inductive invariant.  NeverClobbered speaks of tallied epochs only: *)
(* what keeps it is that a tally in progress has stamped every slot it has *)
(* passed, that the slots of the open epoch do not move, and that no other *)
(* epoch is open.                                                          *)
(***************************************************************************)
TallyStamps ==
  \A e \in Epochs : Unfinished(e) =>
    /\ epoch[e].active <= Len(registry)
    /\ epoch[e].tally_index <= epoch[e].active
    /\ epoch[e].weights_tallied => epoch[e].tally_index >= epoch[e].active
    /\ \A i \in 1 .. epoch[e].tally_index : NotClobbered(e, registry[i])

EpochInv ==
  /\ TypeOK
  /\ LatestOnlyOpen
  /\ RegistryIndexed
  /\ TallyStamps
  /\ TreasuryCovers
  /\ ReceiptKept

(* After create_epoch's or finalize_gone's check no epoch is open. *)
LEMMA NoneOpen ==
  ASSUME TypeOK, LatestOnlyOpen, LatestEpochFinished, NEW e \in Epochs
  PROVE  ~Unfinished(e)
<1>. SUFFICES ASSUME Unfinished(e) PROVE FALSE
  OBVIOUS
<1>1. Exists(e) /\ e \in Nat /\ current_epoch_index \in Nat
  BY NumberAssumption DEF Unfinished, Epochs, TypeOK
<1>2. e < current_epoch_index /\ e = current_epoch_index - 1
  BY <1>1 DEF LatestOnlyOpen
<1>3. current_epoch_index > 0
  BY <1>1, <1>2
<1>. QED BY <1>2, <1>3 DEF LatestEpochFinished

(* A registry that nobody touches stays indexed. *)
LEMMA RegistryKept ==
  ASSUME RegistryIndexed, UNCHANGED <<registry, registry_index, status>>
  PROVE  RegistryIndexed'
BY DEF RegistryIndexed

(* What does not touch the epochs, the counter and the receipts keeps what *)
(* is said of them, as long as the treasury does not shrink and the slots  *)
(* of open epochs do not change.                                           *)
LEMMA EpochsKept ==
  ASSUME EpochInv, TypeOK', UNCHANGED <<epoch, current_epoch_index, receipts, paid>>,
         treasury' >= treasury
  PROVE  LatestOnlyOpen' /\ TreasuryCovers' /\ ReceiptKept'
<1>1. LatestOnlyOpen' /\ ReceiptKept'
  BY DEF EpochInv, LatestOnlyOpen, ReceiptKept, Exists, Unfinished
<1>2. TreasuryCovers'
  <2>. SUFFICES ASSUME NEW e \in Epochs, Unfinished(e)
                PROVE  epoch[e].total - paid[e] <= treasury'
    BY DEF TreasuryCovers, Unfinished, Exists
  <2>1. epoch[e].total - paid[e] <= treasury
    BY DEF EpochInv, TreasuryCovers
  <2>2. epoch[e].total \in Nat /\ paid[e] \in Nat /\ treasury \in Nat /\ treasury' \in Nat
    BY EpochTyped DEF EpochInv, TypeOK, EpochRecord, Unfinished
  <2>. QED BY <2>1, <2>2
<1>. QED BY <1>1, <1>2

(* Nor does anything but the slots, the stamps and the members matter to *)
(* TallyStamps.                                                          *)
LEMMA StampsKept ==
  ASSUME TallyStamps,
         UNCHANGED <<epoch, registry, status, start_timestamp, weights_epoch>>
  PROVE  TallyStamps'
BY DEF TallyStamps, Unfinished, Exists, NotClobbered, Fresh, InEarningSet

(* A crank that neither tallies nor reopens its epoch. *)
LEMMA Advanced ==
  ASSUME EpochInv, NEW e \in Epochs, Exists(e), NEW r, Holds(e, r),
         Framed(r, epoch[e]), TallyKept(r, epoch[e]), epoch[e].distributed => r.distributed,
         UNCHANGED <<current_epoch_index, registry, status, start_timestamp,
                     weights_epoch, receipts>>
  PROVE  LatestOnlyOpen' /\ TallyStamps' /\ ReceiptKept'
<1>1. /\ epoch'[e] = r /\ epoch[e] # NoEpoch /\ r # NoEpoch
      /\ \A f \in Epochs : f # e => epoch'[f] = epoch[f]
  BY SetAssumption DEF Holds, EpochInv, TypeOK, Exists
<1>2. \A f \in Epochs : /\ Exists(f)' <=> Exists(f)
                        /\ Unfinished(f)' => Unfinished(f)
  BY <1>1, Zenon DEF Exists, Unfinished
<1>3. LatestOnlyOpen'
  BY <1>2 DEF LatestOnlyOpen, EpochInv
<1>4. \A f \in Epochs : Exists(f) => Framed(epoch'[f], epoch[f]) /\ TallyKept(epoch'[f], epoch[f])
  BY <1>1 DEF Framed, TallyKept
<1>5. ReceiptKept'
  BY <1>2, <1>4 DEF ReceiptKept, Framed, EpochInv
<1>6. TallyStamps'
  <2>. SUFFICES ASSUME NEW f \in Epochs, Unfinished(f)'
                PROVE  (/\ epoch[f].active <= Len(registry)
                        /\ epoch[f].tally_index <= epoch[f].active
                        /\ epoch[f].weights_tallied => epoch[f].tally_index >= epoch[f].active
                        /\ \A i \in 1 .. epoch[f].tally_index : NotClobbered(f, registry[i]))'
    BY DEF TallyStamps
  <2>1. Unfinished(f) /\ Exists(f)
    BY <1>2 DEF Unfinished
  <2>2. Framed(epoch'[f], epoch[f]) /\ TallyKept(epoch'[f], epoch[f])
    BY <1>4, <2>1
  <2>3. /\ epoch[f].active <= Len(registry)
        /\ epoch[f].tally_index <= epoch[f].active
        /\ epoch[f].weights_tallied => epoch[f].tally_index >= epoch[f].active
        /\ \A i \in 1 .. epoch[f].tally_index : NotClobbered(f, registry[i])
    BY <2>1 DEF EpochInv, TallyStamps
  <2>. QED BY <2>2, <2>3 DEF Framed, TallyKept, NotClobbered, Fresh, InEarningSet
<1>. QED BY <1>3, <1>5, <1>6

(* A crank that moves no tokens. *)
LEMMA Unpaid ==
  ASSUME EpochInv, NEW e \in Epochs, Exists(e), NEW r, Holds(e, r), Framed(r, epoch[e]),
         epoch[e].distributed => r.distributed, UNCHANGED <<treasury, paid>>
  PROVE  TreasuryCovers'
<1>. SUFFICES ASSUME NEW f \in Epochs, Unfinished(f)'
              PROVE  epoch'[f].total - paid[f] <= treasury
  BY DEF TreasuryCovers
<1>1. /\ epoch'[e] = r /\ epoch[e] # NoEpoch
      /\ \A x \in Epochs : x # e => epoch'[x] = epoch[x]
  BY DEF Holds, EpochInv, TypeOK, Exists
<1>2. Unfinished(f)
  BY <1>1, Zenon DEF Unfinished, Exists
<1>3. epoch'[f].total = epoch[f].total
  BY <1>1 DEF Framed
<1>. QED BY <1>2, <1>3 DEF EpochInv, TreasuryCovers

(* Closing an account opens no epoch. *)
LEMMA Closed ==
  ASSUME EpochInv, NEW e \in Epochs, epoch' = [epoch EXCEPT ![e] = NoEpoch],
         UNCHANGED <<treasury, paid, current_epoch_index, registry, status,
                     start_timestamp, weights_epoch>>,
         \A f \in Epochs : f \in receipts /\ f # e => f \in receipts'
  PROVE  LatestOnlyOpen' /\ TallyStamps' /\ TreasuryCovers' /\ ReceiptKept'
<1>1. /\ epoch'[e] = NoEpoch
      /\ \A f \in Epochs : f # e => epoch'[f] = epoch[f]
  BY DEF EpochInv, TypeOK
<1>2. \A f \in Epochs : Exists(f)' => f # e /\ Exists(f) /\ epoch'[f] = epoch[f]
  BY <1>1 DEF Exists
<1>3. \A f \in Epochs : Unfinished(f)' => Unfinished(f) /\ epoch'[f] = epoch[f]
  BY <1>2, Zenon DEF Unfinished
<1>4. LatestOnlyOpen'
  BY <1>2, <1>3 DEF LatestOnlyOpen, EpochInv
<1>5. TallyStamps'
  BY <1>3 DEF TallyStamps, EpochInv, NotClobbered, Fresh, InEarningSet
<1>6. TreasuryCovers'
  BY <1>3 DEF TreasuryCovers, EpochInv
<1>7. ReceiptKept'
  BY <1>2 DEF ReceiptKept, EpochInv
<1>. QED BY <1>4, <1>5, <1>6, <1>7

(* A new epoch is the only open one and nothing of it is tallied. *)
LEMMA CreateInv ==
  ASSUME EpochInv, TypeOK', NEW receipt \in ReceiptChoices, CreateEpoch(receipt)
  PROVE  EpochInv'
<1>. DEFINE e == current_epoch_index
<1>1. e \in Epochs /\ e \in Nat /\ LatestEpochFinished
  BY DEF CreateEpoch, EpochInv, TypeOK
<1>2. PICK r : /\ Holds(e, r)
               /\ r.active = Len(registry)
               /\ r.tally_index = 0 /\ ~r.weights_tallied
               /\ ~r.distributed
               /\ r.total <= treasury
               /\ r.has_rent_receipt = receipt
  BY CreateStep, SetAssumption DEF EpochInv
<1>3. /\ epoch'[e] = r /\ r \in EpochRecord /\ r # NoEpoch
      /\ \A f \in Epochs : f # e => epoch'[f] = epoch[f]
  BY <1>1, <1>2, SetAssumption DEF Holds, EpochInv, TypeOK
<1>4. \A f \in Epochs : f # e => (Exists(f)' <=> Exists(f)) /\ ~Unfinished(f)'
  <2>. SUFFICES ASSUME NEW f \in Epochs, f # e
                PROVE  (Exists(f)' <=> Exists(f)) /\ ~Unfinished(f)'
    OBVIOUS
  <2>1. ~Unfinished(f)
    BY <1>1, NoneOpen DEF EpochInv
  <2>. QED BY <1>3, <2>1 DEF Exists, Unfinished
<1>5. /\ current_epoch_index' = e + 1
      /\ UNCHANGED <<treasury, paid, registry, registry_index, status>>
  BY DEF CreateEpoch, slotVars, gatewayVars
<1>6. LatestOnlyOpen'
  <2>. SUFFICES ASSUME NEW f \in Epochs, Exists(f)'
                PROVE  f < e + 1 /\ (Unfinished(f)' => f = e)
    BY <1>1, <1>5 DEF LatestOnlyOpen
  <2>1. f \in Nat
    BY NumberAssumption DEF Epochs
  <2>2. CASE f = e
    BY <1>1, <2>2
  <2>3. CASE f # e
    <3>1. f < e
      BY <1>4, <2>3 DEF EpochInv, LatestOnlyOpen
    <3>. QED BY <1>1, <1>4, <2>1, <2>3, <3>1
  <2>. QED BY <2>2, <2>3
<1>7. TallyStamps'
  <2>. SUFFICES ASSUME NEW f \in Epochs, Unfinished(f)'
                PROVE  (/\ epoch[f].active <= Len(registry)
                        /\ epoch[f].tally_index <= epoch[f].active
                        /\ epoch[f].weights_tallied => epoch[f].tally_index >= epoch[f].active
                        /\ \A i \in 1 .. epoch[f].tally_index : NotClobbered(f, registry[i]))'
    BY DEF TallyStamps
  <2>1. f = e
    BY <1>4
  <2>2. epoch'[f].active = Len(registry') /\ epoch'[f].tally_index = 0 /\ ~epoch'[f].weights_tallied
    BY <1>2, <1>3, <1>5, <2>1
  <2>3. Len(registry') \in Nat
    BY DEF TypeOK
  <2>. QED BY <2>2, <2>3
<1>8. TreasuryCovers'
  <2>. SUFFICES ASSUME NEW f \in Epochs, Unfinished(f)'
                PROVE  epoch'[f].total - paid[f] <= treasury
    BY <1>5 DEF TreasuryCovers
  <2>1. epoch'[f] = r
    BY <1>3, <1>4
  <2>2. r.total \in Nat /\ paid[f] \in Nat /\ treasury \in Nat
    BY <1>3 DEF EpochRecord, EpochInv, TypeOK
  <2>. QED BY <1>2, <2>1, <2>2
<1>9. ReceiptKept'
  <2>. SUFFICES ASSUME NEW f \in Epochs, Exists(f)', epoch'[f].has_rent_receipt
                PROVE  f \in receipts'
    BY DEF ReceiptKept
  <2>1. receipts' = IF receipt THEN receipts \cup {e} ELSE receipts
    BY DEF CreateEpoch
  <2>2. CASE f = e
    BY <1>2, <1>3, <2>1, <2>2, Zenon
  <2>3. CASE f # e
    <3>1. f \in receipts
      BY <1>3, <1>4, <2>3 DEF EpochInv, ReceiptKept
    <3>. QED BY <2>1, <3>1
  <2>. QED BY <2>2, <2>3
<1>10. RegistryIndexed'
  BY <1>5, RegistryKept DEF EpochInv
<1>. QED BY <1>6, <1>7, <1>8, <1>9, <1>10 DEF EpochInv

(* A batch of tally_weights stamps the slots it passes. *)
LEMMA TallyInv ==
  ASSUME EpochInv, TypeOK', NEW e \in Epochs, NEW n, NEW weighty, TallyWeights(e, n, weighty)
  PROVE  EpochInv'
<1>1. /\ Exists(e) /\ n \in Nat /\ epoch[e].tally_index <= n /\ n <= epoch[e].active
      /\ e = current_epoch_index - 1
  BY TallyStep DEF EpochInv
<1>2. PICK r : /\ Holds(e, r) /\ Framed(r, epoch[e])
               /\ r.tally_index = n
               /\ r.weights_tallied => n >= epoch[e].active
               /\ r.distributed = epoch[e].distributed
  BY TallyStep DEF EpochInv
<1>3. /\ epoch'[e] = r /\ r \in EpochRecord /\ r # NoEpoch /\ epoch[e] # NoEpoch
      /\ \A f \in Epochs : f # e => epoch'[f] = epoch[f]
  BY <1>1, <1>2, SetAssumption DEF Holds, EpochInv, TypeOK, Exists
<1>4. \A f \in Epochs : (Exists(f)' <=> Exists(f)) /\ (Unfinished(f)' => Unfinished(f))
  BY <1>2, <1>3, Zenon DEF Exists, Unfinished
<1>5. UNCHANGED <<treasury, paid, current_epoch_index, registry, registry_index, status,
                  start_timestamp, receipts>>
  BY DEF TallyWeights, settingsVars, slotVars, gatewayVars
<1>6. LatestOnlyOpen'
  BY <1>4, <1>5 DEF LatestOnlyOpen, EpochInv
<1>7. TreasuryCovers'
  BY <1>1, <1>2, <1>5, Unpaid
<1>8. ReceiptKept'
  BY <1>2, <1>3, <1>4, <1>5 DEF ReceiptKept, EpochInv, Framed
<1>9. RegistryIndexed'
  BY <1>5, RegistryKept DEF EpochInv
<1>10. TallyStamps'
  <2>. SUFFICES ASSUME NEW f \in Epochs, Unfinished(f)'
                PROVE  (/\ epoch[f].active <= Len(registry)
                        /\ epoch[f].tally_index <= epoch[f].active
                        /\ epoch[f].weights_tallied => epoch[f].tally_index >= epoch[f].active
                        /\ \A i \in 1 .. epoch[f].tally_index : NotClobbered(f, registry[i]))'
    BY DEF TallyStamps
  <2>1. Unfinished(f) /\ Exists(f)
    BY <1>4 DEF Unfinished
  <2>2. f = e
    BY <1>1, <2>1 DEF EpochInv, LatestOnlyOpen
  <2>3. /\ epoch[e].active <= Len(registry)
        /\ \A i \in 1 .. epoch[e].tally_index : NotClobbered(e, registry[i])
    BY <2>1, <2>2 DEF EpochInv, TallyStamps
  <2>4. /\ epoch'[e].active = epoch[e].active
        /\ epoch'[e].start = epoch[e].start
        /\ epoch'[e].tally_index = n
        /\ epoch'[e].weights_tallied => n >= epoch[e].active
    BY <1>2, <1>3 DEF Framed
  <2>5. epoch[e].active \in Nat /\ epoch[e].tally_index \in Nat /\ Len(registry) \in Nat
    <3>1. epoch[e] \in EpochRecord /\ registry \in Seq(Operators)
      BY <1>1, EpochTyped DEF EpochInv, TypeOK
    <3>. QED BY <3>1 DEF EpochRecord
  <2>6. ASSUME NEW i \in 1 .. n
        PROVE  NotClobbered(e, registry[i])'
    <3>. DEFINE batch == {registry[j] : j \in Covered(e) \cap (epoch[e].tally_index + 1 .. n)}
                g == registry[i]
    <3>1. i \in DOMAIN registry /\ g \in Operators
      <4>1. i \in 1 .. Len(registry)
        BY <1>1, <2>3, <2>5
      <4>2. registry \in Seq(Operators)
        BY DEF EpochInv, TypeOK
      <4>. QED BY <4>1, <4>2
    <3>2. weights_epoch' = [x \in Operators |->
             IF x \in batch /\ Joined(x) THEN e ELSE weights_epoch[x]]
      BY Zenon DEF TallyWeights, Stamped
    <3>3. weights_epoch'[g] = e \/ (weights_epoch'[g] = weights_epoch[g] /\ ~(g \in batch /\ Joined(g)))
      BY <3>1, <3>2
    <3>4. CASE weights_epoch'[g] = e
      BY <3>4, <1>5 DEF NotClobbered, Fresh
    <3>5. CASE weights_epoch'[g] = weights_epoch[g] /\ ~(g \in batch /\ Joined(g))
      <4>1. CASE i <= epoch[e].tally_index
        <5>1. NotClobbered(e, g)
          BY <2>3, <2>5, <4>1
        <5>. QED BY <1>5, <2>4, <3>5, <5>1 DEF NotClobbered, Fresh, InEarningSet
      <4>2. CASE ~(i <= epoch[e].tally_index)
        <5>1. i \in Covered(e) \cap (epoch[e].tally_index + 1 .. n)
          BY <1>1, <2>3, <2>5, <4>2 DEF Covered, MinOf
        <5>2. g \in batch
          BY <5>1
        <5>3. status[g] # "Joined" /\ status[g] # "None"
          BY <3>1, <3>5, <5>2 DEF Joined, EpochInv, RegistryIndexed
        <5>4. status[g] \in {"None", "Joined", "Leaving"}
          BY <3>1 DEF EpochInv, TypeOK
        <5>5. status[g] = "Leaving"
          BY <5>3, <5>4
        <5>. QED BY <1>5, <5>5 DEF NotClobbered
      <4>. QED BY <4>1, <4>2
    <3>. QED BY <3>3, <3>4, <3>5
  <2>. QED BY <1>1, <1>5, <2>2, <2>3, <2>4, <2>5, <2>6
<1>. QED BY <1>6, <1>7, <1>8, <1>9, <1>10 DEF EpochInv

(* A batch of distribute_epoch takes out of the treasury what its epoch pays, *)
(* and no other epoch is open.                                               *)
LEMMA DistributeInv ==
  ASSUME EpochInv, TypeOK', NEW e \in Epochs, NEW n, DistributeEpoch(e, n)
  PROVE  EpochInv'
<1>1. Exists(e) /\ ~epoch[e].distributed
  BY DistributeStep DEF EpochInv
<1>2. PICK r : Holds(e, r) /\ Framed(r, epoch[e]) /\ TallyKept(r, epoch[e])
  BY DistributeStep DEF EpochInv
<1>3. UNCHANGED <<current_epoch_index, registry, registry_index, status, start_timestamp,
                  weights_epoch, receipts>>
  BY DEF DistributeEpoch, settingsVars, slotVars, gatewayVars
<1>4. LatestOnlyOpen' /\ TallyStamps' /\ ReceiptKept'
  BY <1>1, <1>2, <1>3, Advanced
<1>5. RegistryIndexed'
  BY <1>3, RegistryKept DEF EpochInv
<1>6. TreasuryCovers'
  <2>1. PICK t \in Nat : /\ t <= treasury
                         /\ treasury' = treasury - t
                         /\ paid' = [paid EXCEPT ![e] = paid[e] + t]
    BY DistributeStep DEF EpochInv
  <2>. SUFFICES ASSUME NEW f \in Epochs, Unfinished(f)'
                PROVE  epoch'[f].total - paid'[f] <= treasury'
    BY DEF TreasuryCovers
  <2>2. /\ epoch'[e] = r
        /\ \A x \in Epochs : x # e => epoch'[x] = epoch[x]
    BY <1>2 DEF Holds, EpochInv, TypeOK
  <2>3. e = current_epoch_index - 1
    BY <1>1 DEF EpochInv, LatestOnlyOpen, Unfinished
  <2>4. f = e
    BY <1>3, <1>4, <2>3 DEF LatestOnlyOpen, Unfinished
  <2>5. epoch[e].total - paid[e] <= treasury
    BY <1>1 DEF EpochInv, TreasuryCovers, Unfinished
  <2>6. epoch'[e].total = epoch[e].total
    BY <1>2, <2>2 DEF Framed
  <2>7. epoch[e].total \in Nat /\ paid[e] \in Nat /\ treasury \in Nat /\ paid'[e] = paid[e] + t
    BY <1>1, <2>1, EpochTyped DEF EpochRecord, EpochInv, TypeOK
  <2>. QED BY <2>1, <2>4, <2>5, <2>6, <2>7
<1>. QED BY <1>4, <1>5, <1>6 DEF EpochInv

(* The cranks keep the invariant. *)
LEMMA CrankInv ==
  ASSUME EpochInv, TypeOK', CrankNext
  PROVE  EpochInv'
<1>. USE DEF settingsVars, slotVars, gatewayVars, scoreVars, epochVars
<1>1. ASSUME NEW receipt \in ReceiptChoices, CreateEpoch(receipt) PROVE EpochInv'
  BY <1>1, CreateInv
<1>2. ASSUME NEW e \in Epochs, Tally(e) PROVE EpochInv'
  BY <1>2, TallyInv DEF Tally
<1>3. ASSUME NEW e \in Epochs, Prescribe(e) PROVE EpochInv'
  <2>1. PICK S \in SUBSET Operators : PrescribeEpoch(e, S)
    BY <1>3 DEF Prescribe
  <2>2. UNCHANGED <<treasury, paid, current_epoch_index, registry, registry_index, status,
                    start_timestamp, weights_epoch, receipts>>
    BY <2>1 DEF PrescribeEpoch
  <2>3. PICK r : /\ Holds(e, r) /\ Framed(r, epoch[e]) /\ TallyKept(r, epoch[e])
                 /\ r.distributed = epoch[e].distributed
    BY <2>1, PrescribeStep DEF EpochInv
  <2>4. Exists(e)
    BY <2>1 DEF PrescribeEpoch
  <2>5. epoch[e].distributed => r.distributed
    BY <2>3, Zenon
  <2>6. LatestOnlyOpen' /\ TallyStamps' /\ ReceiptKept' /\ TreasuryCovers'
    BY <2>2, <2>3, <2>4, <2>5, Advanced, Unpaid
  <2>. QED BY <2>2, <2>6, RegistryKept DEF EpochInv
<1>4. ASSUME NEW e \in Epochs, SkipUnobserved(e) PROVE EpochInv'
  <2>1. UNCHANGED <<treasury, paid, current_epoch_index, registry, registry_index, status,
                    start_timestamp, weights_epoch, receipts>>
    BY <1>4 DEF SkipUnobserved
  <2>2. PICK r : Holds(e, r) /\ Framed(r, epoch[e]) /\ TallyKept(r, epoch[e]) /\ r.distributed
    BY <1>4, SkipStep DEF EpochInv
  <2>3. Exists(e)
    BY <1>4 DEF SkipUnobserved, MayDistribute
  <2>4. LatestOnlyOpen' /\ TallyStamps' /\ ReceiptKept' /\ TreasuryCovers'
    BY <2>1, <2>2, <2>3, Advanced, Unpaid
  <2>. QED BY <2>1, <2>4, RegistryKept DEF EpochInv
<1>5. ASSUME NEW e \in Epochs, NEW n \in Slots, DistributeEpoch(e, n) PROVE EpochInv'
  BY <1>5, DistributeInv
<1>6. ASSUME NEW e \in Epochs, CloseEpoch(e) PROVE EpochInv'
  <2>1. /\ epoch' = [epoch EXCEPT ![e] = NoEpoch]
        /\ receipts' = IF epoch[e].has_rent_receipt THEN receipts \ {e} ELSE receipts
        /\ UNCHANGED <<treasury, paid, current_epoch_index, registry, registry_index, status,
                       start_timestamp, weights_epoch>>
    BY <1>6 DEF CloseEpoch
  <2>2. \A f \in Epochs : f \in receipts /\ f # e => f \in receipts'
    BY <2>1
  <2>3. LatestOnlyOpen' /\ TallyStamps' /\ ReceiptKept' /\ TreasuryCovers'
    BY <2>1, <2>2, Closed
  <2>. QED BY <2>1, <2>3, RegistryKept DEF EpochInv
<1>. QED BY <1>1, <1>2, <1>3, <1>4, <1>5, <1>6 DEF CrankNext, Distribute

(* Observers keep it: a report touches no tally and no token. *)
LEMMA ObserverInv ==
  ASSUME EpochInv, TypeOK', ObserverNext
  PROVE  EpochInv'
<1>. USE DEF settingsVars, slotVars, gatewayVars, scoreVars
<1>1. ASSUME NEW e \in Epochs, NEW g \in Operators, NEW bad \in SUBSET Slots,
             SaveObservations(e, g, bad)
      PROVE  EpochInv'
  <2>1. UNCHANGED <<treasury, paid, current_epoch_index, registry, registry_index, status,
                    start_timestamp, weights_epoch, receipts>>
    BY <1>1 DEF SaveObservations
  <2>2. PICK r : /\ Holds(e, r) /\ Framed(r, epoch[e]) /\ TallyKept(r, epoch[e])
                 /\ r.distributed = epoch[e].distributed
    BY <1>1, SaveStep DEF EpochInv
  <2>3. Exists(e)
    BY <1>1 DEF SaveObservations
  <2>4. epoch[e].distributed => r.distributed
    BY <2>2, Zenon
  <2>5. LatestOnlyOpen' /\ TallyStamps' /\ ReceiptKept' /\ TreasuryCovers'
    BY <2>1, <2>2, <2>3, <2>4, Advanced, Unpaid
  <2>. QED BY <2>1, <2>5, RegistryKept DEF EpochInv
<1>2. ASSUME NEW e \in Epochs, NEW g \in Operators, CloseObservation(e, g)
      PROVE  EpochInv'
  <2>1. UNCHANGED <<treasury, paid, current_epoch_index, registry, registry_index, status,
                    start_timestamp, weights_epoch, receipts>>
    BY <1>2 DEF CloseObservation
  <2>2. PICK r : /\ Holds(e, r) /\ Framed(r, epoch[e]) /\ TallyKept(r, epoch[e])
                 /\ r.distributed = epoch[e].distributed
    BY <1>2, CloseObservationStep DEF EpochInv
  <2>3. Exists(e)
    BY <1>2 DEF CloseObservation
  <2>4. epoch[e].distributed => r.distributed
    BY <2>2, Zenon
  <2>5. LatestOnlyOpen' /\ TallyStamps' /\ ReceiptKept' /\ TreasuryCovers'
    BY <2>1, <2>2, <2>3, <2>4, Advanced, Unpaid
  <2>. QED BY <2>1, <2>5, RegistryKept DEF EpochInv
<1>. QED BY <1>1, <1>2 DEF ObserverNext

(* The authority's instructions keep it: the counter moves only before the *)
(* first epoch, and a write-off closes the one epoch that may be open.     *)
LEMMA AdminInv ==
  ASSUME EpochInv, TypeOK', AdminNext
  PROVE  EpochInv'
<1>. USE DEF settingsVars, slotVars, gatewayVars, scoreVars, epochVars
<1>0. treasury \in Nat
  BY DEF EpochInv, TypeOK
<1>1. ASSUME UNCHANGED <<treasury, current_epoch_index, slotVars, gatewayVars, scoreVars, epochVars>>
      PROVE  EpochInv'
  <2>1. treasury' >= treasury
    BY <1>0, <1>1
  <2>2. LatestOnlyOpen' /\ TreasuryCovers' /\ ReceiptKept'
    BY <1>1, <2>1, EpochsKept
  <2>3. TallyStamps' /\ RegistryIndexed'
    BY <1>1, StampsKept, RegistryKept DEF EpochInv
  <2>. QED BY <2>2, <2>3 DEF EpochInv
<1>2. ASSUME NEW on \in Switches, SetEpochsEnabled(on) PROVE EpochInv'
  BY <1>1, <1>2 DEF SetEpochsEnabled
<1>3. ASSUME NEW duration \in Retunes, AdminSetEpochDuration(duration) PROVE EpochInv'
  BY <1>1, <1>3 DEF AdminSetEpochDuration
<1>4. ASSUME NEW index \in FirstIndices, AdminSetCurrentEpochIndex(index) PROVE EpochInv'
  <2>1. /\ current_epoch_index = 0
        /\ UNCHANGED <<treasury, slotVars, gatewayVars, scoreVars, epochVars>>
    BY <1>4 DEF AdminSetCurrentEpochIndex
  <2>2. \A f \in Epochs : ~Exists(f) /\ ~Exists(f)'
    <3>. SUFFICES ASSUME NEW f \in Epochs, Exists(f) PROVE FALSE
      BY <2>1 DEF Exists
    <3>1. f \in Nat /\ f < 0
      BY <2>1, NumberAssumption DEF EpochInv, LatestOnlyOpen, Epochs
    <3>. QED BY <3>1
  <2>3. LatestOnlyOpen' /\ TreasuryCovers' /\ ReceiptKept'
    BY <2>2 DEF LatestOnlyOpen, TreasuryCovers, ReceiptKept, Unfinished
  <2>4. TallyStamps' /\ RegistryIndexed'
    BY <2>1, StampsKept, RegistryKept DEF EpochInv
  <2>. QED BY <2>3, <2>4 DEF EpochInv
<1>5. ASSUME NEW e \in Epochs, AdminCloseStaleEpoch(e) PROVE EpochInv'
  <2>1. /\ epoch' = [epoch EXCEPT ![e] = NoEpoch]
        /\ UNCHANGED <<treasury, paid, current_epoch_index, registry, registry_index, status,
                       start_timestamp, weights_epoch, receipts>>
    BY <1>5 DEF AdminCloseStaleEpoch
  <2>2. LatestOnlyOpen' /\ TallyStamps' /\ ReceiptKept' /\ TreasuryCovers'
    BY <2>1, Closed
  <2>. QED BY <2>1, <2>2, RegistryKept DEF EpochInv
<1>6. ASSUME NEW e \in Epochs, AdminCloseOrphanedEpochRentReceipt(e) PROVE EpochInv'
  <2>1. /\ receipts' = receipts \ {e} /\ ~Exists(e)
        /\ UNCHANGED <<treasury, paid, current_epoch_index, registry, registry_index, status,
                       start_timestamp, weights_epoch, epoch>>
    BY <1>6 DEF AdminCloseOrphanedEpochRentReceipt, ReceiptOrphaned
  <2>2. LatestOnlyOpen' /\ TreasuryCovers'
    BY <2>1 DEF EpochInv, LatestOnlyOpen, TreasuryCovers, Exists, Unfinished
  <2>3. ReceiptKept'
    BY <2>1 DEF EpochInv, ReceiptKept, Exists
  <2>4. TallyStamps' /\ RegistryIndexed'
    BY <2>1, StampsKept, RegistryKept DEF EpochInv
  <2>. QED BY <2>2, <2>3, <2>4 DEF EpochInv
<1>. QED BY <1>2, <1>3, <1>4, <1>5, <1>6 DEF AdminNext

(* Joining appends a slot, leaving keeps it, and a slot is removed only *)
(* while no epoch is open.                                              *)
LEMMA GatewayInv ==
  ASSUME EpochInv, TypeOK', GatewayNext
  PROVE  EpochInv'
<1>. USE DEF settingsVars, slotVars, gatewayVars, scoreVars, epochVars
<1>0. /\ treasury \in Nat /\ registry \in Seq(Operators) /\ Len(registry) \in Nat
      /\ registry_index \in [Operators -> Nat]
      /\ status \in [Operators -> {"None", "Joined", "Leaving"}]
  BY DEF EpochInv, TypeOK
<1>1. ASSUME NEW g \in Operators, JoinNetwork(g) PROVE EpochInv'
  <2>1. /\ status[g] = "None"
        /\ status' = [status EXCEPT ![g] = "Joined"]
        /\ registry' = Append(registry, g)
        /\ registry_index' = [registry_index EXCEPT ![g] = Len(registry) + 1]
        /\ start_timestamp' = [start_timestamp EXCEPT ![g] = now]
        /\ weights_epoch' = [weights_epoch EXCEPT ![g] = 0]
        /\ UNCHANGED <<treasury, current_epoch_index, epochVars>>
    BY <1>1 DEF JoinNetwork
  <2>2. LatestOnlyOpen' /\ TreasuryCovers' /\ ReceiptKept'
    <3>1. treasury' >= treasury
      BY <1>0, <2>1
    <3>. QED BY <2>1, <3>1, EpochsKept
  <2>3. /\ Len(registry') = Len(registry) + 1
        /\ \A i \in 1 .. Len(registry) :
             /\ registry'[i] = registry[i] /\ registry[i] \in Operators /\ registry[i] # g
        /\ registry'[Len(registry) + 1] = g
    <3>1. \A i \in 1 .. Len(registry) : registry[i] # g
      BY <1>0, <2>1 DEF EpochInv, RegistryIndexed
    <3>. QED BY <1>0, <2>1, <3>1
  <2>4. RegistryIndexed'
    <3>1. ASSUME NEW h \in Operators, status'[h] # "None"
          PROVE  /\ registry_index'[h] \in DOMAIN registry'
                 /\ registry'[registry_index'[h]] = h
      <4>0. DOMAIN registry' = 1 .. Len(registry) + 1 /\ DOMAIN registry = 1 .. Len(registry)
        BY <1>0, <2>1, <2>3
      <4>1. CASE h = g
        BY <1>0, <2>1, <2>3, <4>0, <4>1
      <4>2. CASE h # g
        <5>1. registry_index'[h] = registry_index[h] /\ status[h] # "None"
          BY <1>0, <2>1, <3>1, <4>2
        <5>2. registry_index[h] \in 1 .. Len(registry) /\ registry[registry_index[h]] = h
          BY <4>0, <5>1 DEF EpochInv, RegistryIndexed
        <5>. QED BY <1>0, <2>3, <4>0, <5>1, <5>2
      <4>. QED BY <4>1, <4>2
    <3>2. ASSUME NEW i \in DOMAIN registry'
          PROVE  /\ status'[registry'[i]] # "None"
                 /\ registry_index'[registry'[i]] = i
      <4>0. i \in 1 .. Len(registry) + 1 /\ DOMAIN registry = 1 .. Len(registry)
        BY <1>0, <2>1, <2>3
      <4>1. CASE i = Len(registry) + 1
        BY <1>0, <2>1, <2>3, <4>1
      <4>2. CASE i # Len(registry) + 1
        <5>1. i \in 1 .. Len(registry)
          BY <1>0, <4>0, <4>2
        <5>2. status[registry[i]] # "None" /\ registry_index[registry[i]] = i
          BY <4>0, <5>1 DEF EpochInv, RegistryIndexed
        <5>. QED BY <1>0, <2>1, <2>3, <5>1, <5>2
      <4>. QED BY <4>1, <4>2
    <3>. QED BY <3>1, <3>2 DEF RegistryIndexed
  <2>5. TallyStamps'
    <3>. SUFFICES ASSUME NEW f \in Epochs, Unfinished(f)'
                  PROVE  (/\ epoch[f].active <= Len(registry)
                          /\ epoch[f].tally_index <= epoch[f].active
                          /\ epoch[f].weights_tallied => epoch[f].tally_index >= epoch[f].active
                          /\ \A i \in 1 .. epoch[f].tally_index : NotClobbered(f, registry[i]))'
      BY DEF TallyStamps
    <3>1. Unfinished(f) /\ Exists(f)
      BY <2>1 DEF Unfinished, Exists
    <3>2. /\ epoch[f].active <= Len(registry)
          /\ epoch[f].tally_index <= epoch[f].active
          /\ epoch[f].weights_tallied => epoch[f].tally_index >= epoch[f].active
          /\ \A i \in 1 .. epoch[f].tally_index : NotClobbered(f, registry[i])
      BY <3>1 DEF EpochInv, TallyStamps
    <3>3. epoch[f].active \in Nat /\ epoch[f].tally_index \in Nat
      <4>1. epoch[f] \in EpochRecord
        BY <3>1, EpochTyped DEF EpochInv
      <4>. QED BY <4>1 DEF EpochRecord
    <3>4. ASSUME NEW i \in 1 .. epoch[f].tally_index
          PROVE  NotClobbered(f, registry[i])'
      <4>1. i \in 1 .. Len(registry)
        BY <1>0, <3>2, <3>3
      <4>2. registry'[i] = registry[i] /\ registry[i] \in Operators /\ registry[i] # g
        BY <2>3, <4>1
      <4>3. /\ status'[registry[i]] = status[registry[i]]
            /\ start_timestamp'[registry[i]] = start_timestamp[registry[i]]
            /\ weights_epoch'[registry[i]] = weights_epoch[registry[i]]
        BY <2>1, <4>2 DEF EpochInv, TypeOK
      <4>4. NotClobbered(f, registry[i])
        BY <3>2
      <4>. QED BY <2>1, <4>2, <4>3, <4>4 DEF NotClobbered, Fresh, InEarningSet
    <3>. QED BY <1>0, <2>1, <2>3, <3>2, <3>3, <3>4
  <2>. QED BY <2>2, <2>4, <2>5 DEF EpochInv
<1>2. ASSUME NEW g \in Operators, MarkLeaving(g), treasury' >= treasury PROVE EpochInv'
  <2>1. /\ status[g] = "Joined"
        /\ status' = [status EXCEPT ![g] = "Leaving"]
        /\ UNCHANGED <<current_epoch_index, slotVars, start_timestamp, weights_epoch, epochVars>>
    BY <1>2 DEF MarkLeaving, Joined
  <2>2. LatestOnlyOpen' /\ TreasuryCovers' /\ ReceiptKept'
    BY <1>2, <2>1, EpochsKept
  <2>3. \A h \in Operators : /\ status[h] # "None" <=> status'[h] # "None"
                             /\ status[h] = "Leaving" => status'[h] = "Leaving"
    BY <1>0, <2>1
  <2>4. \A i \in DOMAIN registry : registry[i] \in Operators
    BY <1>0
  <2>5. RegistryIndexed'
    BY <2>1, <2>3, <2>4 DEF EpochInv, RegistryIndexed
  <2>6. TallyStamps'
    <3>. SUFFICES ASSUME NEW f \in Epochs, Unfinished(f)
                  PROVE  (/\ epoch[f].active <= Len(registry)
                          /\ epoch[f].tally_index <= epoch[f].active
                          /\ epoch[f].weights_tallied => epoch[f].tally_index >= epoch[f].active
                          /\ \A i \in 1 .. epoch[f].tally_index : NotClobbered(f, registry[i]))'
      BY <2>1 DEF TallyStamps, Unfinished, Exists
    <3>1. /\ epoch[f].active <= Len(registry)
          /\ epoch[f].tally_index <= epoch[f].active
          /\ epoch[f].weights_tallied => epoch[f].tally_index >= epoch[f].active
          /\ \A i \in 1 .. epoch[f].tally_index : NotClobbered(f, registry[i])
      BY DEF EpochInv, TallyStamps
    <3>2. epoch[f].active \in Nat /\ epoch[f].tally_index \in Nat
      <4>1. epoch[f] \in EpochRecord
        BY EpochTyped DEF EpochInv, Unfinished
      <4>. QED BY <4>1 DEF EpochRecord
    <3>3. ASSUME NEW i \in 1 .. epoch[f].tally_index
          PROVE  NotClobbered(f, registry[i])'
      <4>1. registry[i] \in Operators
        BY <1>0, <3>1, <3>2
      <4>. QED BY <2>1, <2>3, <3>1, <4>1 DEF NotClobbered, Fresh, InEarningSet
    <3>. QED BY <2>1, <3>1, <3>3
  <2>. QED BY <2>2, <2>5, <2>6 DEF EpochInv
<1>3. ASSUME NEW g \in Operators, LeaveNetwork(g) PROVE EpochInv'
  BY <1>0, <1>2, <1>3 DEF LeaveNetwork
<1>4. ASSUME NEW g \in Operators, PruneGateway(g) PROVE EpochInv'
  <2>1. MarkLeaving(g) /\ treasury' = treasury + SlashAmount
    BY <1>4 DEF PruneGateway
  <2>2. treasury' >= treasury
    BY <1>0, <2>1, NumberAssumption
  <2>. QED BY <1>2, <2>1, <2>2
<1>5. ASSUME NEW g \in Operators, FinalizeGone(g) PROVE EpochInv'
  <2>. DEFINE k == registry_index[g]
              last == Len(registry)
  <2>1. /\ LatestEpochFinished
        /\ k \in 1 .. last
        /\ registry[k] = g
        /\ status[g] = "Leaving"
        /\ status' = [status EXCEPT ![g] = "None"]
        /\ registry_index' = [SwappedIndex(g) EXCEPT ![g] = 0]
        /\ UNCHANGED <<treasury, current_epoch_index, epochVars>>
    BY <1>5 DEF FinalizeGone, PositionsReleased
  <2>2. LatestOnlyOpen' /\ TreasuryCovers' /\ ReceiptKept'
    <3>1. treasury' >= treasury
      BY <1>0, <2>1
    <3>. QED BY <2>1, <3>1, EpochsKept
  <2>3. TallyStamps'
    <3>1. \A f \in Epochs : ~Unfinished(f)
      BY <2>1, NoneOpen DEF EpochInv
    <3>2. \A f \in Epochs : ~Unfinished(f)'
      BY <2>1, <3>1 DEF Unfinished, Exists
    <3>. QED BY <3>2 DEF TallyStamps
  <2>4. /\ registry[last] \in Operators
        /\ registry' \in Seq(Operators)
        /\ Len(registry') = last - 1
        /\ \A i \in 1 .. last - 1 : registry'[i] = IF i = k THEN registry[last] ELSE registry[i]
    BY <1>0, <1>5, <2>1, SwapRemove DEF FinalizeGone
  <2>5. \A i \in 1 .. last : /\ registry[i] \in Operators
                             /\ status[registry[i]] # "None"
                             /\ registry_index[registry[i]] = i
    BY <1>0 DEF EpochInv, RegistryIndexed
  <2>6. \A h \in Operators : status[h] # "None" =>
          registry_index[h] \in 1 .. last /\ registry[registry_index[h]] = h
    BY <1>0 DEF EpochInv, RegistryIndexed
  <2>7. last \in Nat /\ last >= 1
    BY <1>0, <2>1
  <2>8. \A h \in Operators : registry_index'[h] =
          IF h = g THEN 0 ELSE IF h = registry[last] THEN k ELSE registry_index[h]
    BY <1>0, <2>1, <2>4 DEF SwappedIndex
  <2>9. RegistryIndexed'
    <3>0. DOMAIN registry' = 1 .. last - 1
      BY <2>4
    <3>1. ASSUME NEW h \in Operators, status'[h] # "None"
          PROVE  /\ registry_index'[h] \in DOMAIN registry'
                 /\ registry'[registry_index'[h]] = h
      <4>1. h # g /\ status[h] # "None"
        BY <1>0, <2>1, <3>1
      <4>2. registry_index[h] \in 1 .. last /\ registry[registry_index[h]] = h
        BY <2>6, <4>1
      <4>3. CASE h = registry[last]
        <5>1. registry_index'[h] = k
          BY <2>8, <4>1, <4>3
        <5>2. k # last
          BY <2>1, <4>1, <4>3
        <5>. QED BY <2>1, <2>4, <2>7, <3>0, <4>3, <5>1, <5>2
      <4>4. CASE h # registry[last]
        <5>1. registry_index'[h] = registry_index[h]
          BY <2>8, <4>1, <4>4
        <5>2. registry_index[h] # last /\ registry_index[h] # k
          BY <2>1, <4>1, <4>2, <4>4
        <5>. QED BY <2>4, <2>7, <3>0, <4>2, <5>1, <5>2
      <4>. QED BY <4>3, <4>4
    <3>2. ASSUME NEW i \in DOMAIN registry'
          PROVE  /\ status'[registry'[i]] # "None"
                 /\ registry_index'[registry'[i]] = i
      <4>1. i \in 1 .. last - 1 /\ i \in 1 .. last /\ i # last /\ last \in 1 .. last
        BY <2>7, <3>0
      <4>2. CASE i = k
        <5>1. registry'[i] = registry[last]
          BY <2>4, <4>1, <4>2
        <5>2. registry[last] # g
          BY <2>1, <2>5, <4>1, <4>2
        <5>3. status'[registry[last]] = status[registry[last]] /\ registry_index'[registry[last]] = k
          BY <1>0, <2>1, <2>4, <2>8, <5>2
        <5>. QED BY <2>5, <4>1, <4>2, <5>1, <5>3
      <4>3. CASE i # k
        <5>1. registry'[i] = registry[i] /\ registry[i] \in Operators
          BY <2>4, <2>5, <4>1, <4>3
        <5>2. registry[i] # g /\ registry[i] # registry[last]
          BY <2>1, <2>5, <4>1, <4>3
        <5>3. status'[registry[i]] = status[registry[i]] /\ registry_index'[registry[i]] = registry_index[registry[i]]
          BY <1>0, <2>1, <2>8, <5>1, <5>2
        <5>. QED BY <2>5, <4>1, <5>1, <5>3
      <4>. QED BY <4>2, <4>3
    <3>. QED BY <3>1, <3>2 DEF RegistryIndexed
  <2>. QED BY <2>2, <2>3, <2>9 DEF EpochInv
<1>. QED BY <1>1, <1>3, <1>4, <1>5 DEF GatewayNext

(* The invariant holds at the start: there is no epoch and no gateway. *)
LEMMA InitInv == Init => EpochInv
<1>. SUFFICES ASSUME Init PROVE EpochInv
  OBVIOUS
<1>1. \A e \in Epochs : ~Exists(e)
  BY DEF Init, Exists
<1>2. LatestOnlyOpen /\ TallyStamps /\ TreasuryCovers /\ ReceiptKept
  BY <1>1 DEF LatestOnlyOpen, TallyStamps, TreasuryCovers, ReceiptKept, Unfinished
<1>3. RegistryIndexed
  BY DEF Init, RegistryIndexed
<1>. QED BY <1>2, <1>3, InitType DEF EpochInv

(* Every step keeps the invariant. *)
LEMMA NextInv ==
  ASSUME EpochInv, [Next]_vars
  PROVE  EpochInv'
<1>1. TypeOK /\ TypeOK'
  BY NextType DEF EpochInv
<1>2. ASSUME UNCHANGED <<treasury, settingsVars, slotVars, gatewayVars, scoreVars, epochVars>>
      PROVE  EpochInv'
  BY <1>1, <1>2 DEF EpochInv, LatestOnlyOpen, RegistryIndexed, TallyStamps, TreasuryCovers,
       ReceiptKept, Exists, Unfinished, NotClobbered, Fresh, InEarningSet,
       settingsVars, slotVars, gatewayVars, scoreVars, epochVars
<1>3. CASE Tick
  BY <1>2, <1>3 DEF Tick
<1>4. CASE UNCHANGED vars
  BY <1>2, <1>4 DEF vars
<1>. QED BY <1>1, <1>3, <1>4, AdminInv, CrankInv, ObserverInv, GatewayInv DEF Next

(* The invariant holds in every reachable state. *)
LEMMA InvHolds == Spec => []EpochInv
<1>. QED BY InitInv, NextInv, PTL DEF Spec

-----------------------------------------------------------------------------
(***************************************************************************)
(* Only the latest epoch is ever undistributed, so the single look-back of *)
(* create_epoch and finalize_gone is enough (ADR-0034, ADR-0036).          *)
(***************************************************************************)
THEOREM LatestOnlyOpenHolds == Spec => []LatestOnlyOpen
<1>. QED BY InvHolds, PTL DEF EpochInv

(***************************************************************************)
(* The registry and the gateways' own indices agree after any sequence of  *)
(* joins, departures, prunes and swap-removes.                             *)
(***************************************************************************)
THEOREM RegistryIndexedHolds == Spec => []RegistryIndexed
<1>. QED BY InvHolds, PTL DEF EpochInv

(***************************************************************************)
(* distribute_epoch never meets EpochWeightsClobbered: whatever is tallied *)
(* remains distributable until it is distributed or written off.           *)
(***************************************************************************)
THEOREM NeverClobberedHolds == Spec => []NeverClobbered
<1>1. EpochInv => NeverClobbered
  <2>. SUFFICES ASSUME EpochInv, NEW e \in Epochs, Unfinished(e), epoch[e].weights_tallied,
                       NEW i \in Covered(e)
                PROVE  NotClobbered(e, registry[i])
    BY DEF NeverClobbered
  <2>1. epoch[e] \in EpochRecord
    BY EpochTyped DEF EpochInv, Unfinished
  <2>2. /\ epoch[e].tally_index >= epoch[e].active
        /\ \A j \in 1 .. epoch[e].tally_index : NotClobbered(e, registry[j])
    BY DEF EpochInv, TallyStamps
  <2>3. epoch[e].active \in Nat /\ epoch[e].tally_index \in Nat
    BY <2>1 DEF EpochRecord
  <2>4. i \in 1 .. epoch[e].active
    BY <2>3 DEF Covered, MinOf, EpochInv, TypeOK
  <2>. QED BY <2>2, <2>3, <2>4
<1>. QED BY <1>1, InvHolds, PTL

(***************************************************************************)
(* The treasury always holds what the open epoch may still pay out of its  *)
(* total_eligible_rewards.                                                 *)
(***************************************************************************)
THEOREM TreasuryCoversHolds == Spec => []TreasuryCovers
<1>. QED BY InvHolds, PTL DEF EpochInv

(***************************************************************************)
(* An epoch with a rent receipt can always find it, so close_epoch is not  *)
(* blocked by a missing one.                                               *)
(***************************************************************************)
THEOREM ReceiptKeptHolds == Spec => []ReceiptKept
<1>. QED BY InvHolds, PTL DEF EpochInv

(***************************************************************************)
(* While an epoch is unfinished no step moves a gateway out of the slots   *)
(* it covers, so failure_counts[i] speaks of the same gateway from the     *)
(* first report to the last batch (ADR-0036).                              *)
(***************************************************************************)
THEOREM PositionsFrozenHolds == Spec => PositionsFrozen
<1>. DEFINE Kept == \A e \in Epochs : Unfinished(e) =>
              \A i \in 1 .. epoch[e].active :
                i \in DOMAIN registry' /\ registry'[i] = registry[i]
<1>1. ASSUME EpochInv, [Next]_vars PROVE Kept
  <2>0. registry \in Seq(Operators) /\ Len(registry) \in Nat
    BY <1>1 DEF EpochInv, TypeOK
  <2>1. \A e \in Epochs : Unfinished(e) =>
          1 .. epoch[e].active \subseteq 1 .. Len(registry)
    <3>. SUFFICES ASSUME NEW e \in Epochs, Unfinished(e)
                  PROVE  1 .. epoch[e].active \subseteq 1 .. Len(registry)
      OBVIOUS
    <3>1. epoch[e] \in EpochRecord
      BY <1>1, EpochTyped DEF EpochInv, Unfinished
    <3>2. epoch[e].active \in Nat /\ epoch[e].active <= Len(registry)
      BY <1>1, <3>1 DEF EpochInv, TallyStamps, EpochRecord
    <3>. QED BY <2>0, <3>2
  <2>2. CASE UNCHANGED registry
    BY <2>0, <2>1, <2>2
  <2>3. ASSUME NEW g \in Operators, JoinNetwork(g) PROVE Kept
    <3>1. registry' = Append(registry, g)
      BY <2>3 DEF JoinNetwork
    <3>2. \A i \in 1 .. Len(registry) : i \in DOMAIN registry' /\ registry'[i] = registry[i]
      BY <2>0, <3>1
    <3>. QED BY <2>1, <3>2
  <2>4. ASSUME NEW g \in Operators, FinalizeGone(g) PROVE Kept
    <3>1. \A e \in Epochs : ~Unfinished(e)
      BY <1>1, <2>4, NoneOpen DEF EpochInv, FinalizeGone, PositionsReleased
    <3>. QED BY <3>1
  <2>5. \/ UNCHANGED registry
        \/ \E g \in Operators : JoinNetwork(g) \/ FinalizeGone(g)
    <3>. USE DEF slotVars
    <3>1. AdminNext => UNCHANGED registry
      BY DEF AdminNext, SetEpochsEnabled, AdminSetEpochDuration, AdminSetCurrentEpochIndex,
           AdminCloseStaleEpoch, AdminCloseOrphanedEpochRentReceipt
    <3>2. CrankNext => UNCHANGED registry
      <4>1. ASSUME NEW e \in Epochs, NEW n, NEW weighty, TallyWeights(e, n, weighty)
            PROVE  UNCHANGED registry
        BY <4>1 DEF TallyWeights
      <4>2. ASSUME NEW e \in Epochs, NEW S, PrescribeEpoch(e, S)
            PROVE  UNCHANGED registry
        BY <4>2 DEF PrescribeEpoch
      <4>3. ASSUME NEW e \in Epochs, NEW n, DistributeEpoch(e, n)
            PROVE  UNCHANGED registry
        BY <4>3 DEF DistributeEpoch
      <4>. QED BY <4>1, <4>2, <4>3 DEF CrankNext, CreateEpoch, Tally, Prescribe, Distribute,
                    SkipUnobserved, CloseEpoch
    <3>3. ObserverNext => UNCHANGED registry
      BY DEF ObserverNext, SaveObservations, CloseObservation
    <3>4. ASSUME NEW g \in Operators, LeaveNetwork(g) \/ PruneGateway(g)
          PROVE  UNCHANGED registry
      BY <3>4 DEF LeaveNetwork, PruneGateway, MarkLeaving
    <3>5. Tick \/ UNCHANGED vars => UNCHANGED registry
      BY DEF Tick, vars
    <3>. QED BY <1>1, <3>1, <3>2, <3>3, <3>4, <3>5 DEF Next, GatewayNext
  <2>. QED BY <2>2, <2>3, <2>4, <2>5
<1>. QED BY <1>1, InvHolds, PTL DEF Spec, PositionsFrozen

-----------------------------------------------------------------------------
(***************************************************************************)
(* Reports.  What keeps ReportsCounted is that nobody reports once the     *)
(* epoch has ended, that reports are closed only after the distribution,   *)
(* which comes after the end, and that an index is used for one epoch only *)
(* though admin_close_stale_epoch leaves the reports of an epoch behind.   *)
(***************************************************************************)

(* The observers whose reports on e are still open. *)
OpenReports(e) == {g \in Operators : <<e, g>> \in observations}

(* The reports of an epoch s of which those of O are open, at time t, when *)
(* it has paid p.                                                          *)
ReportsOK(s, O, t, p) ==
  /\ s.observed \subseteq s.observers
  /\ s.submitted = Cardinality(s.observed)
  /\ \A i \in Slots : s.failure_counts[i] <= s.submitted
  /\ s.submitted = s.closed + Cardinality(O)
  /\ O \subseteq s.observed
  /\ s.prescriptions_done => s.weights_tallied
  /\ ~s.prescriptions_done =>
       s.observed = {} /\ p = 0 /\ s.distribution_index = 0 /\ ~s.distributed
  /\ IF s.distributed THEN t >= s.end ELSE O = s.observed
  /\ ~s.distributed /\ s.distribution_index > 0 => s.submitted > 0

(* Every epoch's reports are in order, and an index that is still to come *)
(* has none.                                                              *)
ReportInv ==
  \A e \in Epochs :
    /\ e >= current_epoch_index => OpenReports(e) = {} /\ paid[e] = 0
    /\ Exists(e) => ReportsOK(epoch[e], OpenReports(e), now, paid[e])

(* A set of operators is finite. *)
LEMMA OperatorsFinite ==
  ASSUME NEW S, S \subseteq Operators
  PROVE  IsFiniteSet(S) /\ Cardinality(S) \in Nat
BY SetAssumption, FS_Subset, FS_CardinalityType

(* Time passes. *)
LEMMA ReportsLater ==
  ASSUME NEW s \in EpochRecord, NEW O, NEW t \in Nat, NEW p, ReportsOK(s, O, t, p),
         NEW u \in Nat, t <= u
  PROVE  ReportsOK(s, O, u, p)
BY DEF ReportsOK, EpochRecord

(* A tally comes before the prescription. *)
LEMMA ReportsTally ==
  ASSUME NEW s \in EpochRecord, NEW O, NEW t, NEW p, ReportsOK(s, O, t, p),
         ~s.weights_tallied, NEW n \in Nat, NEW b \in BOOLEAN
  PROVE  ReportsOK(Tallied(s, n, b), O, t, p)
<1>. DEFINE r == Tallied(s, n, b)
<1>1. /\ r.observed = s.observed /\ r.observers = s.observers /\ r.submitted = s.submitted
      /\ r.failure_counts = s.failure_counts /\ r.closed = s.closed
      /\ r.prescriptions_done = s.prescriptions_done
      /\ r.distribution_index = s.distribution_index /\ r.distributed = s.distributed
      /\ r.end = s.end
  BY DEF Tallied, EpochRecord
<1>2. ~s.prescriptions_done
  BY DEF ReportsOK
<1>. HIDE DEF r
<1>3. ReportsOK(r, O, t, p)
  BY <1>1, <1>2 DEF ReportsOK
<1>. QED BY <1>3 DEF r

(* The prescription comes before the first report. *)
LEMMA ReportsPrescribe ==
  ASSUME NEW s \in EpochRecord, NEW O, NEW t, NEW p, ReportsOK(s, O, t, p),
         s.weights_tallied, ~s.prescriptions_done,
         NEW S \in SUBSET Operators, NEW x \in Nat, NEW y \in Nat
  PROVE  ReportsOK(Prescribed(s, S, x, y), O, t, p)
<1>. DEFINE r == Prescribed(s, S, x, y)
<1>1. /\ r.observed = s.observed /\ r.submitted = s.submitted
      /\ r.failure_counts = s.failure_counts /\ r.closed = s.closed
      /\ r.weights_tallied = s.weights_tallied
      /\ r.distribution_index = s.distribution_index /\ r.distributed = s.distributed
      /\ r.end = s.end /\ r.prescriptions_done
  BY DEF Prescribed, EpochRecord
<1>2. s.observed = {}
  BY DEF ReportsOK
<1>. HIDE DEF r
<1>3. ReportsOK(r, O, t, p)
  BY <1>1, <1>2 DEF ReportsOK
<1>. QED BY <1>3 DEF r

(* A first report in time. *)
LEMMA ReportsSave ==
  ASSUME NEW s \in EpochRecord, NEW O \in SUBSET Operators, NEW t \in Nat, NEW p,
         ReportsOK(s, O, t, p), s.prescriptions_done, t < s.end,
         NEW g \in Operators, g \in s.observers, g \notin O, NEW bad
  PROVE  ReportsOK(Reported(s, s.observed \cup {g},
                            [i \in Slots |-> s.failure_counts[i] + (IF i \in bad THEN 1 ELSE 0)],
                            s.submitted + 1),
                   O \cup {g}, t, p)
<1>. DEFINE f == [i \in Slots |-> s.failure_counts[i] + (IF i \in bad THEN 1 ELSE 0)]
            W == s.observed \cup {g}
            m == s.submitted + 1
            r == Reported(s, W, f, m)
<1>1. /\ r.observed = W /\ r.submitted = m /\ r.failure_counts = f
      /\ r.observers = s.observers /\ r.closed = s.closed
      /\ r.weights_tallied = s.weights_tallied /\ r.prescriptions_done = s.prescriptions_done
      /\ r.distribution_index = s.distribution_index /\ r.distributed = s.distributed
      /\ r.end = s.end
  BY DEF Reported, EpochRecord
<1>2. /\ s.submitted \in Nat /\ s.closed \in Nat /\ s.failure_counts \in [Slots -> Nat]
      /\ s.end \in Int /\ s.observed \subseteq Operators
  BY DEF EpochRecord
<1>3. ~s.distributed /\ O = s.observed
  BY <1>2 DEF ReportsOK
<1>4. /\ Cardinality(O \cup {g}) = Cardinality(O) + 1
      /\ Cardinality(W) = Cardinality(s.observed) + 1
  <2>1. IsFiniteSet(O)
    BY OperatorsFinite
  <2>2. Cardinality(O \cup {g}) = Cardinality(O) + 1
    BY <2>1, FS_AddElement
  <2>. QED BY <1>3, <2>2
<1>5. Cardinality(O) \in Nat /\ Cardinality(s.observed) \in Nat
  BY <1>2, OperatorsFinite
<1>6. \A i \in Slots : f[i] <= m
  <2>. SUFFICES ASSUME NEW i \in Slots PROVE f[i] <= m
    OBVIOUS
  <2>1. s.failure_counts[i] \in Nat /\ s.failure_counts[i] <= s.submitted
    BY <1>2 DEF ReportsOK
  <2>. QED BY <1>2, <2>1
<1>7. m = s.closed + Cardinality(O \cup {g}) /\ m = Cardinality(W) /\ m > 0
  BY <1>2, <1>4, <1>5 DEF ReportsOK
<1>8. W \subseteq s.observers /\ O \cup {g} = W
  BY <1>3 DEF ReportsOK
<1>. HIDE DEF r, f, W, m
<1>9. ReportsOK(r, O \cup {g}, t, p)
  BY <1>1, <1>3, <1>6, <1>7, <1>8 DEF ReportsOK
<1>. QED BY <1>9 DEF r, f, W, m

(* A report closed after the distribution. *)
LEMMA ReportsClose ==
  ASSUME NEW s \in EpochRecord, NEW O \in SUBSET Operators, NEW t, NEW p,
         ReportsOK(s, O, t, p), s.distributed, NEW g \in O
  PROVE  ReportsOK(ReportClosed(s, s.closed + 1), O \ {g}, t, p)
<1>. DEFINE r == ReportClosed(s, s.closed + 1)
<1>1. /\ r.observed = s.observed /\ r.observers = s.observers /\ r.submitted = s.submitted
      /\ r.failure_counts = s.failure_counts /\ r.closed = s.closed + 1
      /\ r.weights_tallied = s.weights_tallied /\ r.prescriptions_done = s.prescriptions_done
      /\ r.distribution_index = s.distribution_index /\ r.distributed = s.distributed
      /\ r.end = s.end
  BY DEF ReportClosed, EpochRecord
<1>2. s.closed \in Nat /\ s.submitted \in Nat
  BY DEF EpochRecord
<1>3. Cardinality(O) \in Nat /\ Cardinality(O \ {g}) = Cardinality(O) - 1
  <2>1. IsFiniteSet(O) /\ Cardinality(O) \in Nat
    BY OperatorsFinite
  <2>. QED BY <2>1, FS_RemoveElement
<1>4. s.submitted = (s.closed + 1) + Cardinality(O \ {g})
  BY <1>2, <1>3 DEF ReportsOK
<1>. HIDE DEF r
<1>5. ReportsOK(r, O \ {g}, t, p)
  BY <1>1, <1>4 DEF ReportsOK
<1>. QED BY <1>5 DEF r

(* A batch, or an epoch without reports, after the end. *)
LEMMA ReportsPaid ==
  ASSUME NEW s \in EpochRecord, NEW O, NEW t \in Nat, NEW p, ReportsOK(s, O, t, p),
         s.prescriptions_done, ~s.distributed, t >= s.end, NEW n \in Nat, NEW b \in BOOLEAN,
         b \/ s.submitted # 0 \/ s.distribution_index # 0, NEW q
  PROVE  ReportsOK(Paid(s, n, b), O, t, q)
<1>. DEFINE r == Paid(s, n, b)
<1>1. /\ r.observed = s.observed /\ r.observers = s.observers /\ r.submitted = s.submitted
      /\ r.failure_counts = s.failure_counts /\ r.closed = s.closed
      /\ r.weights_tallied = s.weights_tallied /\ r.prescriptions_done = s.prescriptions_done
      /\ r.distribution_index = n /\ r.distributed = b /\ r.end = s.end
  BY DEF Paid, EpochRecord
<1>2. s.submitted \in Nat /\ s.distribution_index \in Nat
  BY DEF EpochRecord
<1>3. b \/ s.submitted > 0
  BY <1>2 DEF ReportsOK
<1>. HIDE DEF r
<1>4. ReportsOK(r, O, t, q)
  BY <1>1, <1>3 DEF ReportsOK
<1>. QED BY <1>4 DEF r

(* What ReportInv says of one index. *)
ReportAt(e) ==
  /\ e >= current_epoch_index => OpenReports(e) = {} /\ paid[e] = 0
  /\ Exists(e) => ReportsOK(epoch[e], OpenReports(e), now, paid[e])

(* An index that a step leaves alone. *)
LEMMA ReportElse ==
  ASSUME TypeOK, TypeOK', NEW e \in Epochs, ReportAt(e), epoch'[e] = epoch[e],
         OpenReports(e)' = OpenReports(e), paid'[e] = paid[e],
         current_epoch_index' >= current_epoch_index, now' >= now
  PROVE  ReportAt(e)'
<1>1. /\ e \in Nat /\ current_epoch_index \in Nat /\ current_epoch_index' \in Nat
      /\ now \in Nat /\ now' \in Nat
  BY NumberAssumption DEF TypeOK, Epochs
<1>2. e >= current_epoch_index' => OpenReports(e)' = {} /\ paid'[e] = 0
  BY <1>1 DEF ReportAt
<1>3. ASSUME Exists(e)' PROVE ReportsOK(epoch'[e], OpenReports(e)', now', paid'[e])
  <2>1. Exists(e)
    BY <1>3 DEF Exists
  <2>2. epoch[e] \in EpochRecord
    BY <2>1, EpochTyped
  <2>3. ReportsOK(epoch[e], OpenReports(e), now, paid[e])
    BY <2>1 DEF ReportAt
  <2>4. ReportsOK(epoch[e], OpenReports(e), now', paid[e])
    BY <1>1, <2>2, <2>3, ReportsLater
  <2>. QED BY <2>4
<1>. QED BY <1>2, <1>3 DEF ReportAt

(* A step that changes the account of one epoch. *)
LEMMA ReportOne ==
  ASSUME EpochInv, TypeOK', ReportInv, NEW e \in Epochs, Exists(e), NEW r, Holds(e, r),
         UNCHANGED <<current_epoch_index, now>>,
         \A f \in Epochs \ {e} : OpenReports(f)' = OpenReports(f) /\ paid'[f] = paid[f],
         ReportsOK(r, OpenReports(e)', now, paid'[e])
  PROVE  ReportInv'
<1>1. epoch'[e] = r /\ \A f \in Epochs \ {e} : epoch'[f] = epoch[f]
  BY DEF Holds, EpochInv, TypeOK
<1>2. ~(e >= current_epoch_index')
  <2>1. e \in Nat /\ current_epoch_index \in Nat
    BY NumberAssumption DEF EpochInv, TypeOK, Epochs
  <2>2. e < current_epoch_index
    BY DEF EpochInv, LatestOnlyOpen
  <2>. QED BY <2>1, <2>2
<1>3. ReportAt(e)'
  BY <1>1, <1>2 DEF ReportAt
<1>4. ASSUME NEW f \in Epochs \ {e} PROVE ReportAt(f)'
  <2>1. ReportAt(f) /\ TypeOK
    BY DEF ReportInv, ReportAt, EpochInv
  <2>2. current_epoch_index' >= current_epoch_index /\ now' >= now
    BY DEF EpochInv, TypeOK
  <2>. QED BY <1>1, <2>1, <2>2, ReportElse
<1>. QED BY <1>3, <1>4 DEF ReportInv, ReportAt

(* A step that changes no account of an epoch, nor a report. *)
LEMMA ReportKept ==
  ASSUME TypeOK, TypeOK', ReportInv, UNCHANGED <<epoch, observations, paid>>,
         current_epoch_index' >= current_epoch_index, now' >= now
  PROVE  ReportInv'
<1>. SUFFICES ASSUME NEW e \in Epochs PROVE ReportAt(e)'
  BY DEF ReportInv, ReportAt
<1>1. ReportAt(e)
  BY DEF ReportInv, ReportAt
<1>2. OpenReports(e)' = OpenReports(e)
  BY DEF OpenReports
<1>. QED BY <1>1, <1>2, ReportElse

(* A step that closes the account of an epoch. *)
LEMMA ReportGone ==
  ASSUME EpochInv, TypeOK', ReportInv, NEW e \in Epochs, Exists(e),
         epoch' = [epoch EXCEPT ![e] = NoEpoch],
         UNCHANGED <<current_epoch_index, now, observations, paid>>
  PROVE  ReportInv'
<1>1. epoch'[e] = NoEpoch /\ \A f \in Epochs \ {e} : epoch'[f] = epoch[f]
  BY DEF EpochInv, TypeOK
<1>2. ~(e >= current_epoch_index')
  <2>1. e \in Nat /\ current_epoch_index \in Nat
    BY NumberAssumption DEF EpochInv, TypeOK, Epochs
  <2>2. e < current_epoch_index
    BY DEF EpochInv, LatestOnlyOpen
  <2>. QED BY <2>1, <2>2
<1>3. ReportAt(e)'
  BY <1>1, <1>2 DEF ReportAt, Exists
<1>4. ASSUME NEW f \in Epochs \ {e} PROVE ReportAt(f)'
  <2>1. ReportAt(f) /\ TypeOK
    BY DEF ReportInv, ReportAt, EpochInv
  <2>2. current_epoch_index' >= current_epoch_index /\ now' >= now
    BY DEF EpochInv, TypeOK
  <2>3. OpenReports(f)' = OpenReports(f) /\ paid'[f] = paid[f]
    BY DEF OpenReports
  <2>. QED BY <1>1, <2>1, <2>2, <2>3, ReportElse
<1>. QED BY <1>3, <1>4 DEF ReportInv, ReportAt

(* create_epoch starts with no report, on an index that has none. *)
LEMMA ReportCreate ==
  ASSUME EpochInv, TypeOK', ReportInv, NEW receipt \in ReceiptChoices, CreateEpoch(receipt)
  PROVE  ReportInv'
<1>0. TypeOK
  BY DEF EpochInv
<1>a. PICK e \in Epochs : e = current_epoch_index
  BY DEF CreateEpoch
<1>. DEFINE r == [start |-> EpochStart, end |-> EpochStart + epoch_duration,
                  active |-> Len(registry),
                  tally_index |-> 0, weights_tallied |-> FALSE,
                  prescriptions_done |-> FALSE, observers |-> {}, observed |-> {},
                  failure_counts |-> [i \in Slots |-> 0], submitted |-> 0, closed |-> 0,
                  total |-> (treasury * RewardRate(e)) \div RateScale,
                  per_gateway |-> 0, per_observer |-> 0,
                  distribution_index |-> 0, distributed |-> FALSE,
                  has_rent_receipt |-> receipt]
<1>1. e \in Epochs /\ e \in Nat /\ current_epoch_index' = e + 1
  BY <1>0, <1>a DEF CreateEpoch, TypeOK
<1>2. epoch' = [epoch EXCEPT ![e] = r] /\ UNCHANGED <<now, observations, paid>>
  BY <1>a DEF CreateEpoch
<1>3. epoch'[e] = r /\ \A f \in Epochs \ {e} : epoch'[f] = epoch[f]
  BY <1>0, <1>1, <1>2 DEF TypeOK
<1>4. OpenReports(e) = {} /\ paid[e] = 0
  BY <1>1, <1>a DEF ReportInv
<1>5. \A f \in Epochs : OpenReports(f)' = OpenReports(f)
  BY <1>2 DEF OpenReports
<1>6. ReportsOK(r, {}, now, 0)
  <2>1. Cardinality({}) = 0
    BY FS_EmptySet
  <2>2. /\ r.observed = {} /\ r.observers = {} /\ r.submitted = 0
        /\ r.failure_counts = [i \in Slots |-> 0] /\ r.closed = 0
        /\ r.weights_tallied = FALSE /\ r.prescriptions_done = FALSE
        /\ r.distribution_index = 0 /\ r.distributed = FALSE
    OBVIOUS
  <2>. HIDE DEF r
  <2>. QED BY <2>1, <2>2 DEF ReportsOK
<1>. HIDE DEF r
<1>7. ReportAt(e)'
  <2>1. ~(e >= current_epoch_index')
    BY <1>1
  <2>2. ReportsOK(epoch'[e], OpenReports(e)', now', paid'[e])
    BY <1>1, <1>2, <1>3, <1>4, <1>5, <1>6
  <2>. QED BY <2>1, <2>2 DEF ReportAt
<1>8. ASSUME NEW f \in Epochs \ {e} PROVE ReportAt(f)'
  <2>1. ReportAt(f) /\ TypeOK
    BY <1>0 DEF ReportInv, ReportAt
  <2>2. current_epoch_index' >= current_epoch_index /\ now' >= now
    BY <1>0, <1>1, <1>2, <1>a DEF TypeOK
  <2>3. OpenReports(f)' = OpenReports(f) /\ paid'[f] = paid[f]
    BY <1>2, <1>5
  <2>. QED BY <1>3, <2>1, <2>2, <2>3, ReportElse
<1>. QED BY <1>7, <1>8 DEF ReportInv, ReportAt

(* tally_weights, one batch, as a record. *)
LEMMA TallyRecord ==
  ASSUME TypeOK, NEW e \in Epochs, NEW n, NEW weighty, TallyWeights(e, n, weighty)
  PROVE  /\ Exists(e) /\ epoch[e] \in EpochRecord /\ ~epoch[e].weights_tallied
         /\ n \in Nat /\ (n >= epoch[e].active) \in BOOLEAN
         /\ Holds(e, Tallied(epoch[e], n, n >= epoch[e].active))
<1>1. Exists(e) /\ epoch[e] \in EpochRecord /\ ~epoch[e].weights_tallied
  BY EpochTyped DEF TallyWeights, MayTally
<1>2. n \in Nat /\ (n >= epoch[e].active) \in BOOLEAN
  BY <1>1 DEF TallyWeights, EpochRecord
<1>3. epoch' = [epoch EXCEPT ![e] = Tallied(epoch[e], n, n >= epoch[e].active)]
  BY Zenon DEF TallyWeights, TypeOK, Tallied
<1>4. Tallied(epoch[e], n, n >= epoch[e].active) \in EpochRecord
  BY <1>1, <1>2, RecordTally
<1>. QED BY <1>1, <1>2, <1>3, <1>4 DEF Holds

(* prescribe_epoch, as a record. *)
LEMMA PrescribeRecord ==
  ASSUME TypeOK, NEW e \in Epochs, NEW S \in SUBSET Operators, PrescribeEpoch(e, S)
  PROVE  /\ Exists(e) /\ epoch[e] \in EpochRecord
         /\ epoch[e].weights_tallied /\ ~epoch[e].prescriptions_done
         /\ \E p, q \in Nat :
              /\ Holds(e, Prescribed(epoch[e], S, p, q))
              /\ p = IF Weighted(e) = {} THEN 0
                     ELSE ((epoch[e].total * GatewayRatio) \div RateScale) \div Sharers(e, S)
              /\ q = IF S = {} THEN 0
                     ELSE ((epoch[e].total * (RateScale - GatewayRatio)) \div RateScale)
                            \div Cardinality(S)
<1>. DEFINE p == IF Weighted(e) = {} THEN 0
                 ELSE ((epoch[e].total * GatewayRatio) \div RateScale) \div Sharers(e, S)
            q == IF S = {} THEN 0
                 ELSE ((epoch[e].total * (RateScale - GatewayRatio)) \div RateScale)
                        \div Cardinality(S)
            r == Prescribed(epoch[e], S, p, q)
<1>1. /\ Exists(e) /\ epoch[e] \in EpochRecord
      /\ epoch[e].weights_tallied /\ ~epoch[e].prescriptions_done
  BY EpochTyped DEF PrescribeEpoch
<1>2. Weighted(e) \in SUBSET Operators
  BY <1>1, CoveredSlots DEF Weighted
<1>3. IsFiniteSet(Weighted(e)) /\ IsFiniteSet(S)
  BY <1>2, SetAssumption, FS_Subset
<1>4. epoch[e].total \in Nat
  BY <1>1 DEF EpochRecord
<1>5. p \in Nat
  <2>1. CASE Weighted(e) = {}
    BY <2>1
  <2>2. CASE Weighted(e) # {}
    <3>1. Sharers(e, S) \in Nat \ {0}
      BY <1>3, <2>2, FS_CardinalityType, FS_EmptySet DEF Sharers
    <3>2. GatewayRatio \in Nat
      BY RateAssumption
    <3>. QED BY <1>4, <2>2, <3>1, <3>2, ShareNat
  <2>. QED BY <2>1, <2>2
<1>6. q \in Nat
  <2>1. CASE S = {}
    BY <2>1
  <2>2. CASE S # {}
    <3>1. Cardinality(S) \in Nat \ {0}
      BY <1>3, <2>2, FS_CardinalityType, FS_EmptySet
    <3>2. RateScale - GatewayRatio \in Nat
      BY RateAssumption
    <3>. QED BY <1>4, <2>2, <3>1, <3>2, ShareNat
  <2>. QED BY <2>1, <2>2
<1>7. epoch' = [epoch EXCEPT ![e] = r]
  BY Zenon DEF PrescribeEpoch, TypeOK, Prescribed
<1>. HIDE DEF r, p, q
<1>8. r \in EpochRecord
  BY <1>1, <1>5, <1>6, RecordPrescribe DEF r
<1>9. Holds(e, Prescribed(epoch[e], S, p, q))
  BY <1>7, <1>8 DEF Holds, r
<1>. QED BY <1>1, <1>5, <1>6, <1>9, Zenon DEF p, q

(* A batch or the end of an unobserved epoch, as a record. *)
LEMMA DistributeRecord ==
  ASSUME TypeOK, NEW e \in Epochs, NEW n \in Nat, NEW b \in BOOLEAN,
         \/ DistributeEpoch(e, n) /\ b = (n >= epoch[e].active)
         \/ SkipUnobserved(e) /\ b = TRUE /\ n = epoch[e].active
  PROVE  /\ Exists(e) /\ epoch[e] \in EpochRecord
         /\ epoch[e].prescriptions_done /\ ~epoch[e].distributed /\ now >= epoch[e].end
         /\ b \/ epoch[e].submitted # 0 \/ epoch[e].distribution_index # 0
         /\ Holds(e, Paid(epoch[e], n, b))
<1>1. MayDistribute(e)
  BY DEF DistributeEpoch, SkipUnobserved
<1>2. /\ Exists(e) /\ epoch[e] \in EpochRecord
      /\ epoch[e].prescriptions_done /\ ~epoch[e].distributed /\ now >= epoch[e].end
  BY <1>1, EpochTyped DEF MayDistribute
<1>3. b \/ epoch[e].submitted # 0 \/ epoch[e].distribution_index # 0
  <2>1. CASE DistributeEpoch(e, n)
    BY <2>1 DEF DistributeEpoch, Unobserved
  <2>2. CASE b = TRUE
    BY <2>2, Zenon
  <2>. QED BY <2>1, <2>2
<1>4. epoch' = [epoch EXCEPT ![e] = Paid(epoch[e], n, b)]
  <2>1. CASE DistributeEpoch(e, n) /\ b = (n >= epoch[e].active)
    BY <2>1, Zenon DEF DistributeEpoch, TypeOK, Paid
  <2>2. CASE SkipUnobserved(e) /\ b = TRUE /\ n = epoch[e].active
    BY <2>2, Zenon DEF SkipUnobserved, TypeOK, Paid
  <2>. QED BY <2>1, <2>2
<1>5. Paid(epoch[e], n, b) \in EpochRecord
  BY <1>2, RecordDistribute
<1>. QED BY <1>2, <1>3, <1>4, <1>5 DEF Holds

(* The cranks keep the reports in order. *)
LEMMA ReportCrank ==
  ASSUME EpochInv, TypeOK', ReportInv, CrankNext
  PROVE  ReportInv'
<1>. USE DEF settingsVars
<1>0. TypeOK /\ now \in Nat
  BY DEF EpochInv, TypeOK
<1>a. ASSUME UNCHANGED <<observations, paid>>
      PROVE  \A f \in Epochs : OpenReports(f)' = OpenReports(f) /\ paid'[f] = paid[f]
  BY <1>a DEF OpenReports
<1>b. \A e \in Epochs : Exists(e) => ReportsOK(epoch[e], OpenReports(e), now, paid[e])
  BY DEF ReportInv
<1>1. ASSUME NEW e \in Epochs, NEW n, NEW weighty, TallyWeights(e, n, weighty)
      PROVE  ReportInv'
  <2>. DEFINE r == Tallied(epoch[e], n, n >= epoch[e].active)
  <2>1. /\ Exists(e) /\ epoch[e] \in EpochRecord /\ ~epoch[e].weights_tallied
        /\ n \in Nat /\ (n >= epoch[e].active) \in BOOLEAN /\ Holds(e, r)
    BY <1>0, <1>1, TallyRecord
  <2>2. UNCHANGED <<observations, paid, current_epoch_index, now>>
    BY <1>1 DEF TallyWeights
  <2>3. ReportsOK(r, OpenReports(e), now, paid[e])
    BY <1>b, <2>1, ReportsTally
  <2>. HIDE DEF r
  <2>. QED BY <1>a, <2>1, <2>2, <2>3, ReportOne
<1>2. ASSUME NEW e \in Epochs, NEW S \in SUBSET Operators, PrescribeEpoch(e, S)
      PROVE  ReportInv'
  <2>1. /\ Exists(e) /\ epoch[e] \in EpochRecord
        /\ epoch[e].weights_tallied /\ ~epoch[e].prescriptions_done
    BY <1>0, <1>2, PrescribeRecord
  <2>2. PICK p \in Nat, q \in Nat : Holds(e, Prescribed(epoch[e], S, p, q))
    BY <1>0, <1>2, PrescribeRecord
  <2>. DEFINE r == Prescribed(epoch[e], S, p, q)
  <2>3. UNCHANGED <<observations, paid, current_epoch_index, now>>
    BY <1>2 DEF PrescribeEpoch
  <2>4. ReportsOK(r, OpenReports(e), now, paid[e])
    BY <1>b, <2>1, ReportsPrescribe
  <2>5. Holds(e, r)
    BY <2>2
  <2>. HIDE DEF r
  <2>. QED BY <1>a, <2>1, <2>3, <2>4, <2>5, ReportOne
<1>3. ASSUME NEW e \in Epochs, NEW n \in Nat, NEW b \in BOOLEAN,
             \/ DistributeEpoch(e, n) /\ b = (n >= epoch[e].active)
             \/ SkipUnobserved(e) /\ b = TRUE /\ n = epoch[e].active
      PROVE  ReportInv'
  <2>. DEFINE r == Paid(epoch[e], n, b)
  <2>1. /\ Exists(e) /\ epoch[e] \in EpochRecord
        /\ epoch[e].prescriptions_done /\ ~epoch[e].distributed /\ now >= epoch[e].end
        /\ b \/ epoch[e].submitted # 0 \/ epoch[e].distribution_index # 0
        /\ Holds(e, r)
    BY <1>0, <1>3, DistributeRecord
  <2>2. UNCHANGED <<observations, current_epoch_index, now>>
    BY <1>3 DEF DistributeEpoch, SkipUnobserved
  <2>3. \A f \in Epochs \ {e} : paid'[f] = paid[f]
    <3>1. CASE SkipUnobserved(e)
      BY <3>1 DEF SkipUnobserved
    <3>2. CASE DistributeEpoch(e, n)
      <4>1. \E t \in Nat : paid' = [paid EXCEPT ![e] = paid[e] + t]
        BY <1>0, <3>2, DistributeStep
      <4>. QED BY <1>0, <4>1 DEF TypeOK
    <3>. QED BY <1>3, <3>1, <3>2
  <2>4. \A f \in Epochs : OpenReports(f)' = OpenReports(f)
    BY <2>2 DEF OpenReports
  <2>5. ReportsOK(r, OpenReports(e), now, paid'[e])
    BY <1>0, <1>b, <2>1, ReportsPaid
  <2>. HIDE DEF r
  <2>. QED BY <2>1, <2>2, <2>3, <2>4, <2>5, ReportOne
<1>4. ASSUME NEW e \in Epochs, CloseEpoch(e) PROVE ReportInv'
  <2>1. /\ Exists(e) /\ epoch' = [epoch EXCEPT ![e] = NoEpoch]
        /\ UNCHANGED <<current_epoch_index, now, observations, paid>>
    BY <1>4 DEF CloseEpoch, MayClose
  <2>. QED BY <2>1, ReportGone
<1>5. ASSUME NEW e \in Epochs, NEW n \in Slots, DistributeEpoch(e, n) PROVE ReportInv'
  <2>1. Exists(e) /\ epoch[e] \in EpochRecord
    BY <1>0, <1>5, EpochTyped DEF DistributeEpoch, MayDistribute
  <2>2. n \in Nat /\ (n >= epoch[e].active) \in BOOLEAN
    BY <1>5, <2>1 DEF DistributeEpoch, EpochRecord
  <2>. QED BY <1>3, <1>5, <2>2
<1>6. ASSUME NEW e \in Epochs, SkipUnobserved(e) PROVE ReportInv'
  <2>1. epoch[e].active \in Nat
    BY <1>0, <1>6, EpochTyped DEF SkipUnobserved, MayDistribute, EpochRecord
  <2>. QED BY <1>3, <1>6, <2>1
<1>. QED BY <1>1, <1>2, <1>4, <1>5, <1>6, ReportCreate DEF CrankNext, Tally, Prescribe, Distribute

(* The observers keep them in order. *)
LEMMA ReportObserver ==
  ASSUME EpochInv, TypeOK', ReportInv, ObserverNext
  PROVE  ReportInv'
<1>. USE DEF settingsVars
<1>0. TypeOK /\ now \in Nat
  BY DEF EpochInv, TypeOK
<1>b. \A e \in Epochs : Exists(e) => ReportsOK(epoch[e], OpenReports(e), now, paid[e])
  BY DEF ReportInv
<1>c. \A e \in Epochs : OpenReports(e) \in SUBSET Operators
  BY DEF OpenReports
<1>1. ASSUME NEW e \in Epochs, NEW g \in Operators, NEW bad, SaveObservations(e, g, bad)
      PROVE  ReportInv'
  <2>. DEFINE r == Reported(epoch[e], epoch[e].observed \cup {g},
                     [i \in Slots |-> epoch[e].failure_counts[i] + (IF i \in bad THEN 1 ELSE 0)],
                     epoch[e].submitted + 1)
  <2>1. /\ Exists(e) /\ epoch[e] \in EpochRecord /\ epoch[e].prescriptions_done
        /\ now < epoch[e].end /\ g \in epoch[e].observers
        /\ UNCHANGED <<paid, current_epoch_index, now>>
    BY <1>0, <1>1, EpochTyped DEF SaveObservations
  <2>2. g \notin OpenReports(e) /\ observations' = observations \cup {<<e, g>>}
    BY <1>1 DEF SaveObservations, FirstReport, OpenReports
  <2>3. epoch' = [epoch EXCEPT ![e] = r]
    BY <1>0, <1>1, Zenon DEF SaveObservations, TypeOK, Reported
  <2>4. r \in EpochRecord
    <3>1. /\ epoch[e].observed \cup {g} \in SUBSET Operators /\ epoch[e].submitted + 1 \in Nat
          /\ [i \in Slots |-> epoch[e].failure_counts[i] + (IF i \in bad THEN 1 ELSE 0)]
               \in [Slots -> Nat]
      BY <2>1 DEF EpochRecord
    <3>. QED BY <2>1, <3>1, RecordSave
  <2>5. /\ OpenReports(e)' = OpenReports(e) \cup {g}
        /\ \A f \in Epochs \ {e} : OpenReports(f)' = OpenReports(f)
    BY <2>2 DEF OpenReports
  <2>6. ReportsOK(r, OpenReports(e) \cup {g}, now, paid[e])
    BY <1>0, <1>b, <1>c, <2>1, <2>2, ReportsSave
  <2>. HIDE DEF r
  <2>7. Holds(e, r)
    BY <2>3, <2>4 DEF Holds
  <2>. QED BY <2>1, <2>5, <2>6, <2>7, ReportOne
<1>2. ASSUME NEW e \in Epochs, NEW g \in Operators, CloseObservation(e, g)
      PROVE  ReportInv'
  <2>. DEFINE r == ReportClosed(epoch[e], epoch[e].closed + 1)
  <2>1. /\ Exists(e) /\ epoch[e] \in EpochRecord /\ epoch[e].distributed
        /\ UNCHANGED <<paid, current_epoch_index, now>>
    BY <1>0, <1>2, EpochTyped DEF CloseObservation
  <2>2. g \in OpenReports(e) /\ observations' = observations \ {<<e, g>>}
    BY <1>2 DEF CloseObservation, OpenReports
  <2>3. epoch' = [epoch EXCEPT ![e] = r]
    BY <1>0, <1>2, Zenon DEF CloseObservation, TypeOK, ReportClosed
  <2>4. r \in EpochRecord
    <3>1. epoch[e].closed + 1 \in Nat
      BY <2>1 DEF EpochRecord
    <3>. QED BY <2>1, <3>1, RecordClosed
  <2>5. /\ OpenReports(e)' = OpenReports(e) \ {g}
        /\ \A f \in Epochs \ {e} : OpenReports(f)' = OpenReports(f)
    BY <2>2 DEF OpenReports
  <2>6. ReportsOK(r, OpenReports(e) \ {g}, now, paid[e])
    BY <1>0, <1>b, <1>c, <2>1, <2>2, ReportsClose
  <2>. HIDE DEF r
  <2>7. Holds(e, r)
    BY <2>3, <2>4 DEF Holds
  <2>. QED BY <2>1, <2>5, <2>6, <2>7, ReportOne
<1>. QED BY <1>1, <1>2 DEF ObserverNext

(* Every step keeps them in order. *)
LEMMA ReportStep ==
  ASSUME EpochInv, ReportInv, [Next]_vars
  PROVE  ReportInv'
<1>. USE DEF settingsVars, epochVars
<1>0. TypeOK /\ TypeOK'
  BY NextType DEF EpochInv
<1>a. now \in Nat /\ current_epoch_index \in Nat
  BY <1>0 DEF TypeOK
<1>1. ASSUME NEW e \in Epochs, AdminCloseStaleEpoch(e) PROVE ReportInv'
  <2>1. /\ Exists(e) /\ epoch' = [epoch EXCEPT ![e] = NoEpoch]
        /\ UNCHANGED <<current_epoch_index, now, observations, paid>>
    BY <1>1 DEF AdminCloseStaleEpoch, Unfinished
  <2>. QED BY <1>0, <2>1, ReportGone
<1>2. ASSUME UNCHANGED <<epoch, observations, paid>>, now' >= now,
             current_epoch_index' >= current_epoch_index
      PROVE  ReportInv'
  BY <1>0, <1>2, ReportKept
<1>3. CASE AdminNext
  <2>1. ASSUME NEW on \in Switches, SetEpochsEnabled(on) PROVE ReportInv'
    BY <1>2, <1>a, <2>1 DEF SetEpochsEnabled
  <2>2. ASSUME NEW duration \in Retunes, AdminSetEpochDuration(duration) PROVE ReportInv'
    BY <1>2, <1>a, <2>2 DEF AdminSetEpochDuration
  <2>3. ASSUME NEW index \in FirstIndices, AdminSetCurrentEpochIndex(index) PROVE ReportInv'
    <3>1. index \in Nat /\ index >= 0
      BY SetAssumption
    <3>. QED BY <1>2, <1>a, <2>3, <3>1 DEF AdminSetCurrentEpochIndex
  <2>4. ASSUME NEW e \in Epochs, AdminCloseOrphanedEpochRentReceipt(e) PROVE ReportInv'
    BY <1>2, <1>a, <2>4 DEF AdminCloseOrphanedEpochRentReceipt
  <2>. QED BY <1>1, <1>3, <2>1, <2>2, <2>3, <2>4 DEF AdminNext
<1>4. CASE GatewayNext
  <2>1. UNCHANGED <<epoch, observations, paid, now, current_epoch_index>>
    BY <1>4 DEF GatewayNext, JoinNetwork, LeaveNetwork, PruneGateway, MarkLeaving, FinalizeGone
  <2>. QED BY <1>2, <1>a, <2>1
<1>5. CASE Tick
  BY <1>2, <1>a, <1>5 DEF Tick
<1>6. CASE UNCHANGED vars
  BY <1>2, <1>a, <1>6 DEF vars
<1>. QED BY <1>0, <1>3, <1>4, <1>5, <1>6, ReportCrank, ReportObserver DEF Next

(* Reports are in order in every reachable state. *)
LEMMA ReportHolds == Spec => []ReportInv
<1>1. Init => ReportInv
  BY DEF Init, ReportInv, OpenReports, Exists
<1>. QED BY <1>1, ReportStep, InvHolds, PTL DEF Spec

(***************************************************************************)
(* Every prescribed observer is counted once, and every report is an open  *)
(* account or a closed one, whatever is created, closed or written off in  *)
(* between.                                                                *)
(***************************************************************************)
THEOREM ReportsCountedHolds == Spec => []ReportsCounted
<1>1. ReportInv => ReportsCounted
  BY DEF ReportInv, ReportsOK, ReportsCounted, OpenReports
<1>. QED BY <1>1, ReportHolds, PTL

(* Only close_epoch takes away the account of a distributed epoch. *)
LEMMA OnlyCloseEpoch ==
  ASSUME EpochInv, [Next]_vars, NEW e \in Epochs, Exists(e), epoch[e].distributed,
         epoch'[e] = NoEpoch
  PROVE  MayClose(e)
<1>0. TypeOK /\ epoch[e] # NoEpoch /\ NoEpoch \notin EpochRecord
  BY SetAssumption DEF EpochInv, Exists
<1>a. ASSUME NEW f \in Epochs, NEW r, Holds(f, r) PROVE FALSE
  BY <1>0, <1>a DEF Holds, TypeOK
<1>b. ASSUME epoch' = epoch PROVE FALSE
  BY <1>0, <1>b
<1>1. CASE AdminNext
  <2>1. ASSUME NEW f \in Epochs, AdminCloseStaleEpoch(f) PROVE FALSE
    <3>1. epoch' = [epoch EXCEPT ![f] = NoEpoch] /\ f # e
      BY <2>1 DEF AdminCloseStaleEpoch, Unfinished
    <3>. QED BY <1>0, <3>1 DEF TypeOK
  <2>. QED BY <1>1, <1>b, <2>1 DEF AdminNext, SetEpochsEnabled, AdminSetEpochDuration, epochVars,
         AdminSetCurrentEpochIndex, AdminCloseOrphanedEpochRentReceipt
<1>2. CASE CrankNext
  <2>1. ASSUME NEW receipt \in ReceiptChoices, CreateEpoch(receipt) PROVE FALSE
    <3>1. receipt \in BOOLEAN /\ current_epoch_index \in Epochs
      BY <2>1, SetAssumption DEF CreateEpoch
    <3>2. \E r : Holds(current_epoch_index, r)
      BY <1>0, <2>1, <3>1, CreateStep
    <3>. QED BY <1>a, <3>1, <3>2
  <2>2. ASSUME NEW f \in Epochs, Tally(f) PROVE FALSE
    <3>1. \E r : Holds(f, r)
      BY <1>0, <2>2, TallyStep DEF Tally
    <3>. QED BY <1>a, <3>1
  <2>3. ASSUME NEW f \in Epochs, Prescribe(f) PROVE FALSE
    <3>1. \E r : Holds(f, r)
      BY <1>0, <2>3, PrescribeStep DEF Prescribe
    <3>. QED BY <1>a, <3>1
  <2>4. ASSUME NEW f \in Epochs, Distribute(f) PROVE FALSE
    <3>1. \E r : Holds(f, r)
      BY <1>0, <2>4, SkipStep, DistributeStep DEF Distribute
    <3>. QED BY <1>a, <3>1
  <2>5. ASSUME NEW f \in Epochs, CloseEpoch(f) PROVE MayClose(e)
    <3>1. epoch' = [epoch EXCEPT ![f] = NoEpoch] /\ MayClose(f)
      BY <2>5 DEF CloseEpoch
    <3>2. f = e
      BY <1>0, <3>1 DEF TypeOK
    <3>. QED BY <3>1, <3>2
  <2>. QED BY <1>2, <2>1, <2>2, <2>3, <2>4, <2>5 DEF CrankNext
<1>3. CASE ObserverNext
  <2>1. \E f \in Epochs : \E r : Holds(f, r)
    <3>1. PICK f \in Epochs, g \in Operators :
            (\E bad \in SUBSET Slots : SaveObservations(f, g, bad)) \/ CloseObservation(f, g)
      BY <1>3 DEF ObserverNext
    <3>2. CASE \E bad \in SUBSET Slots : SaveObservations(f, g, bad)
      BY <1>0, <3>2, SaveStep
    <3>3. CASE CloseObservation(f, g)
      BY <1>0, <3>3, CloseObservationStep
    <3>. QED BY <3>1, <3>2, <3>3
  <2>. QED BY <1>a, <2>1
<1>4. CASE GatewayNext \/ Tick \/ UNCHANGED vars
  <2>1. epoch' = epoch
    BY <1>4 DEF GatewayNext, JoinNetwork, LeaveNetwork, PruneGateway, MarkLeaving, FinalizeGone,
                Tick, vars, epochVars
  <2>. QED BY <1>b, <2>1
<1>. QED BY <1>1, <1>2, <1>3, <1>4 DEF Next

(***************************************************************************)
(* close_epoch, which only compares two counters, never leaves an          *)
(* Observation account behind that nothing could close any more.           *)
(***************************************************************************)
THEOREM CloseStrandsNothingHolds == Spec => CloseStrandsNothing
<1>. DEFINE Clean == \A e \in Epochs :
              Exists(e) /\ epoch[e].distributed /\ epoch'[e] = NoEpoch =>
                ~\E g \in Operators : <<e, g>> \in observations
<1>1. ASSUME EpochInv, ReportInv, [Next]_vars PROVE Clean
  <2>. SUFFICES ASSUME NEW e \in Epochs, Exists(e), epoch[e].distributed, epoch'[e] = NoEpoch
                PROVE  OpenReports(e) = {}
    BY DEF OpenReports
  <2>1. MayClose(e)
    BY <1>1, OnlyCloseEpoch
  <2>2. epoch[e].closed \in Nat /\ epoch[e].submitted \in Nat
    BY <1>1, EpochTyped DEF EpochInv, EpochRecord
  <2>3. epoch[e].submitted = epoch[e].closed + Cardinality(OpenReports(e))
    BY <1>1 DEF ReportInv, ReportsOK
  <2>4. IsFiniteSet(OpenReports(e)) /\ Cardinality(OpenReports(e)) \in Nat
    BY OperatorsFinite DEF OpenReports
  <2>5. Cardinality(OpenReports(e)) = 0
    BY <2>1, <2>2, <2>3, <2>4 DEF MayClose
  <2>. QED BY <2>4, <2>5, FS_EmptySet
<1>. QED BY <1>1, InvHolds, ReportHolds, PTL DEF Spec, CloseStrandsNothing

-----------------------------------------------------------------------------
(***************************************************************************)
(* Failure streaks.                                                        *)
(***************************************************************************)

(* A wallet without a gateway has no streak. *)
NoStreak == \A g \in Operators : status[g] = "None" => failed_consecutive[g] = 0

(* Every step keeps it that way. *)
LEMMA StreakStep ==
  ASSUME EpochInv, NoStreak, [Next]_vars
  PROVE  NoStreak'
<1>. USE DEF slotVars, gatewayVars, scoreVars
<1>0. TypeOK
  BY DEF EpochInv
<1>1. ASSUME UNCHANGED <<status, failed_consecutive>> PROVE NoStreak'
  BY <1>1 DEF NoStreak
<1>2. CASE AdminNext
  BY <1>1, <1>2 DEF AdminNext, SetEpochsEnabled, AdminSetEpochDuration, AdminSetCurrentEpochIndex,
       AdminCloseStaleEpoch, AdminCloseOrphanedEpochRentReceipt
<1>3. CASE CrankNext
  <2>1. ASSUME NEW e \in Epochs, NEW n, NEW weighty, TallyWeights(e, n, weighty)
        PROVE  NoStreak'
    BY <1>1, <2>1 DEF TallyWeights
  <2>2. ASSUME NEW e \in Epochs, NEW S, PrescribeEpoch(e, S)
        PROVE  NoStreak'
    BY <1>1, <2>2 DEF PrescribeEpoch
  <2>3. ASSUME NEW e \in Epochs, NEW n, DistributeEpoch(e, n)
        PROVE  NoStreak'
    <3>. SUFFICES ASSUME NEW g \in Operators, status'[g] = "None" PROVE failed_consecutive'[g] = 0
      BY DEF NoStreak
    <3>. DEFINE slots == Covered(e) \cap (epoch[e].distribution_index + 1 .. n)
                scored == {i \in slots : Joined(registry[i]) /\ Eligible(e, registry[i])}
    <3>1. status' = status /\ status[g] = "None"
      BY <2>3 DEF DistributeEpoch
    <3>2. ~\E i \in scored : registry[i] = g
      BY <3>1 DEF Joined
    <3>3. failed_consecutive'[g] = failed_consecutive[g]
      BY <2>3, <3>2 DEF DistributeEpoch
    <3>. QED BY <3>1, <3>3 DEF NoStreak
  <2>4. ASSUME NEW e \in Epochs, SkipUnobserved(e) \/ CloseEpoch(e)
        PROVE  NoStreak'
    BY <1>1, <2>4 DEF SkipUnobserved, CloseEpoch
  <2>5. ASSUME NEW receipt \in ReceiptChoices, CreateEpoch(receipt)
        PROVE  NoStreak'
    BY <1>1, <2>5 DEF CreateEpoch
  <2>. QED BY <1>3, <2>1, <2>2, <2>3, <2>4, <2>5 DEF CrankNext, Tally, Prescribe, Distribute
<1>4. CASE ObserverNext
  BY <1>1, <1>4 DEF ObserverNext, SaveObservations, CloseObservation
<1>5. CASE GatewayNext
  <2>1. PICK g \in Operators :
          JoinNetwork(g) \/ LeaveNetwork(g) \/ PruneGateway(g) \/ FinalizeGone(g)
    BY <1>5 DEF GatewayNext
  <2>2. status \in [Operators -> {"None", "Joined", "Leaving"}]
        /\ failed_consecutive \in [Operators -> Nat]
    BY <1>0 DEF TypeOK
  <2>3. CASE JoinNetwork(g)
    BY <2>2, <2>3 DEF JoinNetwork, NoStreak
  <2>4. CASE LeaveNetwork(g) \/ PruneGateway(g)
    BY <2>2, <2>4 DEF LeaveNetwork, PruneGateway, MarkLeaving, NoStreak
  <2>5. CASE FinalizeGone(g)
    BY <2>2, <2>5 DEF FinalizeGone, NoStreak
  <2>. QED BY <2>1, <2>3, <2>4, <2>5
<1>6. CASE Tick \/ UNCHANGED vars
  BY <1>1, <1>6 DEF Tick, vars
<1>. QED BY <1>2, <1>3, <1>4, <1>5, <1>6 DEF Next

(* It holds in every reachable state. *)
LEMMA StreakHolds == Spec => []NoStreak
<1>1. Init => NoStreak
  BY DEF Init, NoStreak
<1>. QED BY <1>1, StreakStep, InvHolds, PTL DEF Spec

(* Why the streak of g may be cleared. *)
Evidence(g) ==
  \/ status[g] = "Leaving" /\ status'[g] = "None"
  \/ \E e \in Epochs : \E i \in DOMAIN registry :
       /\ registry[i] = g
       /\ Unfinished(e)
       /\ epoch[e].distribution_index < i
       /\ epoch'[e].distribution_index >= i
       /\ epoch[e].submitted > 0
       /\ 2 * epoch[e].failure_counts[i] <= epoch[e].submitted

(* The registry has a slot for each gateway at most. *)
LEMMA SlotsEnough ==
  ASSUME EpochInv
  PROVE  /\ Len(registry) \in Nat
         /\ DOMAIN registry = 1 .. Len(registry)
         /\ DOMAIN registry \subseteq Slots
         /\ \A j, k \in DOMAIN registry : registry[j] = registry[k] => j = k
<1>. DEFINE D == DOMAIN registry
            n == Len(registry)
<1>1. registry \in Seq(Operators)
  BY DEF EpochInv, TypeOK
<1>2. n \in Nat /\ D = 1 .. n /\ registry \in [D -> Operators]
  BY <1>1
<1>3. \A j, k \in D : registry[j] = registry[k] => j = k
  <2>. SUFFICES ASSUME NEW j \in D, NEW k \in D, registry[j] = registry[k] PROVE j = k
    OBVIOUS
  <2>1. registry_index[registry[j]] = j /\ registry_index[registry[k]] = k
    BY DEF EpochInv, RegistryIndexed
  <2>. QED BY <2>1
<1>4. n <= Cardinality(Operators)
  <2>1. IsFiniteSet(1 .. n) /\ Cardinality(1 .. n) = n
    BY <1>2, FS_Interval
  <2>2. registry \in Injection(D, Operators)
    BY <1>2, <1>3 DEF Injection, IsInjective
  <2>3. Cardinality(D) <= Cardinality(Operators)
    <3>. HIDE DEF D, n
    <3>. QED BY <2>2, SetAssumption, FS_Injection
  <2>. QED BY <1>2, <2>1, <2>3
<1>5. Cardinality(Operators) \in Nat
  BY SetAssumption, FS_CardinalityType
<1>6. D \subseteq Slots
  BY <1>2, <1>4, <1>5 DEF Slots
<1>. QED BY <1>2, <1>3, <1>6

(* A batch clears streaks on evidence only. *)
LEMMA BatchEvidence ==
  ASSUME EpochInv, ReportInv, NEW e \in Epochs, NEW n, DistributeEpoch(e, n),
         NEW g \in Operators, failed_consecutive'[g] < failed_consecutive[g]
  PROVE  Evidence(g)
<1>. DEFINE slots == Covered(e) \cap (epoch[e].distribution_index + 1 .. n)
            scored == {i \in slots : Joined(registry[i]) /\ Eligible(e, registry[i])}
            P == \E i \in scored : registry[i] = g
            Q == \E i \in scored : registry[i] = g /\ Failed(e, i)
<1>0. TypeOK
  BY DEF EpochInv
<1>1. failed_consecutive[g] \in Nat
  BY <1>0 DEF TypeOK
<1>2. failed_consecutive'[g] = IF P THEN IF Q THEN failed_consecutive[g] + 1 ELSE 0
                               ELSE failed_consecutive[g]
  BY DEF DistributeEpoch
<1>3. P /\ ~Q
  <2>. HIDE DEF P, Q
  <2>. QED BY <1>1, <1>2
<1>4. PICK i \in slots : registry[i] = g /\ ~Failed(e, i)
  BY <1>3
<1>5. Exists(e) /\ epoch[e] \in EpochRecord /\ Unfinished(e)
  BY <1>0, EpochTyped DEF DistributeEpoch, MayDistribute, Unfinished
<1>6. i \in DOMAIN registry /\ i \in Nat
  BY <1>0, <1>5, CoveredSlots
<1>7. /\ epoch[e].distribution_index \in Nat /\ epoch[e].submitted \in Nat /\ n \in Nat
      /\ epoch[e].distribution_index < i /\ i <= n
  <2>1. epoch[e].distribution_index \in Nat /\ epoch[e].submitted \in Nat /\ epoch[e].active \in Nat
    BY <1>5 DEF EpochRecord
  <2>2. n \in epoch[e].distribution_index + 1 .. epoch[e].active
    BY DEF DistributeEpoch
  <2>. QED BY <1>6, <2>1, <2>2
<1>8. epoch[e].submitted > 0
  <2>1. epoch[e].submitted # 0 \/ epoch[e].distribution_index # 0
    BY DEF DistributeEpoch, Unobserved
  <2>2. ~epoch[e].distributed /\ epoch[e].distribution_index > 0 => epoch[e].submitted > 0
    BY <1>5 DEF ReportInv, ReportsOK
  <2>. QED BY <1>5, <1>7, <2>1, <2>2 DEF Unfinished
<1>9. 2 * epoch[e].failure_counts[i] <= epoch[e].submitted
  <2>1. epoch[e].failure_counts[i] \in Nat
    <3>1. i \in Slots
      BY <1>6, SlotsEnough
    <3>. QED BY <1>5, <3>1 DEF EpochRecord
  <2>2. ~(epoch[e].failure_counts[i] > epoch[e].submitted \div 2)
    BY <1>4, <1>8 DEF Failed
  <2>3. \A x, y \in Nat : ~(x > y \div 2) => 2 * x <= y
    OBVIOUS
  <2>. QED BY <1>7, <2>1, <2>2, <2>3
<1>10. epoch'[e].distribution_index >= i
  <2>1. epoch' = [epoch EXCEPT ![e] = Paid(epoch[e], n, n >= epoch[e].active)]
    BY <1>0, Zenon DEF DistributeEpoch, TypeOK, Paid
  <2>2. Paid(epoch[e], n, n >= epoch[e].active).distribution_index = n
    BY <1>5 DEF Paid, EpochRecord
  <2>3. epoch'[e].distribution_index = n
    BY <1>0, <2>1, <2>2 DEF TypeOK
  <2>. QED BY <1>6, <1>7, <2>3
<1>. QED BY <1>4, <1>5, <1>6, <1>7, <1>8, <1>9, <1>10 DEF Evidence

(***************************************************************************)
(* A failure streak is cleared only with the gateway itself or by a batch  *)
(* of an epoch with reports, in which no majority fails the gateway.       *)
(***************************************************************************)
THEOREM StreakNeedsEvidenceHolds == Spec => StreakNeedsEvidence
<1>. DEFINE Vindicated == \A g \in Operators :
              failed_consecutive'[g] < failed_consecutive[g] => Evidence(g)
<1>1. ASSUME EpochInv, ReportInv, NoStreak, [Next]_vars PROVE Vindicated
  <2>. USE DEF scoreVars
  <2>0. TypeOK /\ failed_consecutive \in [Operators -> Nat]
    BY <1>1 DEF EpochInv, TypeOK
  <2>1. ASSUME UNCHANGED failed_consecutive PROVE Vindicated
    BY <2>0, <2>1
  <2>2. ASSUME NEW e \in Epochs, NEW n, DistributeEpoch(e, n) PROVE Vindicated
    BY <1>1, <2>2, BatchEvidence
  <2>3. ASSUME NEW g \in Operators, JoinNetwork(g) PROVE Vindicated
    <3>1. failed_consecutive[g] = 0 /\ failed_consecutive' = [failed_consecutive EXCEPT ![g] = 0]
      BY <1>1, <2>3 DEF JoinNetwork, NoStreak
    <3>2. UNCHANGED failed_consecutive
      BY <2>0, <3>1
    <3>. QED BY <2>1, <3>2
  <2>4. ASSUME NEW g \in Operators, FinalizeGone(g) PROVE Vindicated
    <3>. SUFFICES ASSUME NEW h \in Operators, failed_consecutive'[h] < failed_consecutive[h]
                  PROVE  Evidence(h)
      OBVIOUS
    <3>1. h = g
      BY <2>0, <2>4 DEF FinalizeGone
    <3>2. status[g] = "Leaving" /\ status'[g] = "None"
      BY <2>0, <2>4 DEF FinalizeGone, TypeOK
    <3>. QED BY <3>1, <3>2 DEF Evidence
  <2>5. AdminNext => UNCHANGED failed_consecutive
    BY DEF AdminNext, SetEpochsEnabled, AdminSetEpochDuration, AdminSetCurrentEpochIndex,
         AdminCloseStaleEpoch, AdminCloseOrphanedEpochRentReceipt
  <2>6. ASSUME CrankNext PROVE Vindicated
    <3>1. ASSUME NEW e \in Epochs, NEW n, NEW weighty, TallyWeights(e, n, weighty)
          PROVE  UNCHANGED failed_consecutive
      BY <3>1 DEF TallyWeights
    <3>2. ASSUME NEW e \in Epochs, NEW S, PrescribeEpoch(e, S)
          PROVE  UNCHANGED failed_consecutive
      BY <3>2 DEF PrescribeEpoch
    <3>3. ASSUME NEW e \in Epochs, SkipUnobserved(e) \/ CloseEpoch(e)
          PROVE  UNCHANGED failed_consecutive
      BY <3>3 DEF SkipUnobserved, CloseEpoch
    <3>4. ASSUME NEW receipt \in ReceiptChoices, CreateEpoch(receipt)
          PROVE  UNCHANGED failed_consecutive
      BY <3>4 DEF CreateEpoch
    <3>. HIDE DEF Vindicated
    <3>. QED BY <2>1, <2>2, <2>6, <3>1, <3>2, <3>3, <3>4 DEF CrankNext, Tally, Prescribe, Distribute
  <2>7. ObserverNext => UNCHANGED failed_consecutive
    BY DEF ObserverNext, SaveObservations, CloseObservation
  <2>8. ASSUME NEW g \in Operators, LeaveNetwork(g) \/ PruneGateway(g)
        PROVE  UNCHANGED failed_consecutive
    BY <2>8 DEF LeaveNetwork, PruneGateway, MarkLeaving
  <2>9. Tick \/ UNCHANGED vars => UNCHANGED failed_consecutive
    BY DEF Tick, vars
  <2>. HIDE DEF Vindicated
  <2>. QED BY <1>1, <2>1, <2>3, <2>4, <2>5, <2>6, <2>7, <2>8, <2>9 DEF Next, GatewayNext
<1>. QED BY <1>1, InvHolds, ReportHolds, StreakHolds, PTL DEF Spec, StreakNeedsEvidence, Evidence

-----------------------------------------------------------------------------
(***************************************************************************)
(* Rewards.  PaidWithinPool is not inductive: a late report raises what an *)
(* observer is due.  What every step keeps is the bound that ignores the   *)
(* reports: a gateway that still has weight when it is reached gets at     *)
(* most the full share, and the observer's share if it was prescribed.     *)
(***************************************************************************)

(* The gateways in the slots L that have weight. *)
Weighty(L) == {registry[i] : i \in {j \in L : composite_weight[registry[j]] > 0}}

(* The slots that the epoch has still to pay. *)
Left(e) == Covered(e) \cap (epoch[e].distribution_index + 1 .. epoch[e].active)

(* At most this much is paid to the gateways in W under the epoch record s. *)
MostFor(s, W) == s.per_gateway * Cardinality(W) + s.per_observer * Cardinality(W \cap s.observers)

CapInv ==
  \A e \in Epochs : Unfinished(e) /\ epoch[e].prescriptions_done =>
    paid[e] + MostFor(epoch[e], Weighty(Left(e))) <= epoch[e].total

(* Weighty slots hold operators, finitely many. *)
LEMMA WeightyFinite ==
  ASSUME TypeOK, NEW e \in Epochs, Exists(e), NEW L, L \subseteq Covered(e), NEW O
  PROVE  /\ Weighty(L) \subseteq Operators
         /\ IsFiniteSet(Weighty(L)) /\ Cardinality(Weighty(L)) \in Nat
         /\ IsFiniteSet(Weighty(L) \cap O) /\ Cardinality(Weighty(L) \cap O) \in Nat
<1>1. Weighty(L) \subseteq Operators
  BY CoveredSlots DEF Weighty
<1>2. Weighty(L) \cap O \subseteq Operators
  BY <1>1
<1>. HIDE DEF Weighty
<1>. QED BY <1>1, <1>2, OperatorsFinite

(* Products are monotone. *)
LEMMA TimesMono ==
  ASSUME NEW a \in Nat, NEW b \in Nat, NEW c \in Nat, b <= c
  PROVE  a * b \in Nat /\ a * c \in Nat /\ a * b <= a * c
OBVIOUS

(* Fewer gateways get no more. *)
LEMMA MostMono ==
  ASSUME NEW s \in EpochRecord, NEW V, V \subseteq Operators, NEW W, W \subseteq V
  PROVE  MostFor(s, V) \in Nat /\ MostFor(s, W) \in Nat /\ MostFor(s, W) <= MostFor(s, V)
<1>. DEFINE a == Cardinality(W)
            b == Cardinality(V)
            c == Cardinality(W \cap s.observers)
            d == Cardinality(V \cap s.observers)
<1>1. /\ IsFiniteSet(V) /\ IsFiniteSet(V \cap s.observers)
      /\ a \in Nat /\ b \in Nat /\ c \in Nat /\ d \in Nat
  BY OperatorsFinite, W \subseteq Operators, V \cap s.observers \subseteq Operators,
     W \cap s.observers \subseteq Operators
<1>2. a <= b
  BY <1>1, FS_Subset
<1>3. c <= d
  BY <1>1, W \cap s.observers \subseteq V \cap s.observers, FS_Subset
<1>4. s.per_gateway \in Nat /\ s.per_observer \in Nat
  BY DEF EpochRecord
<1>. HIDE DEF a, b, c, d
<1>5. /\ s.per_gateway * a \in Nat /\ s.per_gateway * b \in Nat /\ s.per_gateway * a <= s.per_gateway * b
  BY <1>1, <1>2, <1>4, TimesMono
<1>6. /\ s.per_observer * c \in Nat /\ s.per_observer * d \in Nat /\ s.per_observer * c <= s.per_observer * d
  BY <1>1, <1>3, <1>4, TimesMono
<1>7. MostFor(s, W) = s.per_gateway * a + s.per_observer * c
      /\ MostFor(s, V) = s.per_gateway * b + s.per_observer * d
  BY DEF MostFor, a, b, c, d
<1>. QED BY <1>5, <1>6, <1>7

(* Disjoint sets of operators are counted one by one. *)
LEMMA CountDisjoint ==
  ASSUME NEW V, V \subseteq Operators, NEW W, W \subseteq Operators, V \cap W = {}
  PROVE  Cardinality(V \cup W) = Cardinality(V) + Cardinality(W)
<1>1. /\ IsFiniteSet(V) /\ Cardinality(V) \in Nat
      /\ IsFiniteSet(W) /\ Cardinality(W) \in Nat
  BY OperatorsFinite
<1>2. Cardinality(V \cup W) = Cardinality(V) + Cardinality(W) - Cardinality(V \cap W)
  BY <1>1, FS_Union
<1>3. Cardinality(V \cap W) = 0
  BY FS_EmptySet
<1>. QED BY <1>1, <1>2, <1>3

(* What gateways get adds up. *)
LEMMA MostSplit ==
  ASSUME NEW s \in EpochRecord, NEW V, V \subseteq Operators, NEW W, W \subseteq Operators,
         V \cap W = {}
  PROVE  MostFor(s, V \cup W) = MostFor(s, V) + MostFor(s, W)
<1>. DEFINE O == s.observers
            a == Cardinality(V)
            b == Cardinality(W)
            c == Cardinality(V \cap O)
            d == Cardinality(W \cap O)
<1>1. /\ IsFiniteSet(V) /\ IsFiniteSet(V \cap O) /\ IsFiniteSet(W) /\ IsFiniteSet(W \cap O)
      /\ a \in Nat /\ b \in Nat /\ c \in Nat /\ d \in Nat
  BY OperatorsFinite, V \cap O \subseteq Operators, W \cap O \subseteq Operators
<1>2. Cardinality(V \cup W) = a + b
  BY CountDisjoint
<1>3. Cardinality((V \cup W) \cap O) = c + d
  <2>1. (V \cup W) \cap O = (V \cap O) \cup (W \cap O) /\ (V \cap O) \cap (W \cap O) = {}
    OBVIOUS
  <2>2. V \cap O \subseteq Operators /\ W \cap O \subseteq Operators
    OBVIOUS
  <2>. QED BY <2>1, <2>2, CountDisjoint
<1>4. s.per_gateway \in Nat /\ s.per_observer \in Nat
  BY DEF EpochRecord
<1>5. MostFor(s, V \cup W) = s.per_gateway * (a + b) + s.per_observer * (c + d)
  BY <1>2, <1>3 DEF MostFor
<1>6. MostFor(s, V) = s.per_gateway * a + s.per_observer * c
      /\ MostFor(s, W) = s.per_gateway * b + s.per_observer * d
  BY DEF MostFor
<1>. HIDE DEF a, b, c, d, O
<1>7. \A p, x, y \in Nat : p * (x + y) = p * x + p * y /\ p * x \in Nat /\ p * y \in Nat
  OBVIOUS
<1>8. s.per_gateway * (a + b) = s.per_gateway * a + s.per_gateway * b
      /\ s.per_gateway * a \in Nat /\ s.per_gateway * b \in Nat
  BY <1>1, <1>4, <1>7
<1>9. s.per_observer * (c + d) = s.per_observer * c + s.per_observer * d
      /\ s.per_observer * c \in Nat /\ s.per_observer * d \in Nat
  BY <1>1, <1>4, <1>7
<1>. QED BY <1>5, <1>6, <1>8, <1>9

(* No reward exceeds the full share and, for an observer, the observer's. *)
LEMMA RewardCapped ==
  ASSUME TypeOK, NEW e \in Epochs, Exists(e), NEW i \in Covered(e)
  PROVE  FullReward(e, i) <=
           IF composite_weight[registry[i]] > 0
             THEN epoch[e].per_gateway
                    + (IF registry[i] \in epoch[e].observers THEN epoch[e].per_observer ELSE 0)
             ELSE 0
<1>. DEFINE p == epoch[e].per_gateway
            q == epoch[e].per_observer
            c == (p * (RateScale - PenaltyRate)) \div RateScale
<1>1. p \in Nat /\ q \in Nat
  BY EpochTyped DEF EpochRecord
<1>2. c \in Nat /\ c <= p
  <2>1. /\ RateScale \in Nat \ {0} /\ PenaltyRate \in Nat /\ RateScale - PenaltyRate \in Nat
        /\ RateScale - PenaltyRate <= RateScale
    BY RateAssumption
  <2>2. p * (RateScale - PenaltyRate) \in Nat /\ p * RateScale \in Nat
        /\ p * (RateScale - PenaltyRate) <= p * RateScale
    BY <1>1, <2>1, TimesMono
  <2>3. \A a, x \in Nat, r \in Nat \ {0} : a <= x * r => a \div r \in Nat /\ a \div r <= x
    BY SMT
  <2>. HIDE DEF p
  <2>. QED BY <1>1, <2>1, <2>2, <2>3
<1>3. FullReward(e, i) =
        IF status[registry[i]] = "Leaving" \/ ~Eligible(e, registry[i]) THEN 0
        ELSE IF Failed(e, i)
          THEN IF registry[i] \in epoch[e].observers /\ registry[i] \in epoch[e].observed
                 THEN q ELSE 0
        ELSE IF registry[i] \in epoch[e].observers /\ registry[i] \in epoch[e].observed
          THEN p + q
        ELSE IF registry[i] \in epoch[e].observers THEN c
        ELSE p
  BY DEF FullReward
<1>4. Eligible(e, registry[i]) => composite_weight[registry[i]] > 0
  BY DEF Eligible
<1>. HIDE DEF p, q, c
<1>. DEFINE bound == IF composite_weight[registry[i]] > 0
                       THEN p + (IF registry[i] \in epoch[e].observers THEN q ELSE 0) ELSE 0
<1>5. FullReward(e, i) <= bound
  <2>1. bound \in Nat
    BY <1>1
  <2>2. CASE status[registry[i]] = "Leaving" \/ ~Eligible(e, registry[i])
    <3>1. FullReward(e, i) = 0
      BY <1>3, <2>2
    <3>. HIDE DEF bound
    <3>. QED BY <2>1, <3>1
  <2>3. CASE ~(status[registry[i]] = "Leaving" \/ ~Eligible(e, registry[i]))
    <3>1. composite_weight[registry[i]] > 0
      BY <1>4, <2>3
    <3>2. CASE registry[i] \in epoch[e].observers
      <4>1. FullReward(e, i) \in {q, 0, p + q, c}
        BY <1>3, <2>3, <3>2
      <4>2. bound = p + q
        BY <3>1, <3>2
      <4>. HIDE DEF bound
      <4>. QED BY <1>1, <1>2, <4>1, <4>2
    <3>3. CASE registry[i] \notin epoch[e].observers
      <4>1. FullReward(e, i) \in {0, p}
        BY <1>3, <2>3, <3>3
      <4>2. bound = p
        BY <1>1, <3>1, <3>3
      <4>. HIDE DEF bound
      <4>. QED BY <1>1, <4>1, <4>2
    <3>. QED BY <3>2, <3>3
  <2>. QED BY <2>2, <2>3
<1>. QED BY <1>5 DEF p, q

(* The gateways in slots of the epoch get at most what MostFor says. *)
LEMMA DueCapped ==
  ASSUME EpochInv, NEW e \in Epochs, Exists(e), NEW L, L \subseteq Covered(e)
  PROVE  Due(e, L) \in Nat /\ Due(e, L) <= MostFor(epoch[e], Weighty(L))
<1>. DEFINE p == epoch[e].per_gateway
            q == epoch[e].per_observer
            O == epoch[e].observers
            W == Weighty(L)
            f == [i \in L |-> FullReward(e, i)]
            c == [i \in L |-> IF composite_weight[registry[i]] > 0
                                THEN p + (IF registry[i] \in O THEN q ELSE 0) ELSE 0]
            j == [i \in L |-> registry[i]]
            h == [g \in Operators |-> IF g \in W THEN p + (IF g \in O THEN q ELSE 0) ELSE 0]
            w == [g \in Operators |-> IF g \in W THEN 1 ELSE 0]
            v == [g \in Operators |-> IF g \in W \cap O THEN 1 ELSE 0]
            pw == [g \in Operators |-> p * w[g]]
<1>0. TypeOK
  BY DEF EpochInv
<1>1. p \in Nat /\ q \in Nat /\ IsFiniteSet(Operators)
  BY <1>0, EpochTyped, SetAssumption DEF EpochRecord
<1>2. L \subseteq DOMAIN registry /\ \A i \in L : registry[i] \in Operators
  BY <1>0, CoveredSlots
<1>3. IsFiniteSet(L)
  <2>1. Len(registry) \in Int /\ DOMAIN registry = 1 .. Len(registry)
    BY SlotsEnough
  <2>2. IsFiniteSet(DOMAIN registry)
    BY <2>1, FS_Interval
  <2>. QED BY <1>2, <2>2, FS_Subset
<1>4. SumFunctionOnSet(f, L) \in Nat /\ SumFunctionOnSet(f, L) <= SumFunctionOnSet(c, L)
  <2>1. \A i \in L : f[i] \in Nat /\ c[i] \in Nat /\ f[i] <= c[i]
    BY <1>0, <1>1, RewardNat, RewardCapped
  <2>. HIDE DEF f, c
  <2>2. \A i \in L : f[i] \in Int /\ c[i] \in Int /\ f[i] <= c[i]
    BY <2>1
  <2>. QED BY <1>3, <2>1, <2>2, SumNat, SumMono
<1>5. SumFunctionOnSet(h, Operators) = SumFunctionOnSet(c, L)
  <2>1. j \in [L -> Operators]
    BY <1>2
  <2>2. \A x, y \in L : j[x] = j[y] => x = y
    BY <1>2, SlotsEnough
  <2>3. \A i \in L : registry[i] \in W <=> composite_weight[registry[i]] > 0
    BY <1>2 DEF Weighty
  <2>4. \A i \in L : c[i] \in Int /\ h[j[i]] = c[i]
    BY <1>1, <1>2, <2>3
  <2>5. \A t \in Operators : (\A i \in L : t # j[i]) => h[t] = 0
    <3>1. \A t \in W : \E i \in L : t = registry[i]
      BY DEF Weighty
    <3>. HIDE DEF W
    <3>. QED BY <3>1
  <2>. HIDE DEF j, h, c
  <2>. QED BY <1>1, <1>3, <2>1, <2>2, <2>4, <2>5, SumInject
<1>6. W \subseteq Operators /\ W \cap O \subseteq Operators
  BY <1>0, WeightyFinite
<1>7. SumFunctionOnSet(w, Operators) = Cardinality(W)
  <2>1. \A g \in Operators : w[g] = IF g \in W THEN 1 ELSE 0
    OBVIOUS
  <2>. HIDE DEF w, W
  <2>. QED BY <1>1, <1>6, <2>1, SumCount
<1>8. SumFunctionOnSet(v, Operators) = Cardinality(W \cap O)
  <2>1. \A g \in Operators : v[g] = IF g \in W \cap O THEN 1 ELSE 0
    OBVIOUS
  <2>. HIDE DEF v, W, O
  <2>. QED BY <1>1, <1>6, <2>1, SumCount
<1>9. SumFunctionOnSet(pw, Operators) = p * SumFunctionOnSet(w, Operators)
  <2>1. \A g \in Operators : w[g] \in Int /\ pw[g] = p * w[g]
    OBVIOUS
  <2>. HIDE DEF pw, w, p
  <2>. QED BY <1>1, <2>1, SumScale
<1>10. SumFunctionOnSet(h, Operators) =
         SumFunctionOnSet(pw, Operators) + q * SumFunctionOnSet(v, Operators)
  <2>1. \A g \in Operators : pw[g] \in Int /\ v[g] \in Int /\ h[g] = pw[g] + q * v[g]
    <3>. HIDE DEF W, p, q, O
    <3>1. \A g \in Operators : pw[g] = IF g \in W THEN p ELSE 0
      BY <1>1
    <3>. HIDE DEF pw
    <3>. QED BY <1>1, <3>1
  <2>. HIDE DEF pw, v, h, q
  <2>. QED BY <1>1, <2>1, SumLinear
<1>11. Due(e, L) = SumFunctionOnSet(f, L)
  BY DEF Due
<1>12. MostFor(epoch[e], W) = p * Cardinality(W) + q * Cardinality(W \cap O)
  BY DEF MostFor
<1>. HIDE DEF f, c, h, w, v, pw, W, O, p, q
<1>13. SumFunctionOnSet(c, L) = MostFor(epoch[e], W)
  BY <1>5, <1>7, <1>8, <1>9, <1>10, <1>12
<1>14. Due(e, L) \in Nat /\ Due(e, L) <= MostFor(epoch[e], W)
  BY <1>4, <1>11, <1>13
<1>. QED BY <1>14 DEF W

(* The bound for one epoch. *)
CapAt(e) ==
  Unfinished(e) /\ epoch[e].prescriptions_done =>
    paid[e] + MostFor(epoch[e], Weighty(Left(e))) <= epoch[e].total

(* Two records of an epoch that agree on what is left to pay. *)
SameShares(r, s) ==
  /\ r.active = s.active /\ r.distribution_index = s.distribution_index
  /\ r.per_gateway = s.per_gateway /\ r.per_observer = s.per_observer
  /\ r.observers = s.observers /\ r.total = s.total
  /\ r.prescriptions_done = s.prescriptions_done

(* What is left to pay lies in the registry. *)
LEMMA LeftCovered ==
  ASSUME TypeOK, NEW e \in Epochs, Exists(e)
  PROVE  Left(e) \subseteq Covered(e) /\ Weighty(Left(e)) \subseteq Operators
BY WeightyFinite DEF Left

(* A step that leaves the slots of the epoch and its shares alone, and gives *)
(* nobody weight, keeps the bound.                                           *)
LEMMA CapKept ==
  ASSUME EpochInv, CapInv, NEW e \in Epochs, Unfinished(e), SameShares(epoch'[e], epoch[e]),
         paid'[e] = paid[e], \A i \in 1 .. epoch[e].active : registry'[i] = registry[i],
         \A g \in Operators : composite_weight'[g] > 0 => composite_weight[g] > 0
  PROVE  CapAt(e)'
<1>. DEFINE s == epoch[e]
            W == Weighty(Left(e))
            V == Weighty(Left(e))'
<1>0. TypeOK /\ Exists(e) /\ s \in EpochRecord
  BY EpochTyped DEF EpochInv, Unfinished
<1>1. /\ s.active \in Nat /\ s.distribution_index \in Nat /\ Len(registry) \in Nat
      /\ s.active <= Len(registry)
  BY <1>0 DEF EpochRecord, EpochInv, TallyStamps, TypeOK
<1>2. Left(e)' \subseteq Left(e) /\ Left(e) \subseteq 1 .. s.active
  <2>1. \A i \in Left(e)' : i \in Nat /\ i \in s.distribution_index + 1 .. s.active
    BY <1>1 DEF Left, SameShares
  <2>2. \A i \in s.distribution_index + 1 .. s.active : i \in Covered(e) /\ i \in 1 .. s.active
    BY <1>1 DEF Covered, MinOf
  <2>. QED BY <2>1, <2>2 DEF Left
<1>3. W \subseteq Operators /\ \A i \in Left(e) : registry[i] \in Operators
  BY <1>0, LeftCovered, CoveredSlots
<1>4. V \subseteq W
  <2>. SUFFICES ASSUME NEW i \in Left(e)', composite_weight'[registry'[i]] > 0
                PROVE  registry'[i] \in W
    BY DEF Weighty
  <2>1. i \in Left(e) /\ registry'[i] = registry[i]
    BY <1>2
  <2>2. composite_weight[registry[i]] > 0
    BY <1>3, <2>1
  <2>. QED BY <2>1, <2>2 DEF Weighty
<1>5. MostFor(epoch'[e], V) = MostFor(s, V)
  BY DEF MostFor, SameShares
<1>6. MostFor(s, V) \in Nat /\ MostFor(s, W) \in Nat /\ MostFor(s, V) <= MostFor(s, W)
  <2>. HIDE DEF V, W, s
  <2>. QED BY <1>0, <1>3, <1>4, MostMono
<1>7. s.prescriptions_done => paid[e] + MostFor(s, W) <= s.total
  BY DEF CapInv
<1>8. paid[e] \in Nat /\ s.total \in Nat
  BY <1>0 DEF TypeOK, EpochRecord
<1>9. epoch'[e].total = s.total /\ epoch'[e].prescriptions_done = s.prescriptions_done
  BY DEF SameShares
<1>. SUFFICES ASSUME epoch'[e].prescriptions_done
              PROVE  paid'[e] + MostFor(epoch'[e], V) <= epoch'[e].total
  BY DEF CapAt
<1>. HIDE DEF V, W, s
<1>. QED BY <1>5, <1>6, <1>7, <1>8, <1>9

(* A batch pays from the bound what it takes out of it. *)
LEMMA CapBatch ==
  ASSUME EpochInv, CapInv, NEW e \in Epochs, NEW n, DistributeEpoch(e, n)
  PROVE  CapAt(e)'
<1>. DEFINE s == epoch[e]
            b == (n >= s.active)
            slots == Covered(e) \cap (s.distribution_index + 1 .. n)
            rest == Covered(e) \cap (n + 1 .. s.active)
            t == MinOf(Due(e, slots), treasury)
            U == Weighty(slots)
            V == Weighty(rest)
            W == Weighty(Left(e))
<1>0. TypeOK
  BY DEF EpochInv
<1>1. Exists(e) /\ Unfinished(e) /\ s \in EpochRecord /\ s.prescriptions_done
  BY <1>0, EpochTyped DEF DistributeEpoch, MayDistribute, Unfinished
<1>2. s.active \in Nat /\ s.distribution_index \in Nat
  BY <1>1 DEF EpochRecord
<1>3. n \in Nat /\ s.distribution_index < n /\ n <= s.active
  BY <1>2 DEF DistributeEpoch
<1>4. /\ epoch' = [epoch EXCEPT ![e] = Paid(s, n, b)]
      /\ paid' = [paid EXCEPT ![e] = paid[e] + t]
      /\ UNCHANGED <<registry, composite_weight>>
  BY <1>0, Zenon DEF DistributeEpoch, TypeOK, Paid, slotVars
<1>5. epoch'[e] = Paid(s, n, b) /\ paid'[e] = paid[e] + t
  BY <1>0, <1>4 DEF TypeOK
<1>6. /\ epoch'[e].active = s.active /\ epoch'[e].distribution_index = n
      /\ epoch'[e].total = s.total /\ epoch'[e].per_gateway = s.per_gateway
      /\ epoch'[e].per_observer = s.per_observer /\ epoch'[e].observers = s.observers
  BY <1>1, <1>5 DEF Paid, EpochRecord
<1>7. Left(e)' = rest
  BY <1>4, <1>6 DEF Left, Covered
<1>8. Weighty(Left(e))' = V /\ MostFor(epoch'[e], V) = MostFor(s, V)
  BY <1>4, <1>6, <1>7 DEF Weighty, MostFor
<1>9. U \subseteq Operators /\ V \subseteq Operators /\ W \subseteq Operators
  BY <1>0, <1>1, WeightyFinite, LeftCovered
<1>10. U \cap V = {} /\ U \cup V \subseteq W
  <2>1. \A i \in slots, k \in rest : i # k
    BY <1>2, <1>3
  <2>2. slots \subseteq DOMAIN registry /\ rest \subseteq DOMAIN registry
    BY <1>0, <1>1, CoveredSlots
  <2>3. slots \subseteq Left(e) /\ rest \subseteq Left(e)
    <3>1. s.distribution_index + 1 .. n \subseteq s.distribution_index + 1 .. s.active
          /\ n + 1 .. s.active \subseteq s.distribution_index + 1 .. s.active
      BY <1>2, <1>3
    <3>. QED BY <3>1 DEF Left
  <2>4. \A i \in slots, k \in rest : registry[i] # registry[k]
    BY <2>1, <2>2, SlotsEnough
  <2>. HIDE DEF slots, rest
  <2>5. U \cap V = {}
    BY <2>4 DEF Weighty
  <2>6. U \subseteq W /\ V \subseteq W
    BY <2>3 DEF Weighty
  <2>. QED BY <2>5, <2>6
<1>11. Due(e, slots) \in Nat /\ Due(e, slots) <= MostFor(s, U)
  BY <1>1, DueCapped
<1>12. t \in Nat /\ t <= Due(e, slots)
  <2>1. treasury \in Nat
    BY <1>0 DEF TypeOK
  <2>. QED BY <1>11, <2>1 DEF MinOf
<1>13. paid[e] + MostFor(s, W) <= s.total
  BY <1>1 DEF CapInv
<1>14. paid[e] \in Nat /\ s.total \in Nat
  BY <1>0, <1>1 DEF TypeOK, EpochRecord
<1>. HIDE DEF t, s, U, V, W, slots, rest
<1>15. MostFor(s, U \cup V) = MostFor(s, U) + MostFor(s, V)
  BY <1>1, <1>9, <1>10, MostSplit
<1>16. /\ MostFor(s, W) \in Nat /\ MostFor(s, U \cup V) \in Nat /\ MostFor(s, U) \in Nat
       /\ MostFor(s, V) \in Nat /\ MostFor(s, U \cup V) <= MostFor(s, W)
  BY <1>1, <1>9, <1>10, MostMono, U \subseteq W, V \subseteq W
<1>17. paid'[e] + MostFor(epoch'[e], V) <= epoch'[e].total
  BY <1>5, <1>6, <1>8, <1>11, <1>12, <1>13, <1>14, <1>15, <1>16
<1>18. paid'[e] + MostFor(epoch'[e], Weighty(Left(e))') <= epoch'[e].total
  BY <1>8, <1>17
<1>. QED BY <1>18 DEF CapAt

(* Shares of a pool, rounded down, do not exceed it. *)
LEMMA ShareWithin ==
  ASSUME NEW x \in Nat, NEW k \in Nat \ {0}, NEW m \in Nat, m <= k
  PROVE  (x \div k) \in Nat /\ (x \div k) * m \in Nat /\ (x \div k) * m <= x
<1>. DEFINE d == x \div k
<1>1. d \in Nat /\ d * k <= x
  OBVIOUS
<1>. HIDE DEF d
<1>2. d * m \in Nat /\ d * k \in Nat /\ d * m <= d * k
  BY <1>1, TimesMono
<1>3. d * m <= x
  BY <1>1, <1>2
<1>. QED BY <1>1, <1>2, <1>3 DEF d

(* The two pools of an epoch do not exceed its rewards. *)
LEMMA PoolsWithin ==
  ASSUME NEW x \in Nat, NEW r \in Nat \ {0}, NEW a \in 0 .. r
  PROVE  /\ (x * a) \div r \in Nat /\ (x * (r - a)) \div r \in Nat
         /\ (x * a) \div r + (x * (r - a)) \div r <= x
<1>. DEFINE A == x * a
            B == x * (r - a)
            c == A \div r
            d == B \div r
<1>1. a \in Nat /\ r - a \in Nat
  OBVIOUS
<1>2. A \in Nat /\ B \in Nat
  BY <1>1
<1>3. A + B = x * r
  BY <1>1
<1>4. x * r \in Nat
  OBVIOUS
<1>. HIDE DEF A, B
<1>5. c \in Nat /\ d \in Nat /\ c * r <= A /\ d * r <= B
  BY <1>2
<1>. HIDE DEF c, d
<1>6. (c + d) * r = c * r + d * r /\ c * r \in Nat /\ d * r \in Nat
  BY <1>5
<1>7. (c + d) * r <= x * r
  BY <1>2, <1>3, <1>4, <1>5, <1>6
<1>8. \A y \in Nat : y * r <= x * r => y <= x
  BY SMT
<1>9. c + d <= x
  BY <1>5, <1>7, <1>8
<1>. QED BY <1>5, <1>9 DEF A, B, c, d

(* prescribe_epoch fixes shares that fit the epoch's rewards. *)
LEMMA CapPrescribe ==
  ASSUME EpochInv, ReportInv, NEW e \in Epochs, NEW S \in SUBSET Operators, PrescribeEpoch(e, S)
  PROVE  CapAt(e)'
<1>. DEFINE s == epoch[e]
            W == Weighty(Left(e))'
            x == (s.total * GatewayRatio) \div RateScale
            y == (s.total * (RateScale - GatewayRatio)) \div RateScale
<1>0. TypeOK
  BY DEF EpochInv
<1>1. Exists(e) /\ s \in EpochRecord /\ ~s.prescriptions_done
  BY <1>0, PrescribeRecord
<1>2. PICK p, q \in Nat :
        /\ Holds(e, Prescribed(s, S, p, q))
        /\ p = IF Weighted(e) = {} THEN 0 ELSE x \div Sharers(e, S)
        /\ q = IF S = {} THEN 0 ELSE y \div Cardinality(S)
  BY <1>0, PrescribeRecord
<1>3. UNCHANGED <<registry, composite_weight, paid>>
  BY DEF PrescribeEpoch, slotVars, scoreVars
<1>4. epoch'[e] = Prescribed(s, S, p, q)
  BY <1>0, <1>2 DEF Holds, TypeOK
<1>5. /\ epoch'[e].active = s.active /\ epoch'[e].per_gateway = p /\ epoch'[e].per_observer = q
      /\ epoch'[e].observers = S /\ epoch'[e].total = s.total
  BY <1>1, <1>4 DEF Prescribed, EpochRecord
<1>6. paid[e] = 0
  BY <1>1 DEF ReportInv, ReportsOK
<1>7. W \subseteq Weighted(e)
  <2>1. Covered(e)' = Covered(e)
    BY <1>3, <1>5 DEF Covered
  <2>2. Left(e)' \subseteq Covered(e)
    BY <2>1 DEF Left
  <2>. QED BY <1>3, <2>2 DEF Weighty, Weighted
<1>8. Weighted(e) \subseteq Operators
  BY <1>0, <1>1, WeightyFinite DEF Weighty, Weighted
<1>9. /\ IsFiniteSet(Weighted(e)) /\ Cardinality(Weighted(e)) \in Nat
      /\ IsFiniteSet(S) /\ Cardinality(S) \in Nat
  BY <1>8, OperatorsFinite
<1>10. /\ Cardinality(W) \in Nat /\ Cardinality(W) <= Cardinality(Weighted(e))
       /\ Cardinality(W \cap S) \in Nat /\ Cardinality(W \cap S) <= Cardinality(S)
  <2>. HIDE DEF W
  <2>1. Cardinality(W) \in Nat /\ Cardinality(W \cap S) \in Nat
    BY <1>7, <1>8, OperatorsFinite, W \subseteq Operators, W \cap S \subseteq Operators
  <2>. QED BY <1>7, <1>9, <2>1, FS_Subset, W \cap S \subseteq S
<1>11. s.total \in Nat /\ x \in Nat /\ y \in Nat /\ x + y <= s.total
  <2>1. s.total \in Nat
    BY <1>1 DEF EpochRecord
  <2>. QED BY <2>1, RateAssumption, PoolsWithin
<1>. HIDE DEF x, y, s, W
<1>12. p * Cardinality(W) \in Nat /\ p * Cardinality(W) <= x
  <2>1. CASE Weighted(e) = {}
    <3>1. p = 0
      BY <1>2, <2>1
    <3>. QED BY <1>10, <1>11, <3>1
  <2>2. CASE Weighted(e) # {}
    <3>1. Cardinality(Weighted(e)) \in Nat \ {0}
      BY <1>9, <2>2, FS_EmptySet
    <3>2. p = x \div Cardinality(Weighted(e))
      BY <1>2, <2>2 DEF Sharers
    <3>. QED BY <1>10, <1>11, <3>1, <3>2, ShareWithin
  <2>. QED BY <2>1, <2>2
<1>13. q * Cardinality(W \cap S) \in Nat /\ q * Cardinality(W \cap S) <= y
  <2>1. CASE S = {}
    <3>1. q = 0
      BY <1>2, <2>1
    <3>. QED BY <1>10, <1>11, <3>1
  <2>2. CASE S # {}
    <3>1. Cardinality(S) \in Nat \ {0}
      BY <1>9, <2>2, FS_EmptySet
    <3>2. q = y \div Cardinality(S)
      BY <1>2, <2>2
    <3>. QED BY <1>10, <1>11, <3>1, <3>2, ShareWithin
  <2>. QED BY <2>1, <2>2
<1>14. MostFor(epoch'[e], W) = p * Cardinality(W) + q * Cardinality(W \cap S)
  BY <1>5 DEF MostFor
<1>15. paid'[e] + MostFor(epoch'[e], W) <= epoch'[e].total
  BY <1>3, <1>5, <1>6, <1>11, <1>12, <1>13, <1>14
<1>. QED BY <1>15 DEF CapAt, W

(* A crank, a report and the closing of an account keep the bound. *)
LEMMA CapRecord ==
  ASSUME EpochInv, CapInv, UNCHANGED <<registry, composite_weight>>, NEW e \in Epochs, NEW r,
         epoch' = [epoch EXCEPT ![e] = r], \A f \in Epochs \ {e} : paid'[f] = paid[f],
         CapAt(e)'
  PROVE  CapInv'
<1>. SUFFICES ASSUME NEW f \in Epochs PROVE CapAt(f)'
  BY DEF CapInv, CapAt
<1>1. CASE f = e
  BY <1>1
<1>2. CASE f # e
  <2>1. epoch'[f] = epoch[f] /\ paid'[f] = paid[f]
    BY <1>2 DEF EpochInv, TypeOK
  <2>2. CASE Unfinished(f)
    <3>1. SameShares(epoch'[f], epoch[f])
      BY <2>1 DEF SameShares
    <3>. QED BY <2>1, <2>2, <3>1, CapKept
  <2>3. CASE ~Unfinished(f)
    <3>1. ~Unfinished(f)'
      BY <2>1, <2>3 DEF Unfinished, Exists
    <3>. QED BY <3>1 DEF CapAt
  <2>. QED BY <2>2, <2>3
<1>. QED BY <1>1, <1>2

(* One that keeps the shares of its own epoch too. *)
LEMMA CapSame ==
  ASSUME EpochInv, CapInv, UNCHANGED <<registry, composite_weight, paid>>, NEW e \in Epochs,
         Exists(e), NEW r, Holds(e, r), SameShares(r, epoch[e]), epoch[e].distributed => r.distributed
  PROVE  CapInv'
<1>1. epoch' = [epoch EXCEPT ![e] = r] /\ epoch'[e] = r
  BY DEF Holds, EpochInv, TypeOK
<1>2. CapAt(e)'
  <2>1. CASE Unfinished(e)
    BY <1>1, <2>1, CapKept
  <2>2. CASE ~Unfinished(e)
    <3>1. ~Unfinished(e)'
      BY <1>1, <2>2 DEF Unfinished
    <3>. QED BY <3>1 DEF CapAt
  <2>. QED BY <2>1, <2>2
<1>. QED BY <1>1, <1>2, CapRecord

(* The cranks keep the bound. *)
LEMMA CapCrank ==
  ASSUME EpochInv, ReportInv, CapInv, CrankNext
  PROVE  CapInv'
<1>. USE DEF slotVars, scoreVars
<1>0. TypeOK
  BY DEF EpochInv
<1>1. ASSUME NEW receipt \in ReceiptChoices, CreateEpoch(receipt) PROVE CapInv'
  <2>1. PICK e \in Epochs : e = current_epoch_index
    BY <1>1 DEF CreateEpoch
  <2>2. LatestEpochFinished /\ UNCHANGED <<registry, composite_weight, paid>>
    BY <1>1 DEF CreateEpoch
  <2>. DEFINE r == [start |-> EpochStart, end |-> EpochStart + epoch_duration,
                    active |-> Len(registry),
                    tally_index |-> 0, weights_tallied |-> FALSE,
                    prescriptions_done |-> FALSE, observers |-> {}, observed |-> {},
                    failure_counts |-> [i \in Slots |-> 0], submitted |-> 0, closed |-> 0,
                    total |-> (treasury * RewardRate(e)) \div RateScale,
                    per_gateway |-> 0, per_observer |-> 0,
                    distribution_index |-> 0, distributed |-> FALSE,
                    has_rent_receipt |-> receipt]
  <2>3. epoch' = [epoch EXCEPT ![e] = r]
    BY <1>1, <2>1 DEF CreateEpoch
  <2>4. ~r.prescriptions_done
    OBVIOUS
  <2>. HIDE DEF r
  <2>5. epoch'[e] = r
    BY <1>0, <2>3 DEF TypeOK
  <2>6. CapAt(e)'
    BY <2>4, <2>5 DEF CapAt
  <2>. QED BY <2>2, <2>3, <2>6, CapRecord
<1>2. ASSUME NEW e \in Epochs, NEW n, NEW weighty, TallyWeights(e, n, weighty) PROVE CapInv'
  <2>. DEFINE r == Tallied(epoch[e], n, n >= epoch[e].active)
  <2>1. /\ Exists(e) /\ epoch[e] \in EpochRecord /\ ~epoch[e].weights_tallied
        /\ n \in Nat /\ Holds(e, r)
    BY <1>0, <1>2, TallyRecord
  <2>2. ~epoch[e].prescriptions_done
    BY <2>1 DEF ReportInv, ReportsOK
  <2>3. e = current_epoch_index - 1 /\ paid' = paid
    BY <1>2 DEF TallyWeights, MayTally
  <2>4. epoch'[e] = r /\ \A f \in Epochs \ {e} : epoch'[f] = epoch[f]
    BY <1>0, <2>1 DEF Holds, TypeOK
  <2>5. ~r.prescriptions_done
    BY <2>1, <2>2 DEF Tallied, EpochRecord
  <2>6. ASSUME NEW f \in Epochs \ {e} PROVE ~Unfinished(f)'
    <3>1. ~Unfinished(f)
      BY <2>3 DEF EpochInv, LatestOnlyOpen, Unfinished
    <3>. QED BY <2>4, <3>1 DEF Unfinished, Exists
  <2>. HIDE DEF r
  <2>. QED BY <2>4, <2>5, <2>6 DEF CapInv
<1>3. ASSUME NEW e \in Epochs, NEW S \in SUBSET Operators, PrescribeEpoch(e, S) PROVE CapInv'
  <2>1. CapAt(e)'
    BY <1>3, CapPrescribe
  <2>2. UNCHANGED <<registry, composite_weight, paid>>
    BY <1>3 DEF PrescribeEpoch
  <2>3. \E r : epoch' = [epoch EXCEPT ![e] = r]
    BY <1>0, <1>3, PrescribeRecord DEF Holds
  <2>. QED BY <2>1, <2>2, <2>3, CapRecord
<1>4. ASSUME NEW e \in Epochs, NEW n \in Nat, DistributeEpoch(e, n) PROVE CapInv'
  <2>1. CapAt(e)'
    BY <1>4, CapBatch
  <2>2. UNCHANGED <<registry, composite_weight>>
    BY <1>4 DEF DistributeEpoch
  <2>3. /\ \E r : epoch' = [epoch EXCEPT ![e] = r]
        /\ \A f \in Epochs \ {e} : paid'[f] = paid[f]
    <3>1. \E t \in Nat : paid' = [paid EXCEPT ![e] = paid[e] + t]
      BY <1>0, <1>4, DistributeStep
    <3>. QED BY <1>0, <1>4, <3>1, DistributeStep DEF Holds, TypeOK
  <2>. QED BY <2>1, <2>2, <2>3, CapRecord
<1>5. ASSUME NEW e \in Epochs, SkipUnobserved(e) PROVE CapInv'
  <2>. DEFINE r == Paid(epoch[e], epoch[e].active, TRUE)
  <2>1. Exists(e) /\ epoch[e] \in EpochRecord /\ UNCHANGED <<registry, composite_weight, paid>>
    BY <1>0, <1>5, EpochTyped DEF SkipUnobserved, MayDistribute
  <2>2. epoch' = [epoch EXCEPT ![e] = r]
    BY <1>0, <1>5, Zenon DEF SkipUnobserved, TypeOK, Paid
  <2>3. r.distributed
    BY <2>1 DEF Paid, EpochRecord
  <2>. HIDE DEF r
  <2>4. epoch'[e] = r
    BY <1>0, <2>2 DEF TypeOK
  <2>5. CapAt(e)'
    BY <2>3, <2>4 DEF CapAt, Unfinished
  <2>. QED BY <2>1, <2>2, <2>5, CapRecord
<1>6. ASSUME NEW e \in Epochs, CloseEpoch(e) PROVE CapInv'
  <2>1. epoch' = [epoch EXCEPT ![e] = NoEpoch] /\ UNCHANGED <<registry, composite_weight, paid>>
    BY <1>6 DEF CloseEpoch
  <2>2. ~Unfinished(e)'
    BY <1>0, <2>1 DEF Unfinished, Exists, TypeOK
  <2>3. CapAt(e)'
    BY <2>2 DEF CapAt
  <2>. QED BY <2>1, <2>3, CapRecord
<1>7. Slots \subseteq Nat
  BY DEF Slots
<1>. QED BY <1>1, <1>2, <1>3, <1>4, <1>5, <1>6, <1>7 DEF CrankNext, Tally, Prescribe, Distribute

(* Observers keep it: a report does not change the shares. *)
LEMMA CapObserver ==
  ASSUME EpochInv, CapInv, ObserverNext
  PROVE  CapInv'
<1>. USE DEF slotVars, scoreVars
<1>0. TypeOK
  BY DEF EpochInv
<1>1. ASSUME NEW e \in Epochs, NEW g \in Operators, NEW bad \in SUBSET Slots,
             SaveObservations(e, g, bad)
      PROVE  CapInv'
  <2>. DEFINE r == Reported(epoch[e], epoch[e].observed \cup {g},
                     [i \in Slots |-> epoch[e].failure_counts[i] + (IF i \in bad THEN 1 ELSE 0)],
                     epoch[e].submitted + 1)
  <2>1. Exists(e) /\ epoch[e] \in EpochRecord /\ UNCHANGED <<registry, composite_weight, paid>>
    BY <1>0, <1>1, EpochTyped DEF SaveObservations
  <2>2. epoch' = [epoch EXCEPT ![e] = r]
    BY <1>0, <1>1, Zenon DEF SaveObservations, TypeOK, Reported
  <2>3. SameShares(r, epoch[e]) /\ r.distributed = epoch[e].distributed
    BY <2>1 DEF SameShares, Reported, EpochRecord
  <2>4. r \in EpochRecord
    <3>1. /\ epoch[e].observed \cup {g} \in SUBSET Operators
          /\ [i \in Slots |-> epoch[e].failure_counts[i] + (IF i \in bad THEN 1 ELSE 0)]
               \in [Slots -> Nat]
          /\ epoch[e].submitted + 1 \in Nat
      BY <2>1 DEF EpochRecord
    <3>. QED BY <2>1, <3>1, RecordSave
  <2>. HIDE DEF r
  <2>5. Holds(e, r)
    BY <2>2, <2>4 DEF Holds
  <2>. QED BY <2>1, <2>3, <2>5, CapSame
<1>2. ASSUME NEW e \in Epochs, NEW g \in Operators, CloseObservation(e, g) PROVE CapInv'
  <2>. DEFINE r == ReportClosed(epoch[e], epoch[e].closed + 1)
  <2>1. Exists(e) /\ epoch[e] \in EpochRecord /\ UNCHANGED <<registry, composite_weight, paid>>
    BY <1>0, <1>2, EpochTyped DEF CloseObservation
  <2>2. epoch' = [epoch EXCEPT ![e] = r]
    BY <1>0, <1>2, Zenon DEF CloseObservation, TypeOK, ReportClosed
  <2>3. SameShares(r, epoch[e]) /\ r.distributed = epoch[e].distributed
    BY <2>1 DEF SameShares, ReportClosed, EpochRecord
  <2>4. r \in EpochRecord
    <3>1. epoch[e].closed + 1 \in Nat
      BY <2>1 DEF EpochRecord
    <3>. QED BY <2>1, <3>1, RecordClosed
  <2>. HIDE DEF r
  <2>5. Holds(e, r)
    BY <2>2, <2>4 DEF Holds
  <2>. QED BY <2>1, <2>3, <2>5, CapSame
<1>. QED BY <1>1, <1>2 DEF ObserverNext

(* Gateways that join, leave and are pruned lose weight; they are collected *)
(* between epochs only.                                                     *)
LEMMA CapGateway ==
  ASSUME EpochInv, CapInv, GatewayNext
  PROVE  CapInv'
<1>0. TypeOK /\ composite_weight \in [Operators -> {0, 1}] /\ registry \in Seq(Operators)
  BY DEF EpochInv, TypeOK
<1>1. UNCHANGED <<epoch, paid>>
  BY DEF GatewayNext, JoinNetwork, LeaveNetwork, PruneGateway, MarkLeaving, FinalizeGone, epochVars
<1>2. PICK g \in Operators :
        JoinNetwork(g) \/ LeaveNetwork(g) \/ PruneGateway(g) \/ FinalizeGone(g)
  BY DEF GatewayNext
<1>. SUFFICES ASSUME NEW e \in Epochs, Unfinished(e)' PROVE CapAt(e)'
  BY DEF CapInv, CapAt
<1>3. Unfinished(e)
  BY <1>1 DEF Unfinished, Exists
<1>4. ~FinalizeGone(g)
  BY <1>0, <1>3, NoneOpen DEF FinalizeGone, PositionsReleased, EpochInv
<1>5. composite_weight' = [composite_weight EXCEPT ![g] = 0]
  BY <1>2, <1>4 DEF JoinNetwork, LeaveNetwork, PruneGateway, MarkLeaving
<1>6. \A h \in Operators : composite_weight'[h] > 0 => composite_weight[h] > 0
  BY <1>0, <1>5
<1>7. \A i \in 1 .. epoch[e].active : registry'[i] = registry[i]
  <2>1. /\ epoch[e].active \in Nat /\ Len(registry) \in Nat /\ epoch[e].active <= Len(registry)
    BY <1>0, <1>3, EpochTyped DEF EpochInv, TallyStamps, Unfinished, EpochRecord
  <2>2. CASE JoinNetwork(g)
    BY <1>0, <2>1, <2>2 DEF JoinNetwork
  <2>3. CASE LeaveNetwork(g) \/ PruneGateway(g)
    BY <2>3 DEF LeaveNetwork, PruneGateway, MarkLeaving, slotVars
  <2>. QED BY <1>2, <1>4, <2>2, <2>3
<1>8. SameShares(epoch'[e], epoch[e])
  BY <1>1 DEF SameShares
<1>. QED BY <1>1, <1>3, <1>6, <1>7, <1>8, CapKept

(* Every step keeps the bound. *)
LEMMA CapStep ==
  ASSUME EpochInv, ReportInv, CapInv, [Next]_vars
  PROVE  CapInv'
<1>. USE DEF slotVars, scoreVars, epochVars
<1>1. ASSUME UNCHANGED <<epoch, paid, registry, composite_weight>> PROVE CapInv'
  BY <1>1 DEF CapInv, Unfinished, Exists, Weighty, Left, Covered
<1>2. CASE AdminNext
  <2>1. ASSUME NEW e \in Epochs, AdminCloseStaleEpoch(e) PROVE CapInv'
    <3>1. epoch' = [epoch EXCEPT ![e] = NoEpoch] /\ UNCHANGED <<registry, composite_weight, paid>>
      BY <2>1 DEF AdminCloseStaleEpoch
    <3>2. ~Unfinished(e)'
      BY <3>1 DEF Unfinished, Exists, EpochInv, TypeOK
    <3>3. CapAt(e)'
      BY <3>2 DEF CapAt
    <3>. QED BY <3>1, <3>3, CapRecord
  <2>. QED BY <1>1, <1>2, <2>1 DEF AdminNext, SetEpochsEnabled, AdminSetEpochDuration,
         AdminSetCurrentEpochIndex, AdminCloseOrphanedEpochRentReceipt
<1>3. CASE Tick \/ UNCHANGED vars
  BY <1>1, <1>3 DEF Tick, vars
<1>. QED BY <1>2, <1>3, CapCrank, CapObserver, CapGateway DEF Next

(* The bound holds in every reachable state. *)
LEMMA CapHolds == Spec => []CapInv
<1>1. Init => CapInv
  BY DEF Init, CapInv, Unfinished, Exists
<1>. QED BY <1>1, CapStep, InvHolds, ReportHolds, PTL DEF Spec

(***************************************************************************)
(* An epoch never owes more than its total_eligible_rewards, whoever       *)
(* leaves, joins or reports between prescribe_epoch and the last batch of  *)
(* distribute_epoch, and however the shares were rounded.                  *)
(***************************************************************************)
THEOREM PaidWithinPoolHolds == Spec => []PaidWithinPool
<1>1. ASSUME EpochInv, CapInv PROVE PaidWithinPool
  <2>. SUFFICES ASSUME NEW e \in Epochs, Unfinished(e), epoch[e].prescriptions_done
                PROVE  paid[e] + Due(e, Left(e)) <= epoch[e].total
    BY DEF PaidWithinPool, Left
  <2>1. TypeOK /\ Exists(e) /\ epoch[e] \in EpochRecord
    BY <1>1, EpochTyped DEF EpochInv, Unfinished
  <2>2. Left(e) \subseteq Covered(e) /\ Weighty(Left(e)) \subseteq Operators
    BY <2>1, LeftCovered
  <2>3. Due(e, Left(e)) \in Nat /\ Due(e, Left(e)) <= MostFor(epoch[e], Weighty(Left(e)))
    BY <1>1, <2>1, <2>2, DueCapped
  <2>4. MostFor(epoch[e], Weighty(Left(e))) \in Nat
    BY <2>1, <2>2, MostMono
  <2>5. paid[e] + MostFor(epoch[e], Weighty(Left(e))) <= epoch[e].total
    BY <1>1 DEF CapInv
  <2>6. paid[e] \in Nat /\ epoch[e].total \in Nat
    BY <2>1 DEF TypeOK, EpochRecord
  <2>. QED BY <2>3, <2>4, <2>5, <2>6
<1>. QED BY <1>1, InvHolds, CapHolds, PTL
=============================================================================
