-------------------------- MODULE ArnsNamesProofs --------------------------
(***************************************************************************)
(* Theorems about the registry of ArNS names, for any users, names, terms  *)
(* and prices: the NameRegistry mirrors the records through every swap      *)
(* removal (RegistryMirrors), no lease reaches past the maximal term        *)
(* (LeaseHorizon), a record goes only at its end (GraceProtects), every     *)
(* account keeps its type (TypeOK), and the closed form of the demand       *)
(* factor is the loop it replaces (ClosedFormIsTheLoop, LazyIsEager).       *)
(*                                                                         *)
(* Five instructions exist in five variants that differ in what they draw   *)
(* the price from.  What they draw plays no part here, so each step is      *)
(* first reduced to its effect on the accounts of a name (Effects); the     *)
(* invariant is then shown of the effects alone.                            *)
(*                                                                         *)
(* The loops of the demand factor run for any number of periods.  What they *)
(* compute is shown by induction on that number, carried out with sets of   *)
(* naturals (AllNaturals); that the recursive functions of the model exist  *)
(* at all is shown first (IteratesExist, CycleIs).                          *)
(***************************************************************************)
EXTENDS ArnsNames, FiniteSetTheorems, SequenceTheorems, TLAPS

-----------------------------------------------------------------------------
(* What an instruction does to the accounts of a name. *)

Bought(n) ==
  /\ record[n] = None
  /\ \E ant \in Assets, term \in Terms :
       record' = [record EXCEPT ![n] = NewRecord(ant, term)]
  /\ \/ returned[n] = None /\ returned' = returned
     \/ returned' = [returned EXCEPT ![n] = None]
  /\ AppendEntry(n)
  /\ UNCHANGED <<now, capacity, holder>>

Amended(n) ==
  /\ record[n] # None
  /\ \/ record' = [record EXCEPT ![n].end = Permanent]
     \/ /\ IsLease(record[n])
        /\ \E years \in 1 .. MaxLeaseYears :
             /\ years <= MaxLeaseYears - RemainingYears(record[n])
             /\ IsActive(record[n]) \/ IsInGracePeriod(record[n])
             /\ record' = [record EXCEPT ![n].end = @ + years * Year]
     \/ \E qty \in 1 .. MaxUndernames :
          record' = [record EXCEPT ![n].undernames = @ + qty]
     \/ \E ant \in Assets : record' = [record EXCEPT ![n].ant = ant]
  /\ UNCHANGED <<now, returned, registry, capacity, holder>>

Ended(n) ==
  /\ record[n] # None
  /\ record' = [record EXCEPT ![n] = None]
  /\ RemoveEntry(n)
  /\ \/ /\ \/ ~IsLease(record[n])
           \/ IsLease(record[n]) /\ now > record[n].end + Grace
        /\ \E initiator \in Users \cup {Protocol} :
             /\ ~IsLease(record[n]) => initiator = holder[record[n].ant]
             /\ returned' = [returned EXCEPT
                               ![n] = [initiator |-> initiator, at |-> now]]
     \/ /\ IsLease(record[n]) /\ now > record[n].end + Grace + AuctionDuration
        /\ returned' = returned
  /\ UNCHANGED <<now, capacity, holder>>

AuctionOver(n) ==
  /\ returned' = [returned EXCEPT ![n] = None]
  /\ UNCHANGED <<now, record, registry, capacity, holder>>

\* Nothing of a record, an auction or the registry's entries.
Aside ==
  /\ UNCHANGED <<record, returned, registry>>
  /\ now' \in {now, now + 1}
  /\ capacity' \in Nat /\ capacity' >= capacity

Effects ==
  \/ \E n \in Names : Bought(n) \/ Amended(n) \/ Ended(n) \/ AuctionOver(n)
  \/ Aside

\* Ten ways to buy a name, one effect.
LEMMA BuyEffects ==
  ASSUME BuyNext
  PROVE  \E n \in Names : Bought(n)
<1> PICK u \in Users, n \in Names, a \in Assets, t \in Terms :
      \/ BuyName(u, n, a, t)
      \/ BuyNameFromDelegation(u, n, a, t)
      \/ BuyNameFromOperatorStake(u, n, a, t)
      \/ BuyNameFromWithdrawal(u, n, a, t)
      \/ BuyNameFromFundingPlan(u, n, a, t)
      \/ BuyReturnedName(u, n, a, t)
      \/ BuyReturnedNameFromDelegation(u, n, a, t)
      \/ BuyReturnedNameFromOperatorStake(u, n, a, t)
      \/ BuyReturnedNameFromWithdrawal(u, n, a, t)
      \/ BuyReturnedNameFromFundingPlan(u, n, a, t)
  BY DEF BuyNext
<1>1. CASE BuyName(u, n, a, t)
  BY <1>1 DEF BuyName, BuyNameWith, Bought
<1>2. CASE BuyNameFromDelegation(u, n, a, t)
  BY <1>2 DEF BuyNameFromDelegation, BuyNameWith, Bought
<1>3. CASE BuyNameFromOperatorStake(u, n, a, t)
  BY <1>3 DEF BuyNameFromOperatorStake, BuyNameWith, Bought
<1>4. CASE BuyNameFromWithdrawal(u, n, a, t)
  BY <1>4 DEF BuyNameFromWithdrawal, BuyNameWith, Bought
<1>5. CASE BuyNameFromFundingPlan(u, n, a, t)
  BY <1>5 DEF BuyNameFromFundingPlan, BuyNameWith, Bought
<1>6. CASE BuyReturnedName(u, n, a, t)
  BY <1>6 DEF BuyReturnedName, BuyReturnedNameWith, Bought
<1>7. CASE BuyReturnedNameFromDelegation(u, n, a, t)
  BY <1>7 DEF BuyReturnedNameFromDelegation, BuyReturnedNameWith, Bought
<1>8. CASE BuyReturnedNameFromOperatorStake(u, n, a, t)
  BY <1>8 DEF BuyReturnedNameFromOperatorStake, BuyReturnedNameWith, Bought
<1>9. CASE BuyReturnedNameFromWithdrawal(u, n, a, t)
  BY <1>9 DEF BuyReturnedNameFromWithdrawal, BuyReturnedNameWith, Bought
<1>10. CASE BuyReturnedNameFromFundingPlan(u, n, a, t)
  BY <1>10 DEF BuyReturnedNameFromFundingPlan, BuyReturnedNameWith, Bought
<1> QED BY <1>1, <1>2, <1>3, <1>4, <1>5, <1>6, <1>7, <1>8, <1>9, <1>10


\* The managing instructions amend a record, or end it.
LEMMA ManageEffects ==
  ASSUME ManageNext, capacity \in Nat
  PROVE  Effects
<1> USE DEF Effects, Amended
<1> PICK u \in Users, n \in Names :
      \/ UpgradeName(u, n)
      \/ UpgradeNameFromDelegation(u, n)
      \/ UpgradeNameFromOperatorStake(u, n)
      \/ UpgradeNameFromWithdrawal(u, n)
      \/ UpgradeNameFromFundingPlan(u, n)
      \/ \E y \in 1 .. MaxLeaseYears :
           \/ ExtendLease(u, n, y)
           \/ ExtendLeaseFromDelegation(u, n, y)
           \/ ExtendLeaseFromOperatorStake(u, n, y)
           \/ ExtendLeaseFromWithdrawal(u, n, y)
           \/ ExtendLeaseFromFundingPlan(u, n, y)
      \/ \E q \in 1 .. MaxUndernames :
           \/ IncreaseUndernameLimit(u, n, q)
           \/ IncreaseUndernameLimitFromDelegation(u, n, q)
           \/ IncreaseUndernameLimitFromOperatorStake(u, n, q)
           \/ IncreaseUndernameLimitFromWithdrawal(u, n, q)
           \/ IncreaseUndernameLimitFromFundingPlan(u, n, q)
      \/ \E a \in Assets : ReassignName(u, n, a)
      \/ ReleaseName(u, n)
  BY DEF ManageNext
<1>1. CASE UpgradeName(u, n)
  BY <1>1 DEF UpgradeName, UpgradeNameWith
<1>2. CASE UpgradeNameFromDelegation(u, n)
  BY <1>2 DEF UpgradeNameFromDelegation, UpgradeNameWith
<1>3. CASE UpgradeNameFromOperatorStake(u, n)
  BY <1>3 DEF UpgradeNameFromOperatorStake, UpgradeNameWith
<1>4. CASE UpgradeNameFromWithdrawal(u, n)
  BY <1>4 DEF UpgradeNameFromWithdrawal, UpgradeNameWith
<1>5. CASE UpgradeNameFromFundingPlan(u, n)
  BY <1>5 DEF UpgradeNameFromFundingPlan, UpgradeNameWith
<1>6. ASSUME NEW y \in 1 .. MaxLeaseYears, ExtendLease(u, n, y)
       PROVE  Effects
  BY <1>6 DEF ExtendLease, ExtendLeaseWith
<1>7. ASSUME NEW y \in 1 .. MaxLeaseYears, ExtendLeaseFromDelegation(u, n, y)
       PROVE  Effects
  BY <1>7 DEF ExtendLeaseFromDelegation, ExtendLeaseWith
<1>8. ASSUME NEW y \in 1 .. MaxLeaseYears, ExtendLeaseFromOperatorStake(u, n, y)
       PROVE  Effects
  BY <1>8 DEF ExtendLeaseFromOperatorStake, ExtendLeaseWith
<1>9. ASSUME NEW y \in 1 .. MaxLeaseYears, ExtendLeaseFromWithdrawal(u, n, y)
       PROVE  Effects
  BY <1>9 DEF ExtendLeaseFromWithdrawal, ExtendLeaseWith
<1>10. ASSUME NEW y \in 1 .. MaxLeaseYears, ExtendLeaseFromFundingPlan(u, n, y)
       PROVE  Effects
  BY <1>10 DEF ExtendLeaseFromFundingPlan, ExtendLeaseWith
<1>11. ASSUME NEW q \in 1 .. MaxUndernames, IncreaseUndernameLimit(u, n, q)
       PROVE  Effects
  BY <1>11 DEF IncreaseUndernameLimit, IncreaseUndernameLimitWith
<1>12. ASSUME NEW q \in 1 .. MaxUndernames, IncreaseUndernameLimitFromDelegation(u, n, q)
       PROVE  Effects
  BY <1>12 DEF IncreaseUndernameLimitFromDelegation, IncreaseUndernameLimitWith
<1>13. ASSUME NEW q \in 1 .. MaxUndernames, IncreaseUndernameLimitFromOperatorStake(u, n, q)
       PROVE  Effects
  BY <1>13 DEF IncreaseUndernameLimitFromOperatorStake, IncreaseUndernameLimitWith
<1>14. ASSUME NEW q \in 1 .. MaxUndernames, IncreaseUndernameLimitFromWithdrawal(u, n, q)
       PROVE  Effects
  BY <1>14 DEF IncreaseUndernameLimitFromWithdrawal, IncreaseUndernameLimitWith
<1>15. ASSUME NEW q \in 1 .. MaxUndernames, IncreaseUndernameLimitFromFundingPlan(u, n, q)
       PROVE  Effects
  BY <1>15 DEF IncreaseUndernameLimitFromFundingPlan, IncreaseUndernameLimitWith
<1>16. ASSUME NEW a \in Assets, ReassignName(u, n, a)
       PROVE  Effects
  BY <1>16 DEF ReassignName
<1>17. CASE ReleaseName(u, n)
  BY <1>17 DEF ReleaseName, OpenAuction, Ended
<1> QED BY <1>1, <1>2, <1>3, <1>4, <1>5, <1>6, <1>7, <1>8,
           <1>9, <1>10, <1>11, <1>12, <1>13, <1>14, <1>15, <1>16, <1>17

\* The prunes end a record or an auction; the rest leaves names alone.
LEMMA UpkeepEffects ==
  ASSUME UpkeepNext, capacity \in Nat
  PROVE  Effects
<1> USE DEF Effects
<1>1. ASSUME NEW n \in Names, PruneNameToReturned(n)
      PROVE  Effects
  BY <1>1 DEF PruneNameToReturned, OpenAuction, Ended
<1>2. ASSUME NEW n \in Names, PruneExpiredNames(n)
      PROVE  Effects
  BY <1>2 DEF PruneExpiredNames, Ended
<1>3. ASSUME NEW n \in Names, PruneReturnedNames(n)
      PROVE  Effects
  BY <1>3 DEF PruneReturnedNames, AuctionOver
<1>4. ASSUME NEW n \in Names, PruneExpiredReservation(n)
      PROVE  Effects
  BY <1>4 DEF PruneExpiredReservation, CloseReservation, Aside
<1>5. ASSUME UpdateDemandFactor,
             UNCHANGED <<names, registry, capacity, holder, funds, treasury>>
      PROVE  Effects
  BY <1>5 DEF UpdateDemandFactor, names, Aside
<1> QED BY <1>1, <1>2, <1>3, <1>4, <1>5 DEF UpkeepNext

\* The authority touches no record, and only adds slots to the registry.
LEMMA AuthorityEffects ==
  ASSUME AuthorityNext, capacity \in Nat
  PROVE  Effects
<1> USE DEF Effects
<1>1. ASSUME NEW n \in Names, NEW r \in Reservations[n], ReserveName(n, r)
      PROVE  Effects
  BY <1>1 DEF ReserveName, Aside
<1>2. ASSUME NEW n \in Names, ClaimReservedName(n) \/ UnreserveName(n)
      PROVE  Effects
  BY <1>2 DEF ClaimReservedName, UnreserveName, CloseReservation, Aside
<1>3. ASSUME NEW c \in 1 .. MaxCapacity, AdminExpandNameRegistry(c)
      PROVE  Effects
  BY <1>3, NamesAssumption DEF AdminExpandNameRegistry, names, Aside
<1> QED BY <1>1, <1>2, <1>3 DEF AuthorityNext

\* Every step has one of the five effects.
LEMMA StepEffects ==
  ASSUME [Next]_vars, capacity \in Nat
  PROVE  Effects
<1>1. CASE BuyNext
  BY <1>1, BuyEffects DEF Effects
<1>2. CASE ManageNext
  BY <1>2, ManageEffects
<1>3. CASE UpkeepNext
  BY <1>3, UpkeepEffects
<1>4. CASE AuthorityNext
  BY <1>4, AuthorityEffects
<1>5. ASSUME NEW a \in Assets, NEW u \in Users, Trade(a, u)
      PROVE  Effects
  BY <1>5 DEF Trade, names, Effects, Aside
<1>6. CASE Tick
  BY <1>6 DEF Tick, names, Effects, Aside
<1>7. CASE UNCHANGED vars
  BY <1>7 DEF vars, names, Effects, Aside
<1> QED BY <1>1, <1>2, <1>3, <1>4, <1>5, <1>6, <1>7 DEF Next

-----------------------------------------------------------------------------
(* The entries of the registry, as an injective sequence. *)

Distinct(s) == \A i, j \in 1 .. Len(s) : s[i] = s[j] => i = j

\* A new name joins the entries at the end.
LEMMA AppendDistinct ==
  ASSUME NEW S, NEW s \in Seq(S), Distinct(s), NEW e \in S, e \notin Range(s)
  PROVE  /\ Append(s, e) \in Seq(S)
         /\ Distinct(Append(s, e))
         /\ Range(Append(s, e)) = Range(s) \cup {e}
         /\ Len(Append(s, e)) = Len(s) + 1
<1> DEFINE t == Append(s, e)
<1>1. /\ t \in Seq(S) /\ Len(t) = Len(s) + 1
      /\ DOMAIN s = 1 .. Len(s) /\ DOMAIN t = 1 .. Len(s) + 1
      /\ \A i \in 1 .. Len(s) : t[i] = s[i]
      /\ t[Len(s) + 1] = e
      /\ Len(s) \in Nat
  OBVIOUS
<1> HIDE DEF t
<1>2. \A i \in 1 .. Len(s) : s[i] \in Range(s)
  BY <1>1 DEF Range
<1>3. Distinct(t)
  BY <1>1, <1>2 DEF Distinct
<1>4. Range(t) = Range(s) \cup {e}
  BY <1>1 DEF Range
<1> QED BY <1>1, <1>3, <1>4 DEF t

\* An index that is not the last.
LEMMA NotLast ==
  ASSUME NEW n \in Nat, NEW i \in 1 .. n, i # n
  PROVE  i \in 1 .. n - 1
OBVIOUS

\* As many indices as entries.
LEMMA IntervalCount ==
  ASSUME NEW n \in Nat
  PROVE  IsFiniteSet(1 .. n) /\ Cardinality(1 .. n) = n
<1>1. /\ IsFiniteSet(1 .. n)
      /\ Cardinality(1 .. n) = IF 1 > n THEN 0 ELSE n - 1 + 1
  BY FS_Interval
<1> QED BY <1>1

\* The swap removal of remove_name_entry_by_hash.
LEMMA RemoveDistinct ==
  ASSUME NEW S, NEW s \in Seq(S), Distinct(s), NEW k \in 1 .. Len(s)
  PROVE  LET t == SubSeq([s EXCEPT ![k] = s[Len(s)]], 1, Len(s) - 1)
         IN  /\ t \in Seq(S)
             /\ Distinct(t)
             /\ Range(t) = Range(s) \ {s[k]}
             /\ Len(t) = Len(s) - 1
<1> DEFINE m == [s EXCEPT ![k] = s[Len(s)]]
           t == SubSeq(m, 1, Len(s) - 1)
<1>1. Len(s) \in Nat /\ Len(s) >= 1 /\ DOMAIN s = 1 .. Len(s)
  OBVIOUS
<1>2. m \in Seq(S) /\ Len(m) = Len(s)
  BY <1>1
<1>3. \A i \in 1 .. Len(s) : m[i] = IF i = k THEN s[Len(s)] ELSE s[i]
  BY <1>1
<1> HIDE DEF m
<1>4. /\ t \in Seq(S) /\ Len(t) = Len(s) - 1
      /\ DOMAIN t = 1 .. Len(s) - 1
      /\ \A i \in 1 .. Len(s) - 1 : t[i] = m[i]
  BY <1>1, <1>2, SubSeqProperties
<1> HIDE DEF t
<1>5. \A i \in 1 .. Len(s) - 1 : t[i] = IF i = k THEN s[Len(s)] ELSE s[i]
  BY <1>1, <1>3, <1>4
<1>6. Distinct(t)
  BY <1>1, <1>4, <1>5 DEF Distinct
<1>7. Range(t) \subseteq Range(s) \ {s[k]}
  <2> SUFFICES ASSUME NEW i \in 1 .. Len(s) - 1
               PROVE  t[i] \in Range(s) \ {s[k]}
    BY <1>4 DEF Range
  <2>1. CASE i = k
    BY <1>1, <1>5, <2>1 DEF Distinct, Range
  <2>2. CASE i # k
    BY <1>1, <1>5, <2>2 DEF Distinct, Range
  <2> QED BY <2>1, <2>2
<1>8. Range(s) \ {s[k]} \subseteq Range(t)
  <2> SUFFICES ASSUME NEW i \in 1 .. Len(s), s[i] # s[k]
               PROVE  s[i] \in Range(t)
    BY <1>1 DEF Range
  <2>1. CASE i = Len(s)
    <3>1. k \in 1 .. Len(s) - 1
      BY <1>1, <2>1
    <3>2. t[k] = s[i]
      BY <1>5, <2>1, <3>1
    <3> QED BY <1>4, <3>1, <3>2 DEF Range
  <2>2. CASE i # Len(s)
    <3>1. i \in 1 .. Len(s) - 1
      BY <1>1, <2>2, NotLast
    <3>2. t[i] = s[i]
      <4>1. i # k
        OBVIOUS
      <4> QED BY <1>5, <3>1, <4>1
    <3> QED BY <1>4, <3>1, <3>2 DEF Range
  <2> QED BY <2>1, <2>2
<1> QED BY <1>4, <1>6, <1>7, <1>8 DEF t, m

\* Distinct entries are as many as they name.
LEMMA DistinctCounts ==
  ASSUME NEW S, NEW s \in Seq(S), Distinct(s)
  PROVE  IsFiniteSet(Range(s)) /\ Cardinality(Range(s)) = Len(s)
<1>1. s \in Bijection(1 .. Len(s), Range(s))
  BY DEF Bijection, Injection, Surjection, IsInjective, Distinct, Range
<1>2. ExistsBijection(1 .. Len(s), Range(s))
  BY <1>1 DEF ExistsBijection
<1>3. IsFiniteSet(1 .. Len(s)) /\ Cardinality(1 .. Len(s)) = Len(s)
  BY IntervalCount
<1> QED BY <1>2, <1>3, FS_Bijection

-----------------------------------------------------------------------------
(* The invariant. *)

NamesTypeOK ==
  /\ now \in Nat /\ capacity \in Nat
  /\ record \in [Names -> ArnsRecord \cup {None}]
  /\ returned \in [Names -> ReturnedName \cup {None}]
  /\ registry \in Seq(Names)

\* The entries are distinct: a swap removal that met a name twice would leave
\* one behind, so RegistryMirrors is not inductive without it.
Mirrors ==
  /\ Distinct(registry)
  /\ Range(registry) = Registered
  /\ Len(registry) <= capacity
  /\ \A n \in Registered : returned[n] = None

NamesInv == NamesTypeOK /\ Mirrors /\ LeaseHorizon

\* What the proofs use of the assumptions.
LEMMA Constants ==
  /\ {Year, MaxLeaseYears, DefaultUndernames, Grace, Capacity} \subseteq Nat
  /\ Year > 0 /\ MaxLeaseYears > 0
  /\ None \notin ArnsRecord /\ None \notin ReturnedName
BY NamesAssumption

\* More years are more time.
LEMMA YearsGrow ==
  ASSUME NEW a \in Nat, NEW b \in Nat, a <= b
  PROVE  a * Year \in Nat /\ a * Year <= b * Year
BY Constants

\* A record as buying leaves it.
LEMMA NewRecordType ==
  ASSUME now \in Nat, NEW ant \in Assets, NEW term \in Terms
  PROVE  /\ NewRecord(ant, term) \in ArnsRecord
         /\ NewRecord(ant, term) # None
         /\ IsLease(NewRecord(ant, term))
              => NewRecord(ant, term).end <= now + MaxLeaseYears * Year
<1> DEFINE r == NewRecord(ant, term)
<1>1. r.ant = ant /\ r.undernames = DefaultUndernames
      /\ r.end = IF term = Permanent THEN Permanent ELSE now + term * Year
  BY DEF NewRecord
<1>2. term # Permanent => term \in 1 .. MaxLeaseYears
  BY DEF Terms
<1>3. term # Permanent => /\ term * Year \in Nat
                          /\ term * Year <= MaxLeaseYears * Year
  BY <1>2, YearsGrow, Constants
<1>4. MaxLeaseYears * Year \in Nat
  BY YearsGrow, Constants
<1>5. r \in ArnsRecord
  BY <1>3, Constants DEF NewRecord, ArnsRecord
<1>6. IsLease(r) => r.end <= now + MaxLeaseYears * Year
  <2> SUFFICES ASSUME r.end # Permanent
               PROVE  r.end <= now + MaxLeaseYears * Year
    BY DEF IsLease
  <2>1. term # Permanent
    BY <1>1
  <2> QED BY <1>1, <1>3, <1>4, <2>1
<1> QED BY <1>5, <1>6, Constants

\* The years still on a lease, rounded up, cover what is left of it: the
\* extension is counted from the present, not from the end.
LEMMA ExtensionBounded ==
  ASSUME now \in Nat, NEW r, r.end \in Nat, NEW y \in 1 .. MaxLeaseYears,
         y <= MaxLeaseYears - RemainingYears(r)
  PROVE  /\ r.end + y * Year \in Nat /\ r.end + y * Year >= r.end
         /\ r.end + y * Year <= now + MaxLeaseYears * Year
<1> DEFINE rem == RemainingYears(r)
<1>1. y * Year \in Nat
  BY YearsGrow, Constants
<1>2. rem \in Nat /\ r.end <= now + rem * Year
  <2>1. CASE r.end <= now
    <3>1. rem = 0
      BY <2>1 DEF RemainingYears
    <3> QED BY <2>1, <3>1, Constants
  <2>2. CASE ~(r.end <= now)
    <3>1. rem = (r.end - now + Year - 1) \div Year
      BY <2>2 DEF RemainingYears
    <3>2. r.end - now + Year - 1 \in Nat
      BY <2>2, Constants
    <3>3. \A x \in Nat : /\ x \div Year \in Nat
                         /\ x < (x \div Year) * Year + Year
      BY Constants, Z3
    <3>4. /\ rem \in Nat
          /\ r.end - now + Year - 1 < rem * Year + Year
      BY <3>1, <3>2, <3>3
    <3>5. rem * Year \in Nat
      BY <3>4, YearsGrow
    <3> QED BY <3>4, <3>5, Constants
  <2> QED BY <2>1, <2>2
<1> HIDE DEF rem
<1>3. (rem + y) * Year \in Nat /\ (rem + y) * Year <= MaxLeaseYears * Year
  <2>1. rem + y \in Nat /\ rem + y <= MaxLeaseYears
    BY <1>2, Constants DEF rem
  <2> QED BY <2>1, YearsGrow, Constants
<1>4. (rem + y) * Year = rem * Year + y * Year
  BY <1>2, Constants
<1>5. MaxLeaseYears * Year \in Nat /\ rem * Year \in Nat
  BY <1>2, YearsGrow, Constants
<1> QED BY <1>1, <1>2, <1>3, <1>4, <1>5

\* The migration leaves a registry of the names it imported.
LEMMA NamesInit ==
  ASSUME Init
  PROVE  NamesInv
<1> USE DEF Init
<1> DEFINE D == DOMAIN Imported
<1>1. PICK ant \in Assets :
        record = [n \in Names |-> IF n \in D
                                    THEN [NewRecord(ant, Permanent) EXCEPT
                                            !.end = Imported[n]]
                                    ELSE None]
  OBVIOUS
<1>2. D \subseteq Names /\ IsFiniteSet(D) /\ Cardinality(D) <= Capacity
  BY NamesAssumption
<1>3. Cardinality(D) \in Nat
  BY <1>2, FS_CardinalityType
<1>4. now = 0 /\ capacity = Capacity /\ returned = [n \in Names |-> None]
  OBVIOUS
<1>5. \A n \in D : /\ record[n] \in ArnsRecord /\ record[n] # None
                   /\ record[n].end = Imported[n]
  <2> SUFFICES ASSUME NEW n \in D
               PROVE  /\ record[n] \in ArnsRecord /\ record[n] # None
                      /\ record[n].end = Imported[n]
    OBVIOUS
  <2>1. record[n] = [NewRecord(ant, Permanent) EXCEPT !.end = Imported[n]]
    BY <1>1, <1>2
  <2>2. record[n] = [ant |-> ant, end |-> Imported[n],
                     undernames |-> DefaultUndernames]
    BY <2>1 DEF NewRecord
  <2>3. Imported[n] \in Nat \cup {Permanent}
    BY NamesAssumption
  <2>4. record[n] \in ArnsRecord
    BY <2>2, <2>3, Constants DEF ArnsRecord
  <2> QED BY <2>2, <2>4, Constants
<1>6. \A n \in Names \ D : record[n] = None
  BY <1>1
<1>7. record \in [Names -> ArnsRecord \cup {None}]
  <2>1. \A n \in Names : record[n] \in ArnsRecord \cup {None}
    BY <1>5, <1>6
  <2> QED BY <1>1, <2>1
<1>8. Registered = D
  BY <1>2, <1>5, <1>6 DEF Registered
<1>9. registry \in [1 .. Cardinality(D) -> D] /\ Range(registry) = D
  OBVIOUS
<1>10. registry \in Seq(Names) /\ Len(registry) = Cardinality(D)
  BY <1>2, <1>3, <1>9
<1>11. Distinct(registry)
  <2>1. registry \in Surjection(1 .. Cardinality(D), D)
    BY <1>9 DEF Surjection, Range
  <2>2. /\ IsFiniteSet(1 .. Cardinality(D))
        /\ Cardinality(1 .. Cardinality(D)) = Cardinality(D)
    BY <1>3, IntervalCount
  <2>3. registry \in Injection(1 .. Cardinality(D), D)
    BY <2>1, <2>2, FS_SurjSameCardinalityImpliesInj
  <2> QED BY <1>10, <2>3 DEF Injection, IsInjective, Distinct
<1>12. NamesTypeOK
  BY <1>4, <1>7, <1>10, Constants DEF NamesTypeOK
<1>13. Mirrors
  BY <1>2, <1>4, <1>8, <1>9, <1>10, <1>11 DEF Mirrors
<1>14. LeaseHorizon
  <2> SUFFICES ASSUME NEW n \in D, record[n].end # Permanent
               PROVE  record[n].end <= now + MaxLeaseYears * Year
    BY <1>8 DEF LeaseHorizon, IsLease
  <2>1. record[n].end \in 0 .. MaxLeaseYears * Year
    BY <1>5, NamesAssumption
  <2>2. MaxLeaseYears * Year \in Nat
    BY YearsGrow, Constants
  <2> QED BY <1>4, <2>1, <2>2
<1> QED BY <1>12, <1>13, <1>14 DEF NamesInv

\* The record of one name changes to r, all others stay.
LEMMA RecordSet ==
  ASSUME NamesInv, NEW n \in Names, NEW r \in ArnsRecord,
         record' = [record EXCEPT ![n] = r], now' = now,
         IsLease(r) => r.end <= now + MaxLeaseYears * Year
  PROVE  /\ record' \in [Names -> ArnsRecord \cup {None}]
         /\ Registered' = Registered \cup {n}
         /\ LeaseHorizon'
<1> USE DEF NamesInv, NamesTypeOK
<1>1. record'[n] = r /\ \A m \in Names \ {n} : record'[m] = record[m]
  OBVIOUS
<1>2. record' \in [Names -> ArnsRecord \cup {None}]
  OBVIOUS
<1>3. Registered' = Registered \cup {n}
  BY <1>1, Constants DEF Registered
<1>4. LeaseHorizon'
  <2> SUFFICES ASSUME NEW m \in Registered', IsLease(record[m])'
               PROVE  record'[m].end <= now + MaxLeaseYears * Year
    BY DEF LeaseHorizon
  <2>1. CASE m = n
    BY <1>1, <2>1 DEF IsLease
  <2>2. CASE m # n
    <3>1. m \in Registered /\ m \in Names \ {n}
      BY <1>3, <2>2 DEF Registered
    <3>2. record'[m] = record[m]
      BY <1>1, <3>1
    <3> QED BY <3>1, <3>2 DEF LeaseHorizon, IsLease
  <2> QED BY <2>1, <2>2
<1> QED BY <1>2, <1>3, <1>4

\* Buying appends a name that was not listed.
LEMMA BoughtInv ==
  ASSUME NamesInv, NEW n \in Names, Bought(n)
  PROVE  NamesInv'
<1> USE DEF NamesInv, NamesTypeOK
<1>1. PICK ant \in Assets, term \in Terms :
        record' = [record EXCEPT ![n] = NewRecord(ant, term)]
  BY DEF Bought
<1>2. /\ record' \in [Names -> ArnsRecord \cup {None}]
      /\ Registered' = Registered \cup {n}
      /\ LeaseHorizon'
  <2>1. now' = now
    BY DEF Bought
  <2> QED BY <1>1, <2>1, NewRecordType, RecordSet
<1>3. n \notin Range(registry)
  BY DEF Bought, Mirrors, Registered
<1>4. Len(registry) < capacity /\ registry' = Append(registry, n)
  BY DEF Bought, AppendEntry
<1>5. /\ registry' \in Seq(Names)
      /\ Distinct(registry')
      /\ Range(registry') = Range(registry) \cup {n}
      /\ Len(registry') = Len(registry) + 1
  BY <1>3, <1>4, AppendDistinct DEF Mirrors
<1>6. /\ returned' \in [Names -> ReturnedName \cup {None}]
      /\ returned'[n] = None
      /\ \A m \in Names \ {n} : returned'[m] = returned[m]
  BY DEF Bought
<1>7. NamesTypeOK'
  BY <1>2, <1>5, <1>6 DEF Bought
<1>8. Mirrors'
  <2>1. \A m \in Registered' : returned'[m] = None
    BY <1>2, <1>6 DEF Mirrors, Registered
  <2>2. Len(registry') <= capacity'
    <3>1. capacity' = capacity /\ Len(registry) \in Nat
      BY DEF Bought
    <3> QED BY <1>4, <1>5, <3>1
  <2>3. Range(registry') = Registered'
    BY <1>2, <1>5 DEF Mirrors
  <2> QED BY <1>5, <2>1, <2>2, <2>3 DEF Mirrors, Distinct
<1> QED BY <1>2, <1>7, <1>8

\* An amended record is longer and wider, within the horizon.
LEMMA AmendedRecord ==
  ASSUME NamesInv, NEW n \in Names, Amended(n)
  PROVE  \E r \in ArnsRecord :
           /\ record' = [record EXCEPT ![n] = r]
           /\ IsLease(r) => r.end <= now + MaxLeaseYears * Year
           /\ r.undernames >= record[n].undernames
           /\ IsLease(r) => IsLease(record[n]) /\ r.end >= record[n].end
<1> USE DEF NamesInv, NamesTypeOK
<1> DEFINE b == record[n]
<1>1. b \in ArnsRecord
  BY DEF Amended
<1>2. /\ b.ant \in Assets /\ b.end \in Nat \cup {Permanent}
      /\ b.undernames \in Nat
  BY <1>1 DEF ArnsRecord
<1>3. n \in Registered
  BY DEF Amended, Registered
<1>4. IsLease(b) => b.end <= now + MaxLeaseYears * Year
  BY <1>3 DEF LeaseHorizon
<1>5. CASE record' = [record EXCEPT ![n].end = Permanent]
  <2> DEFINE r == [b EXCEPT !.end = Permanent]
  <2>1. record' = [record EXCEPT ![n] = r]
    BY <1>5
  <2>2. r \in ArnsRecord
    BY <1>1 DEF ArnsRecord
  <2>3. r.undernames = b.undernames /\ r.end = Permanent
    BY <1>1 DEF ArnsRecord
  <2>4. r.undernames >= b.undernames /\ ~IsLease(r)
    BY <1>2, <2>3 DEF IsLease
  <2> HIDE DEF r
  <2> QED BY <2>1, <2>2, <2>4
<1>6. ASSUME IsLease(b), NEW y \in 1 .. MaxLeaseYears,
             y <= MaxLeaseYears - RemainingYears(b),
             record' = [record EXCEPT ![n].end = @ + y * Year]
      PROVE  \E r \in ArnsRecord :
               /\ record' = [record EXCEPT ![n] = r]
               /\ IsLease(r) => r.end <= now + MaxLeaseYears * Year
               /\ r.undernames >= b.undernames
               /\ IsLease(r) => IsLease(b) /\ r.end >= b.end
  <2> DEFINE r == [b EXCEPT !.end = @ + y * Year]
  <2>1. record' = [record EXCEPT ![n] = r]
    BY <1>6
  <2>2. b.end \in Nat
    BY <1>2, <1>6 DEF IsLease
  <2>3. /\ b.end + y * Year \in Nat /\ b.end + y * Year >= b.end
        /\ b.end + y * Year <= now + MaxLeaseYears * Year
    BY <1>6, <2>2, ExtensionBounded
  <2>4. r.undernames = b.undernames /\ r.end = b.end + y * Year
    BY <1>1 DEF ArnsRecord
  <2>5. r \in ArnsRecord
    BY <1>1, <2>3 DEF ArnsRecord
  <2>6. r.undernames >= b.undernames
    BY <1>2, <2>4
  <2> HIDE DEF r
  <2> QED BY <1>6, <2>1, <2>3, <2>4, <2>5, <2>6
<1>7. ASSUME NEW q \in 1 .. MaxUndernames,
             record' = [record EXCEPT ![n].undernames = @ + q]
      PROVE  \E r \in ArnsRecord :
               /\ record' = [record EXCEPT ![n] = r]
               /\ IsLease(r) => r.end <= now + MaxLeaseYears * Year
               /\ r.undernames >= b.undernames
               /\ IsLease(r) => IsLease(b) /\ r.end >= b.end
  <2> DEFINE r == [b EXCEPT !.undernames = @ + q]
  <2>1. record' = [record EXCEPT ![n] = r]
    BY <1>7
  <2>2. b.undernames + q \in Nat /\ b.undernames + q >= b.undernames
    BY <1>2
  <2>3. r.undernames = b.undernames + q /\ r.end = b.end
    BY <1>1 DEF ArnsRecord
  <2>4. r \in ArnsRecord
    BY <1>1, <2>2 DEF ArnsRecord
  <2>5. IsLease(r) => IsLease(b) /\ r.end >= b.end
    BY <1>2, <2>3 DEF IsLease
  <2> HIDE DEF r
  <2> QED BY <1>4, <2>1, <2>2, <2>3, <2>4, <2>5
<1>8. ASSUME NEW ant \in Assets, record' = [record EXCEPT ![n].ant = ant]
      PROVE  \E r \in ArnsRecord :
               /\ record' = [record EXCEPT ![n] = r]
               /\ IsLease(r) => r.end <= now + MaxLeaseYears * Year
               /\ r.undernames >= b.undernames
               /\ IsLease(r) => IsLease(b) /\ r.end >= b.end
  <2> DEFINE r == [b EXCEPT !.ant = ant]
  <2>1. record' = [record EXCEPT ![n] = r]
    BY <1>8
  <2>2. r.undernames = b.undernames /\ r.end = b.end
    BY <1>1 DEF ArnsRecord
  <2>3. r \in ArnsRecord
    BY <1>1 DEF ArnsRecord
  <2>4. IsLease(r) => IsLease(b) /\ r.end >= b.end
    BY <1>2, <2>2 DEF IsLease
  <2>5. r.undernames >= b.undernames
    BY <1>2, <2>2
  <2> HIDE DEF r
  <2> QED BY <1>4, <2>1, <2>2, <2>3, <2>4, <2>5
<1> QED BY <1>5, <1>6, <1>7, <1>8 DEF Amended

\* Amending a record leaves the registry alone.
LEMMA AmendedInv ==
  ASSUME NamesInv, NEW n \in Names, Amended(n)
  PROVE  NamesInv'
<1> USE DEF NamesInv, NamesTypeOK
<1>1. PICK r \in ArnsRecord :
        /\ record' = [record EXCEPT ![n] = r]
        /\ IsLease(r) => r.end <= now + MaxLeaseYears * Year
  BY AmendedRecord
<1>2. UNCHANGED <<now, returned, registry, capacity>>
  BY DEF Amended
<1>3. /\ record' \in [Names -> ArnsRecord \cup {None}]
      /\ Registered' = Registered \cup {n}
      /\ LeaseHorizon'
  BY <1>1, <1>2, RecordSet
<1>4. Registered' = Registered
  BY <1>3 DEF Amended, Registered
<1>5. Mirrors'
  BY <1>2, <1>4 DEF Mirrors, Distinct
<1> QED BY <1>2, <1>3, <1>5

\* Ending a record removes its one entry.
LEMMA EndedInv ==
  ASSUME NamesInv, NEW n \in Names, Ended(n)
  PROVE  NamesInv'
<1> USE DEF NamesInv, NamesTypeOK
<1>1. /\ record[n] # None /\ record' = [record EXCEPT ![n] = None]
      /\ UNCHANGED <<now, capacity>>
  BY DEF Ended
<1>2. record' \in [Names -> ArnsRecord \cup {None}]
  BY <1>1
<1>3. Registered' = Registered \ {n}
  BY <1>1 DEF Registered
<1>4. LeaseHorizon'
  <2> SUFFICES ASSUME NEW m \in Registered', IsLease(record[m])'
               PROVE  record'[m].end <= now + MaxLeaseYears * Year
    BY <1>1 DEF LeaseHorizon
  <2>1. m \in Registered /\ record'[m] = record[m]
    BY <1>1, <1>3 DEF Registered
  <2> QED BY <2>1 DEF LeaseHorizon, IsLease
<1>5. \A m \in Names \ {n} : returned'[m] = returned[m]
  BY DEF Ended
<1>6. returned' \in [Names -> ReturnedName \cup {None}]
  BY <1>1 DEF Ended, ReturnedName
<1>7. /\ registry' \in Seq(Names) /\ Distinct(registry')
      /\ Range(registry') = Range(registry) \ {n}
      /\ Len(registry') = Len(registry) - 1
  <2> DEFINE found == {i \in DOMAIN registry : registry[i] = n}
             idx == CHOOSE i \in found : \A j \in found : i <= j
  <2>1. n \in Range(registry)
    BY <1>1 DEF Mirrors, Registered
  <2>2. PICK k \in 1 .. Len(registry) : registry[k] = n
    BY <2>1 DEF Range
  <2>3. DOMAIN registry = 1 .. Len(registry)
    OBVIOUS
  <2>4. k \in found /\ \A j \in found : j = k
    BY <2>2, <2>3 DEF Mirrors, Distinct
  <2>5. k \in Nat
    OBVIOUS
  <2> HIDE DEF found
  <2>6. idx = k
    <3>1. \A j \in found : k <= j
      BY <2>4, <2>5
    <3> QED BY <2>4, <3>1
  <2>7. registry' = SubSeq([registry EXCEPT ![idx] = registry[Len(registry)]],
                           1, Len(registry) - 1)
    <3>1. found # {}
      BY <2>4
    <3> QED BY <3>1 DEF Ended, RemoveEntry, found
  <2> HIDE DEF idx
  <2> QED BY <2>2, <2>6, <2>7, RemoveDistinct DEF Mirrors
<1>8. NamesTypeOK'
  BY <1>1, <1>2, <1>6, <1>7
<1>9. Mirrors'
  <2>1. Range(registry') = Registered'
    BY <1>3, <1>7 DEF Mirrors
  <2>2. Len(registry') <= capacity'
    <3>1. Len(registry) \in Nat /\ Len(registry) <= capacity
      BY DEF Mirrors
    <3> QED BY <1>1, <1>7, <3>1
  <2>3. \A m \in Registered' : returned'[m] = None
    BY <1>3, <1>5 DEF Mirrors, Registered
  <2> QED BY <1>7, <2>1, <2>2, <2>3 DEF Mirrors, Distinct
<1> QED BY <1>4, <1>8, <1>9

\* Closing an auction touches no record.
LEMMA AuctionOverInv ==
  ASSUME NamesInv, NEW n \in Names, AuctionOver(n)
  PROVE  NamesInv'
BY DEF NamesInv, NamesTypeOK, AuctionOver, Mirrors, Distinct, LeaseHorizon,
       Registered, IsLease

\* Time passing only relaxes the horizon.
LEMMA AsideInv ==
  ASSUME NamesInv, Aside
  PROVE  NamesInv'
<1> USE DEF NamesInv
<1>1. NamesTypeOK'
  BY DEF NamesTypeOK, Aside
<1>2. Mirrors'
  BY DEF NamesTypeOK, Aside, Mirrors, Distinct, Registered
<1>3. LeaseHorizon'
  <2> SUFFICES ASSUME NEW n \in Registered, IsLease(record[n])
               PROVE  record[n].end <= now' + MaxLeaseYears * Year
    BY DEF Aside, LeaseHorizon, Registered, IsLease
  <2>1. record[n].end <= now + MaxLeaseYears * Year
    BY DEF LeaseHorizon
  <2>2. record[n].end \in Nat
    BY DEF IsLease, Registered, NamesTypeOK, ArnsRecord
  <2>3. MaxLeaseYears * Year \in Nat
    BY YearsGrow, Constants
  <2> QED BY <2>1, <2>2, <2>3 DEF Aside, NamesTypeOK
<1> QED BY <1>1, <1>2, <1>3

\* The invariant is inductive.
LEMMA NamesStep ==
  ASSUME NamesInv, [Next]_vars
  PROVE  NamesInv'
<1>1. Effects
  BY StepEffects DEF NamesInv, NamesTypeOK
<1> QED BY <1>1, BoughtInv, AmendedInv, EndedInv, AuctionOverInv, AsideInv
        DEF Effects

\* The invariant holds throughout.
LEMMA NamesInvariant == Spec => []NamesInv
<1>1. Init => NamesInv
  BY NamesInit
<1>2. NamesInv /\ [Next]_vars => NamesInv'
  BY NamesStep
<1> QED BY <1>1, <1>2, PTL DEF Spec

\* The NameRegistry lists the names in use, each once, and none of them is up
\* for auction, after any buying, release and pruning.
THEOREM RegistryMirrorsHolds == Spec => []RegistryMirrors
<1>1. NamesInv => RegistryMirrors
  <2> SUFFICES ASSUME NamesInv
               PROVE  RegistryMirrors
    OBVIOUS
  <2>1. Cardinality(Range(registry)) = Len(registry)
    BY DistinctCounts DEF NamesInv, NamesTypeOK, Mirrors
  <2> QED BY <2>1 DEF NamesInv, Mirrors, RegistryMirrors
<1> QED BY <1>1, NamesInvariant, PTL

\* No extension of a lease, nor any sequence of them, reaches further than
\* MaxLeaseYears from the present.
THEOREM LeaseHorizonHolds == Spec => []LeaseHorizon
<1>1. NamesInv => LeaseHorizon
  BY DEF NamesInv
<1> QED BY <1>1, NamesInvariant, PTL

\* A record is closed only by the holder of its ANT or once its grace period
\* has passed, and till then only lengthened and widened, by whichever of the
\* instructions and whatever it is paid from.
THEOREM GraceProtectsHolds == Spec => GraceProtects
<1> DEFINE Kept(n) ==
             IF record'[n] = None
               THEN \/ /\ ~IsLease(record[n]) /\ returned'[n] # None
                       /\ returned'[n].initiator = holder[record[n].ant]
                    \/ IsLease(record[n]) /\ now > record[n].end + Grace
               ELSE /\ record'[n].undernames >= record[n].undernames
                    /\ record'[n].end # Permanent
                         => IsLease(record[n]) /\ record'[n].end >= record[n].end
<1>1. ASSUME NamesInv, [Next]_vars, NEW n \in Registered
      PROVE  Kept(n)
  <2> USE <1>1 DEF NamesInv, NamesTypeOK
  <2>1. Effects
    BY StepEffects
  <2>2. n \in Names /\ record[n] \in ArnsRecord /\ record[n] # None
    BY DEF Registered
  <2>3. /\ record[n].undernames \in Nat
        /\ record[n].end \in Nat \cup {Permanent}
    BY <2>2 DEF ArnsRecord
  <2>4. ASSUME record'[n] = record[n]
        PROVE  Kept(n)
    BY <2>2, <2>3, <2>4 DEF IsLease
  <2>5. ASSUME NEW m \in Names, Bought(m)
        PROVE  Kept(n)
    <3>1. record'[n] = record[n]
      BY <2>2, <2>5 DEF Bought
    <3> QED BY <2>4, <3>1
  <2>6. ASSUME NEW m \in Names, Amended(m)
        PROVE  Kept(n)
    <3>1. PICK r \in ArnsRecord :
            /\ record' = [record EXCEPT ![m] = r]
            /\ r.undernames >= record[m].undernames
            /\ IsLease(r) => IsLease(record[m]) /\ r.end >= record[m].end
      BY <2>6, AmendedRecord
    <3>2. CASE m # n
      BY <2>2, <2>4, <3>1, <3>2
    <3>3. CASE m = n
      <4>1. record'[n] = r /\ r # None
        BY <2>2, <3>1, <3>3, Constants
      <4> QED BY <3>1, <3>3, <4>1 DEF IsLease
    <3> QED BY <3>2, <3>3
  <2>7. ASSUME NEW m \in Names, Ended(m)
        PROVE  Kept(n)
    <3>1. CASE m # n
      BY <2>2, <2>4, <2>7, <3>1 DEF Ended
    <3>2. CASE m = n
      <4>1. record'[n] = None
        BY <2>2, <2>7, <3>2 DEF Ended
      <4>2. ASSUME ~IsLease(record[n])
            PROVE  /\ returned'[n] # None
                   /\ returned'[n].initiator = holder[record[n].ant]
        <5>1. PICK i \in Users \cup {Protocol} :
                /\ i = holder[record[n].ant]
                /\ returned' = [returned EXCEPT
                                  ![n] = [initiator |-> i, at |-> now]]
          BY <2>7, <3>2, <4>2 DEF Ended
        <5>2. returned'[n] = [initiator |-> i, at |-> now]
          BY <2>2, <5>1
        <5>3. returned'[n] \in ReturnedName
          BY <5>2 DEF ReturnedName
        <5> QED BY <5>1, <5>2, <5>3, Constants
      <4>3. ASSUME IsLease(record[n])
            PROVE  now > record[n].end + Grace
        <5>1. record[n].end \in Nat
          BY <2>3, <4>3 DEF IsLease
        <5>2. AuctionDuration \in Nat
          BY PricingAssumption
        <5>3. \/ now > record[n].end + Grace
              \/ now > record[n].end + Grace + AuctionDuration
          BY <2>7, <3>2, <4>3 DEF Ended
        <5> QED BY <5>1, <5>2, <5>3, Constants
      <4> QED BY <4>1, <4>2, <4>3
    <3> QED BY <3>1, <3>2
  <2>8. ASSUME NEW m \in Names, AuctionOver(m)
        PROVE  Kept(n)
    BY <2>4, <2>8 DEF AuctionOver
  <2>9. CASE Aside
    BY <2>4, <2>9 DEF Aside
  <2> QED BY <2>1, <2>5, <2>6, <2>7, <2>8, <2>9 DEF Effects
<1>2. NamesInv /\ [Next]_vars => [\A n \in Registered : Kept(n)]_vars
  BY <1>1
<1> QED BY <1>2, NamesInvariant, PTL DEF Spec, GraceProtects

-----------------------------------------------------------------------------
(* Iteration: what a loop of n steps computes, for every n.                 *)

(* A set of naturals has a least element. *)
LEMMA LeastNatural ==
  ASSUME NEW T, T \subseteq Nat, T # {}
  PROVE  \E n \in T : \A m \in T : n <= m
<1>1. PICK n \in T : \A m \in T : ~(<<m, n>> \in OpToRel(<, Nat))
  BY WFMin, NatLessThanWellFounded
<1>2. ASSUME NEW m \in T, m < n PROVE FALSE
  <2>1. <<m, n>> \in OpToRel(<, Nat)
    BY <1>2 DEF OpToRel
  <2>. QED BY <1>1, <2>1, Zenon
<1>3. \A m \in T : n <= m
  BY <1>2
<1>. QED BY <1>3

(* A set of naturals with zero and with every successor has them all. *)
LEMMA AllNaturals ==
  ASSUME NEW T, 0 \in T, \A n \in Nat : n \in T => n + 1 \in T
  PROVE  \A n \in Nat : n \in T
<1>. DEFINE B == {n \in Nat : n \notin T}
<1>. SUFFICES ASSUME B # {} PROVE FALSE
  OBVIOUS
<1>1. PICK n \in B : \A m \in B : n <= m
  <2>1. B \subseteq Nat
    OBVIOUS
  <2>. HIDE DEF B
  <2>. QED BY <2>1, LeastNatural
<1>2. n \in Nat /\ n # 0
  OBVIOUS
<1>3. n - 1 \in Nat /\ n - 1 \in T
  BY <1>1, <1>2
<1>4. (n - 1) + 1 \in T
  BY <1>3
<1>. QED BY <1>2, <1>4

\* f runs through the n first iterates of F from x.
Iterates(f, F, x, n) == f[0] = x /\ \A i \in 0 .. n - 1 : f[i + 1] = F[f[i]]

(* Two runs agree as far as both go. *)
LEMMA IteratesAgree ==
  ASSUME NEW F, NEW x, NEW n \in Nat, NEW m \in Nat, NEW f, NEW g,
         Iterates(f, F, x, n), Iterates(g, F, x, m), NEW k \in Nat, k <= n, k <= m
  PROVE  f[k] = g[k]
<1>. DEFINE T == {i \in Nat : i <= n /\ i <= m => f[i] = g[i]}
<1>1. 0 \in T
  BY DEF Iterates
<1>2. ASSUME NEW i \in Nat, i \in T PROVE i + 1 \in T
  <2>. SUFFICES ASSUME i + 1 <= n, i + 1 <= m PROVE f[i + 1] = g[i + 1]
    OBVIOUS
  <2>1. i \in 0 .. n - 1 /\ i \in 0 .. m - 1
    OBVIOUS
  <2>2. f[i] = g[i]
    BY <1>2, <2>1
  <2>. QED BY <2>1, <2>2 DEF Iterates
<1>3. \A i \in Nat : i \in T
  <2>. HIDE DEF T
  <2>. QED BY <1>1, <1>2, AllNaturals
<1>. QED BY <1>3

\* f is the run of F from x, in X.
IsRun(f, F, X, x) ==
  f \in [Nat -> X] /\ f[0] = x /\ \A n \in Nat : f[n + 1] = F[f[n]]

(* A function from a set to itself can be run for ever. *)
LEMMA IteratesExist ==
  ASSUME NEW X, NEW F \in [X -> X], NEW x \in X
  PROVE  \E f : IsRun(f, F, X, x)
<1>. DEFINE T == {n \in Nat : \E f \in [0 .. n -> X] : Iterates(f, F, x, n)}
<1>1. 0 \in T
  <2>1. [i \in 0 .. 0 |-> x] \in [0 .. 0 -> X]
    OBVIOUS
  <2>2. Iterates([i \in 0 .. 0 |-> x], F, x, 0)
    BY DEF Iterates
  <2>. QED BY <2>1, <2>2
<1>2. ASSUME NEW n \in Nat, n \in T PROVE n + 1 \in T
  <2>1. PICK f \in [0 .. n -> X] : Iterates(f, F, x, n)
    BY <1>2
  <2>. DEFINE g == [i \in 0 .. n + 1 |-> IF i <= n THEN f[i] ELSE F[f[n]]]
  <2>2. g \in [0 .. n + 1 -> X]
    OBVIOUS
  <2>3. g[0] = x
    BY <2>1 DEF Iterates
  <2>4. ASSUME NEW i \in 0 .. (n + 1) - 1 PROVE g[i + 1] = F[g[i]]
    <3>1. CASE i = n
      BY <3>1
    <3>2. CASE i # n
      <4>1. i \in 0 .. n - 1
        BY <3>2
      <4>2. f[i + 1] = F[f[i]]
        BY <4>1, <2>1 DEF Iterates
      <4>. QED BY <4>1, <4>2
    <3>. QED BY <3>1, <3>2
  <2>. HIDE DEF g
  <2>5. Iterates(g, F, x, n + 1)
    BY <2>3, <2>4 DEF Iterates
  <2>. QED BY <2>2, <2>5
<1>3. \A n \in Nat : n \in T
  <2>. HIDE DEF T
  <2>. QED BY <1>1, <1>2, AllNaturals
<1>. DEFINE run(n) == CHOOSE f \in [0 .. n -> X] : Iterates(f, F, x, n)
            h == [n \in Nat |-> run(n)[n]]
<1>4. ASSUME NEW n \in Nat
      PROVE  run(n) \in [0 .. n -> X] /\ Iterates(run(n), F, x, n)
  BY <1>3
<1>. HIDE DEF T, run
<1>5. h \in [Nat -> X]
  BY <1>4
<1>6. h[0] = x
  BY <1>4 DEF Iterates
<1>7. ASSUME NEW n \in Nat PROVE h[n + 1] = F[h[n]]
  <2>1. /\ Iterates(run(n), F, x, n)
        /\ Iterates(run(n + 1), F, x, n + 1)
    BY <1>4
  <2>2. run(n + 1)[n] = run(n)[n]
    BY <2>1, IteratesAgree
  <2>3. n \in 0 .. (n + 1) - 1
    OBVIOUS
  <2>4. run(n + 1)[n + 1] = F[run(n + 1)[n]]
    BY <2>1, <2>3 DEF Iterates
  <2>. QED BY <2>2, <2>4
<1>. HIDE DEF h
<1>8. IsRun(h, F, X, x)
  BY <1>5, <1>6, <1>7 DEF IsRun
<1>. QED BY <1>8
-----------------------------------------------------------------------------
(* The period machine, one step and many.                                   *)

WalkState == [factor : Nat, atMin : Nat, cuts : Nat]
FeeTable == [Lengths -> Nat]

\* What the proofs use of the assumptions on prices.
LEMMA PriceConstants ==
  /\ {Scale, FactorMin, FactorMax, UpAdjustment, DownAdjustment, MaxPeriodsAtMin,
      Window, MaxRollover, PeriodLength, AuctionDuration, InitialFactor, AnnualPct,
      LeaseUndernamePct, PermabuyUndernamePct, DiscountPct, MaxMultiplier}
       \subseteq Nat
  /\ Scale > 0 /\ FactorMin > 0 /\ Window > 0 /\ PeriodLength > 0
  /\ AuctionDuration > 0 /\ MaxMultiplier >= 1 /\ DiscountPct <= Scale
  /\ FactorMin < Scale /\ DownAdjustment < Scale /\ MaxRollover > Window
  /\ GenesisFees \in FeeTable
BY PricingAssumption DEF FeeTable, Lengths

\* A fixed-point product is a natural number.
LEMMA ScaledType ==
  ASSUME NEW a \in Nat, NEW b \in Nat
  PROVE  a * b \in Nat /\ (a * b) \div Scale \in Nat
<1>1. a * b \in Nat
  OBVIOUS
<1>2. \A x \in Nat : x \div Scale \in Nat
  BY PriceConstants
<1>. QED BY <1>1, <1>2

\* Periods take their places in the ring.
LEMMA RingType ==
  ASSUME NEW p \in Nat
  PROVE  p % Window \in Ring
BY PriceConstants DEF Ring

\* A cut leaves a fee table.
LEMMA UpdateFeesType ==
  ASSUME NEW fees \in FeeTable
  PROVE  UpdateFees(fees) \in FeeTable
<1>1. ASSUME NEW l \in Lengths PROVE (fees[l] * FactorMin) \div Scale \in Nat
  BY PriceConstants, ScaledType DEF FeeTable
<1>. QED BY <1>1 DEF UpdateFees, FeeTable

\* What an idle period makes of the factor.
Decayed(factor) ==
  IF factor > FactorMin THEN (factor * DownAdjustment) \div Scale ELSE factor

\* The three things an idle period can be: above the floor, at the floor for
\* too long, or at the floor.
LEMMA IdleStepIs ==
  ASSUME NEW s \in WalkState
  PROVE  LET low == Decayed(s.factor)
             t == ZeroActivityStep(s)
         IN  /\ low \in Nat
             /\ \/ /\ low > FactorMin
                   /\ t = [factor |-> low, atMin |-> 0, cuts |-> s.cuts]
                \/ /\ low <= FactorMin /\ s.atMin >= MaxPeriodsAtMin
                   /\ t = [factor |-> Scale, atMin |-> 0, cuts |-> s.cuts + 1]
                \/ /\ low <= FactorMin /\ ~(s.atMin >= MaxPeriodsAtMin)
                   /\ t = [factor |-> FactorMin, atMin |-> s.atMin + 1, cuts |-> s.cuts]
<1>. DEFINE low == Decayed(s.factor)
            t == ZeroActivityStep(s)
<1>1. s.factor \in Nat /\ s.atMin \in Nat /\ s.cuts \in Nat
  BY DEF WalkState
<1>2. low \in Nat
  BY <1>1, PriceConstants, ScaledType DEF Decayed
<1>3. t = CASE low > FactorMin -> [s EXCEPT !.factor = low, !.atMin = 0]
            [] low <= FactorMin /\ s.atMin >= MaxPeriodsAtMin ->
                 [factor |-> Scale, atMin |-> 0, cuts |-> s.cuts + 1]
            [] OTHER -> [s EXCEPT !.factor = FactorMin, !.atMin = @ + 1]
  BY DEF ZeroActivityStep, Decayed
<1>. HIDE DEF low, t
<1>4. CASE low > FactorMin
  <2>1. t = [s EXCEPT !.factor = low, !.atMin = 0]
    BY <1>2, <1>3, <1>4, PriceConstants
  <2>2. t = [factor |-> low, atMin |-> 0, cuts |-> s.cuts]
    BY <2>1 DEF WalkState
  <2>. QED BY <1>2, <1>4, <2>2 DEF low, t
<1>5. CASE low <= FactorMin /\ s.atMin >= MaxPeriodsAtMin
  <2>1. t = [factor |-> Scale, atMin |-> 0, cuts |-> s.cuts + 1]
    BY <1>2, <1>3, <1>5, PriceConstants
  <2>. QED BY <1>2, <1>5, <2>1 DEF low, t
<1>6. CASE low <= FactorMin /\ ~(s.atMin >= MaxPeriodsAtMin)
  <2>1. t = [s EXCEPT !.factor = FactorMin, !.atMin = @ + 1]
    BY <1>2, <1>3, <1>6, PriceConstants
  <2>2. t = [factor |-> FactorMin, atMin |-> s.atMin + 1, cuts |-> s.cuts]
    BY <2>1 DEF WalkState
  <2>. QED BY <1>2, <1>6, <2>2 DEF low, t
<1>. QED BY <1>2, <1>4, <1>5, <1>6, PriceConstants

\* An idle period leaves a state of the walk.
LEMMA IdleStepType ==
  ASSUME NEW s \in WalkState
  PROVE  ZeroActivityStep(s) \in WalkState
<1>1. s.atMin + 1 \in Nat /\ s.cuts \in Nat /\ s.cuts + 1 \in Nat
  BY DEF WalkState
<1>. QED BY <1>1, IdleStepIs, PriceConstants DEF WalkState

\* A period leaves a demand account.
LEMMA RollType ==
  ASSUME NEW d \in DemandFactor
  PROVE  RollOnePeriod(d) \in DemandFactor
<1>1. /\ d.factor \in Nat /\ d.period \in Nat /\ d.atMin \in Nat
      /\ d.purchases \in Nat /\ d.revenue \in Nat
      /\ d.pastPurchases \in [Ring -> Nat] /\ d.pastRevenues \in [Ring -> Nat]
      /\ d.fees \in FeeTable
  BY DEF DemandFactor, FeeTable
<1>2. Adjusted(d) \in Nat
  <2>1. /\ (d.factor * UpAdjustment) \div Scale \in Nat
        /\ (d.factor * DownAdjustment) \div Scale \in Nat
    BY <1>1, PriceConstants, ScaledType
  <2>. QED BY <1>1, <2>1, PriceConstants DEF Adjusted
<1>3. UpdateFees(d.fees) \in FeeTable
  BY <1>1, UpdateFeesType
<1>4. Floored(d, Adjusted(d)) \in DemandFactor
  <2>. DEFINE a == Adjusted(d)
  <2>1. [d EXCEPT !.factor = a, !.atMin = 0] \in DemandFactor
    BY <1>2 DEF DemandFactor
  <2>2. [d EXCEPT !.factor = Scale, !.atMin = 0, !.fees = UpdateFees(@)] \in DemandFactor
    BY <1>3, PriceConstants DEF DemandFactor, FeeTable
  <2>3. [d EXCEPT !.factor = FactorMin, !.atMin = @ + 1] \in DemandFactor
    <3>1. FactorMin \in Nat /\ d.atMin + 1 \in Nat
      BY <1>1, PriceConstants
    <3>. QED BY <3>1 DEF DemandFactor
  <2>. QED BY <2>1, <2>2, <2>3 DEF Floored
<1>. DEFINE e == Floored(d, Adjusted(d))
<1>. HIDE DEF e
<1>5. RollOnePeriod(d) =
        [e EXCEPT !.pastPurchases[d.period % Window] = d.purchases,
                  !.pastRevenues[d.period % Window] = d.revenue,
                  !.purchases = 0, !.revenue = 0, !.period = @ + 1]
  BY DEF RollOnePeriod, e
<1>6. e \in DemandFactor
  BY <1>4 DEF e
<1>7. d.period % Window \in Ring
  BY <1>1, RingType
<1>8. /\ [e.pastPurchases EXCEPT ![d.period % Window] = d.purchases] \in [Ring -> Nat]
      /\ [e.pastRevenues EXCEPT ![d.period % Window] = d.revenue] \in [Ring -> Nat]
      /\ e.period + 1 \in Nat
  BY <1>1, <1>6, <1>7 DEF DemandFactor
<1>9. RollOnePeriod(d) =
        [factor |-> e.factor, period |-> e.period + 1, purchases |-> 0, revenue |-> 0,
         atMin |-> e.atMin,
         pastPurchases |-> [e.pastPurchases EXCEPT ![d.period % Window] = d.purchases],
         pastRevenues |-> [e.pastRevenues EXCEPT ![d.period % Window] = d.revenue],
         fees |-> e.fees]
  BY <1>5, <1>6 DEF DemandFactor
<1>. QED BY <1>6, <1>8, <1>9 DEF DemandFactor

\* The loop of maybe_roll_demand_period as its equations.
LEMMA RollsRun ==
  ASSUME NEW d \in DemandFactor
  PROVE  /\ Rolls(d) \in [Nat -> DemandFactor]
         /\ Rolls(d)[0] = d
         /\ \A k \in Nat : Rolls(d)[k + 1] = RollOnePeriod(Rolls(d)[k])
<1>. DEFINE F == [e \in DemandFactor |-> RollOnePeriod(e)]
            Eq(f) == f = [k \in Nat |-> IF k = 0 THEN d ELSE RollOnePeriod(f[k - 1])]
<1>1. PICK g : IsRun(g, F, DemandFactor, d)
  <2>1. F \in [DemandFactor -> DemandFactor]
    BY RollType
  <2>. HIDE DEF F, Eq
  <2>. QED BY <2>1, IteratesExist
<1>2. /\ g \in [Nat -> DemandFactor] /\ g[0] = d
      /\ \A k \in Nat : g[k + 1] = RollOnePeriod(g[k])
  BY <1>1 DEF IsRun
<1>3. \A k \in Nat : g[k] = IF k = 0 THEN d ELSE RollOnePeriod(g[k - 1])
  <2>. SUFFICES ASSUME NEW k \in Nat, k # 0 PROVE g[k] = RollOnePeriod(g[k - 1])
    BY <1>2
  <2>1. k - 1 \in Nat /\ (k - 1) + 1 = k
    OBVIOUS
  <2>. QED BY <1>2, <2>1
<1>4. Eq(g)
  BY <1>2, <1>3
<1>5. Rolls(d) = CHOOSE f : Eq(f)
  BY DEF Rolls
<1>6. Eq(Rolls(d))
  <2>. HIDE DEF Eq
  <2>. QED BY <1>4, <1>5
<1>. DEFINE h == Rolls(d)
<1>7. h = [k \in Nat |-> IF k = 0 THEN d ELSE RollOnePeriod(h[k - 1])]
  BY <1>6
<1>. HIDE DEF h
<1>8. h[0] = d /\ \A k \in Nat : h[k + 1] = RollOnePeriod(h[k])
  <2>1. h[0] = d
    BY <1>7
  <2>2. ASSUME NEW k \in Nat PROVE h[k + 1] = RollOnePeriod(h[k])
    <3>1. k + 1 \in Nat /\ k + 1 # 0 /\ (k + 1) - 1 = k
      OBVIOUS
    <3>2. h[k + 1] = RollOnePeriod(h[(k + 1) - 1])
      BY <1>7, <3>1
    <3>. QED BY <3>1, <3>2
  <2>. QED BY <2>1, <2>2
<1>. DEFINE T == {k \in Nat : h[k] \in DemandFactor}
<1>9. \A k \in Nat : k \in T
  <2>1. 0 \in T
    BY <1>8
  <2>2. \A k \in Nat : k \in T => k + 1 \in T
    BY <1>8, RollType
  <2>. HIDE DEF T
  <2>. QED BY <2>1, <2>2, AllNaturals
<1>10. h \in [Nat -> DemandFactor]
  BY <1>7, <1>9
<1>. QED BY <1>8, <1>10 DEF h
\* Cutting the fees again and again, as its equations.
LEMMA FeeCutsRun ==
  ASSUME NEW fees \in FeeTable
  PROVE  /\ FeeCuts(fees) \in [Nat -> FeeTable]
         /\ FeeCuts(fees)[0] = fees
         /\ \A k \in Nat : FeeCuts(fees)[k + 1] = UpdateFees(FeeCuts(fees)[k])
<1>. DEFINE F == [e \in FeeTable |-> UpdateFees(e)]
            Eq(f) == f = [k \in Nat |-> IF k = 0 THEN fees ELSE UpdateFees(f[k - 1])]
<1>1. PICK g : IsRun(g, F, FeeTable, fees)
  <2>1. F \in [FeeTable -> FeeTable]
    BY UpdateFeesType
  <2>. HIDE DEF F, Eq
  <2>. QED BY <2>1, IteratesExist
<1>2. /\ g \in [Nat -> FeeTable] /\ g[0] = fees
      /\ \A k \in Nat : g[k + 1] = UpdateFees(g[k])
  BY <1>1 DEF IsRun
<1>3. \A k \in Nat : g[k] = IF k = 0 THEN fees ELSE UpdateFees(g[k - 1])
  <2>. SUFFICES ASSUME NEW k \in Nat, k # 0 PROVE g[k] = UpdateFees(g[k - 1])
    BY <1>2
  <2>1. k - 1 \in Nat /\ (k - 1) + 1 = k
    OBVIOUS
  <2>. QED BY <1>2, <2>1
<1>4. Eq(g)
  BY <1>2, <1>3
<1>5. FeeCuts(fees) = CHOOSE f : Eq(f)
  BY DEF FeeCuts
<1>6. Eq(FeeCuts(fees))
  <2>. HIDE DEF Eq
  <2>. QED BY <1>4, <1>5
<1>. DEFINE h == FeeCuts(fees)
<1>7. h = [k \in Nat |-> IF k = 0 THEN fees ELSE UpdateFees(h[k - 1])]
  BY <1>6
<1>. HIDE DEF h
<1>8. h[0] = fees /\ \A k \in Nat : h[k + 1] = UpdateFees(h[k])
  <2>1. h[0] = fees
    BY <1>7
  <2>2. ASSUME NEW k \in Nat PROVE h[k + 1] = UpdateFees(h[k])
    <3>1. k + 1 \in Nat /\ k + 1 # 0 /\ (k + 1) - 1 = k
      OBVIOUS
    <3>2. h[k + 1] = UpdateFees(h[(k + 1) - 1])
      BY <1>7, <3>1
    <3>. QED BY <3>1, <3>2
  <2>. QED BY <2>1, <2>2
<1>. DEFINE T == {k \in Nat : h[k] \in FeeTable}
<1>9. \A k \in Nat : k \in T
  <2>1. 0 \in T
    BY <1>8
  <2>2. \A k \in Nat : k \in T => k + 1 \in T
    BY <1>8, UpdateFeesType
  <2>. HIDE DEF T
  <2>. QED BY <2>1, <2>2, AllNaturals
<1>10. h \in [Nat -> FeeTable]
  BY <1>7, <1>9
<1>. QED BY <1>8, <1>10 DEF h

\* Idle period after idle period, as its equations.
LEMMA IdleRun ==
  ASSUME NEW s \in WalkState
  PROVE  /\ IdleWalk(s) \in [Nat -> WalkState]
         /\ IdleWalk(s)[0] = s
         /\ \A k \in Nat : IdleWalk(s)[k + 1] = ZeroActivityStep(IdleWalk(s)[k])
<1>. DEFINE F == [e \in WalkState |-> ZeroActivityStep(e)]
            Eq(f) == f = [k \in Nat |-> IF k = 0 THEN s ELSE ZeroActivityStep(f[k - 1])]
<1>1. PICK g : IsRun(g, F, WalkState, s)
  <2>1. F \in [WalkState -> WalkState]
    BY IdleStepType
  <2>. HIDE DEF F, Eq
  <2>. QED BY <2>1, IteratesExist
<1>2. /\ g \in [Nat -> WalkState] /\ g[0] = s
      /\ \A k \in Nat : g[k + 1] = ZeroActivityStep(g[k])
  BY <1>1 DEF IsRun
<1>3. \A k \in Nat : g[k] = IF k = 0 THEN s ELSE ZeroActivityStep(g[k - 1])
  <2>. SUFFICES ASSUME NEW k \in Nat, k # 0 PROVE g[k] = ZeroActivityStep(g[k - 1])
    BY <1>2
  <2>1. k - 1 \in Nat /\ (k - 1) + 1 = k
    OBVIOUS
  <2>. QED BY <1>2, <2>1
<1>4. Eq(g)
  BY <1>2, <1>3
<1>5. IdleWalk(s) = CHOOSE f : Eq(f)
  BY DEF IdleWalk
<1>6. Eq(IdleWalk(s))
  <2>. HIDE DEF Eq
  <2>. QED BY <1>4, <1>5
<1>. DEFINE h == IdleWalk(s)
<1>7. h = [k \in Nat |-> IF k = 0 THEN s ELSE ZeroActivityStep(h[k - 1])]
  BY <1>6
<1>. HIDE DEF h
<1>8. h[0] = s /\ \A k \in Nat : h[k + 1] = ZeroActivityStep(h[k])
  <2>1. h[0] = s
    BY <1>7
  <2>2. ASSUME NEW k \in Nat PROVE h[k + 1] = ZeroActivityStep(h[k])
    <3>1. k + 1 \in Nat /\ k + 1 # 0 /\ (k + 1) - 1 = k
      OBVIOUS
    <3>2. h[k + 1] = ZeroActivityStep(h[(k + 1) - 1])
      BY <1>7, <3>1
    <3>. QED BY <3>1, <3>2
  <2>. QED BY <2>1, <2>2
<1>. DEFINE T == {k \in Nat : h[k] \in WalkState}
<1>9. \A k \in Nat : k \in T
  <2>1. 0 \in T
    BY <1>8
  <2>2. \A k \in Nat : k \in T => k + 1 \in T
    BY <1>8, IdleStepType
  <2>. HIDE DEF T
  <2>. QED BY <2>1, <2>2, AllNaturals
<1>10. h \in [Nat -> WalkState]
  BY <1>7, <1>9
<1>. QED BY <1>8, <1>10 DEF h

\* Periods rolled in two turns are periods rolled in one.
LEMMA RollsAdd ==
  ASSUME NEW d \in DemandFactor, NEW j \in Nat, NEW k \in Nat
  PROVE  Rolls(Rolls(d)[j])[k] = Rolls(d)[j + k]
<1>. DEFINE e == Rolls(d)[j]
            T == {i \in Nat : Rolls(e)[i] = Rolls(d)[j + i]}
<1>1. e \in DemandFactor /\ e = Rolls(d)[j]
  BY RollsRun
<1>. HIDE DEF e
<1>2. 0 \in T
  <2>1. Rolls(e)[0] = e
    BY <1>1, RollsRun
  <2>2. j + 0 = j
    OBVIOUS
  <2>. QED BY <1>1, <2>1, <2>2
<1>3. ASSUME NEW i \in Nat, i \in T PROVE i + 1 \in T
  <2>1. Rolls(e)[i + 1] = RollOnePeriod(Rolls(e)[i])
    BY <1>1, RollsRun
  <2>2. j + i \in Nat /\ (j + i) + 1 = j + (i + 1)
    OBVIOUS
  <2>3. Rolls(d)[(j + i) + 1] = RollOnePeriod(Rolls(d)[j + i])
    BY <2>2, RollsRun
  <2>. QED BY <1>3, <2>1, <2>2, <2>3
<1>4. \A i \in Nat : i \in T
  <2>. HIDE DEF T
  <2>. QED BY <1>2, <1>3, AllNaturals
<1>. QED BY <1>4 DEF e

\* The same of the idle walk.
LEMMA IdleAdd ==
  ASSUME NEW s \in WalkState, NEW j \in Nat, NEW k \in Nat
  PROVE  IdleWalk(IdleWalk(s)[j])[k] = IdleWalk(s)[j + k]
<1>. DEFINE e == IdleWalk(s)[j]
            T == {i \in Nat : IdleWalk(e)[i] = IdleWalk(s)[j + i]}
<1>1. e \in WalkState /\ e = IdleWalk(s)[j]
  BY IdleRun
<1>. HIDE DEF e
<1>2. 0 \in T
  <2>1. IdleWalk(e)[0] = e
    BY <1>1, IdleRun
  <2>2. j + 0 = j
    OBVIOUS
  <2>. QED BY <1>1, <2>1, <2>2
<1>3. ASSUME NEW i \in Nat, i \in T PROVE i + 1 \in T
  <2>1. IdleWalk(e)[i + 1] = ZeroActivityStep(IdleWalk(e)[i])
    BY <1>1, IdleRun
  <2>2. j + i \in Nat /\ (j + i) + 1 = j + (i + 1)
    OBVIOUS
  <2>3. IdleWalk(s)[(j + i) + 1] = ZeroActivityStep(IdleWalk(s)[j + i])
    BY <2>2, IdleRun
  <2>. QED BY <1>3, <2>1, <2>2, <2>3
<1>4. \A i \in Nat : i \in T
  <2>. HIDE DEF T
  <2>. QED BY <1>2, <1>3, AllNaturals
<1>. QED BY <1>4 DEF e
-----------------------------------------------------------------------------
(* A period without a sale.                                                 *)

\* A period without a sale moves the factor, the count and the fees as
\* zero_activity_step says, and writes zeros into its slot of the rings.
LEMMA IdleRoll ==
  ASSUME NEW d \in DemandFactor, d.purchases = 0, d.revenue = 0,
         NEW s \in WalkState, s.factor = d.factor, s.atMin = d.atMin
  PROVE  LET e == RollOnePeriod(d)
             t == ZeroActivityStep(s)
         IN  /\ e.factor = t.factor /\ e.atMin = t.atMin
             /\ \/ t.cuts = s.cuts /\ e.fees = d.fees
                \/ t.cuts = s.cuts + 1 /\ e.fees = UpdateFees(d.fees)
             /\ e.purchases = 0 /\ e.revenue = 0 /\ e.period = d.period + 1
             /\ e.pastPurchases = [d.pastPurchases EXCEPT ![d.period % Window] = 0]
             /\ e.pastRevenues = [d.pastRevenues EXCEPT ![d.period % Window] = 0]
<1>. DEFINE low == IF d.factor > FactorMin
                     THEN (d.factor * DownAdjustment) \div Scale ELSE d.factor
            f == Floored(d, low)
            t == ZeroActivityStep(s)
<1>1. d.factor \in Nat /\ d.atMin \in Nat /\ s.cuts \in Nat
  BY DEF DemandFactor, WalkState
<1>2. low \in Nat
  BY <1>1, PriceConstants, ScaledType
<1>3. Adjusted(d) = low
  BY DEF Adjusted, IsDemandIncreasing
<1>4. t =
        CASE low > FactorMin -> [s EXCEPT !.factor = low, !.atMin = 0]
          [] low <= FactorMin /\ s.atMin >= MaxPeriodsAtMin ->
               [factor |-> Scale, atMin |-> 0, cuts |-> s.cuts + 1]
          [] OTHER -> [s EXCEPT !.factor = FactorMin, !.atMin = @ + 1]
  BY DEF ZeroActivityStep
<1>5. f = IF low > FactorMin
            THEN [d EXCEPT !.factor = low, !.atMin = 0]
            ELSE IF d.atMin >= MaxPeriodsAtMin
                   THEN [d EXCEPT !.factor = Scale, !.atMin = 0, !.fees = UpdateFees(@)]
                   ELSE [d EXCEPT !.factor = FactorMin, !.atMin = @ + 1]
  BY DEF Floored
<1>6. RollOnePeriod(d) =
        [f EXCEPT !.pastPurchases[d.period % Window] = d.purchases,
                  !.pastRevenues[d.period % Window] = d.revenue,
                  !.purchases = 0, !.revenue = 0, !.period = @ + 1]
  BY <1>3 DEF RollOnePeriod
<1>. HIDE DEF low, f, t
<1>7. /\ f.factor = t.factor /\ f.atMin = t.atMin
      /\ \/ t.cuts = s.cuts /\ f.fees = d.fees
         \/ t.cuts = s.cuts + 1 /\ f.fees = UpdateFees(d.fees)
      /\ f.period = d.period
      /\ f.pastPurchases = d.pastPurchases /\ f.pastRevenues = d.pastRevenues
      /\ DOMAIN f = DOMAIN d
  <2>1. CASE low > FactorMin
    <3>1. t = [s EXCEPT !.factor = low, !.atMin = 0]
      BY <1>2, <1>4, <2>1, PriceConstants
    <3>2. f = [d EXCEPT !.factor = low, !.atMin = 0]
      BY <1>5, <2>1
    <3>. QED BY <3>1, <3>2 DEF WalkState, DemandFactor
  <2>2. CASE low <= FactorMin /\ s.atMin >= MaxPeriodsAtMin
    <3>1. t = [factor |-> Scale, atMin |-> 0, cuts |-> s.cuts + 1]
      BY <1>2, <1>4, <2>2, PriceConstants
    <3>2. f = [d EXCEPT !.factor = Scale, !.atMin = 0, !.fees = UpdateFees(@)]
      BY <1>2, <1>5, <2>2, PriceConstants
    <3>. QED BY <3>1, <3>2 DEF WalkState, DemandFactor
  <2>3. CASE low <= FactorMin /\ ~(s.atMin >= MaxPeriodsAtMin)
    <3>1. t = [s EXCEPT !.factor = FactorMin, !.atMin = @ + 1]
      BY <1>2, <1>4, <2>3, PriceConstants
    <3>2. f = [d EXCEPT !.factor = FactorMin, !.atMin = @ + 1]
      BY <1>2, <1>5, <2>3, PriceConstants
    <3>. QED BY <3>1, <3>2 DEF WalkState, DemandFactor
  <2>. QED BY <1>2, <2>1, <2>2, <2>3, PriceConstants
<1>8. DOMAIN d = {"factor", "period", "purchases", "revenue", "atMin",
                  "pastPurchases", "pastRevenues", "fees"}
  BY DEF DemandFactor
<1>. DEFINE e == RollOnePeriod(d)
<1>9. /\ e.factor = f.factor /\ e.atMin = f.atMin /\ e.fees = f.fees
      /\ e.purchases = 0 /\ e.revenue = 0 /\ e.period = f.period + 1
      /\ e.pastPurchases = [f.pastPurchases EXCEPT ![d.period % Window] = 0]
      /\ e.pastRevenues = [f.pastRevenues EXCEPT ![d.period % Window] = 0]
  BY <1>6, <1>7, <1>8
<1>. HIDE DEF e
<1>. QED BY <1>7, <1>9 DEF e, t

\* The remainder of a multiple and a rest is the rest.
LEMMA ModRest ==
  ASSUME NEW W \in Nat, W > 0, NEW m \in Nat, NEW i \in 0 .. W - 1
  PROVE  m * W + i \in Nat /\ (m * W + i) % W = i /\ (m * W + i) \div W = m
<1>. DEFINE x == m * W + i
<1>1. x \in Nat
  OBVIOUS
<1>. DEFINE q == x \div W
            r == x % W
<1>2. q \in Nat /\ r \in Nat /\ r < W /\ x = q * W + r
  <2>1. \A y \in Nat : /\ y \div W \in Nat /\ y % W \in Nat /\ y % W < W
                       /\ y = (y \div W) * W + (y % W)
    BY Z3
  <2>. HIDE DEF x
  <2>. QED BY <1>1, <2>1
<1>3. x = m * W + i
  OBVIOUS
<1>. HIDE DEF x, q, r
<1>4. q = m
  <2>1. CASE q < m
    <3>1. m - q \in Nat /\ m - q >= 1
      BY <1>2, <2>1
    <3>2. (m - q) * W >= W
      BY <3>1
    <3>3. (m - q) * W = m * W - q * W
      BY <1>2
    <3>. QED BY <1>2, <1>3, <3>2, <3>3
  <2>2. CASE m < q
    <3>1. q - m \in Nat /\ q - m >= 1
      BY <1>2, <2>2
    <3>2. (q - m) * W >= W
      BY <3>1
    <3>3. (q - m) * W = q * W - m * W
      BY <1>2
    <3>. QED BY <1>2, <1>3, <3>2, <3>3
  <2>. QED BY <1>2, <2>1, <2>2
<1>5. r = i
  BY <1>2, <1>3, <1>4
<1>. QED BY <1>1, <1>4, <1>5 DEF x, q, r

\* Window periods in a row take every place of the ring.
LEMMA RingCovered ==
  ASSUME NEW p \in Nat, NEW i \in Ring
  PROVE  \E j \in 0 .. Window - 1 : (p + j) % Window = i
<1>. DEFINE m == p \div Window
            q == p % Window
<1>0. Window \in Nat /\ Window > 0
  BY PriceConstants
<1>1. m \in Nat /\ q \in Nat /\ q < Window /\ p = m * Window + q
  BY <1>0, Z3
<1>2. i \in 0 .. Window - 1
  BY DEF Ring
<1>. HIDE DEF m, q
<1>3. CASE i >= q
  <2>1. i - q \in 0 .. Window - 1 /\ p + (i - q) = m * Window + i
    BY <1>0, <1>1, <1>2, <1>3
  <2>2. (m * Window + i) % Window = i
    BY <1>0, <1>1, <1>2, ModRest
  <2>. QED BY <2>1, <2>2
<1>4. CASE i < q
  <2>1. (i + Window) - q \in 0 .. Window - 1
    BY <1>0, <1>1, <1>2, <1>4
  <2>2. (m + 1) * Window = m * Window + Window
    BY <1>0, <1>1
  <2>3. p + ((i + Window) - q) = (m + 1) * Window + i
    BY <1>0, <1>1, <1>2, <2>2
  <2>4. ((m + 1) * Window + i) % Window = i
    BY <1>0, <1>1, <1>2, ModRest
  <2>. QED BY <2>1, <2>3, <2>4
<1>. QED BY <1>0, <1>1, <1>2, <1>3, <1>4
-----------------------------------------------------------------------------
(* A stretch of periods without a sale.                                     *)

\* The account e is d after k idle periods, as the walk has it at w.
Follows(e, d, w, k) ==
  /\ e.factor = w.factor /\ e.atMin = w.atMin
  /\ e.fees = FeeCuts(d.fees)[w.cuts]
  /\ e.purchases = 0 /\ e.revenue = 0 /\ e.period = d.period + k
  /\ \A j \in 0 .. k - 1 : /\ e.pastPurchases[(d.period + j) % Window] = 0
                           /\ e.pastRevenues[(d.period + j) % Window] = 0

\* The walk starts where the account is.
LEMMA IdleFromType ==
  ASSUME NEW d \in DemandFactor
  PROVE  IdleFrom(d) \in WalkState
BY DEF DemandFactor, WalkState, IdleFrom

\* One more idle period is one more step of the walk.
LEMMA FollowsStep ==
  ASSUME NEW d \in DemandFactor, NEW e \in DemandFactor, NEW w \in WalkState,
         NEW k \in Nat, Follows(e, d, w, k)
  PROVE  Follows(RollOnePeriod(e), d, ZeroActivityStep(w), k + 1)
<1>. DEFINE f == RollOnePeriod(e)
            v == ZeroActivityStep(w)
            p == e.period % Window
<1>1. /\ e.purchases = 0 /\ e.revenue = 0 /\ e.period = d.period + k
      /\ e.factor = w.factor /\ e.atMin = w.atMin /\ e.fees = FeeCuts(d.fees)[w.cuts]
  BY DEF Follows
<1>2. /\ f.factor = v.factor /\ f.atMin = v.atMin
      /\ \/ v.cuts = w.cuts /\ f.fees = e.fees
         \/ v.cuts = w.cuts + 1 /\ f.fees = UpdateFees(e.fees)
      /\ f.purchases = 0 /\ f.revenue = 0 /\ f.period = e.period + 1
      /\ f.pastPurchases = [e.pastPurchases EXCEPT ![p] = 0]
      /\ f.pastRevenues = [e.pastRevenues EXCEPT ![p] = 0]
  BY <1>1, IdleRoll
<1>. HIDE DEF f, v
<1>3. d.fees \in FeeTable /\ d.period \in Nat /\ w.cuts \in Nat
      /\ e.pastPurchases \in [Ring -> Nat] /\ e.pastRevenues \in [Ring -> Nat]
  BY DEF DemandFactor, WalkState, FeeTable
<1>4. f.fees = FeeCuts(d.fees)[v.cuts]
  <2>1. FeeCuts(d.fees)[w.cuts + 1] = UpdateFees(FeeCuts(d.fees)[w.cuts])
    BY <1>3, FeeCutsRun
  <2>2. CASE v.cuts = w.cuts /\ f.fees = e.fees
    BY <1>1, <2>2
  <2>3. CASE v.cuts = w.cuts + 1 /\ f.fees = UpdateFees(e.fees)
    BY <1>1, <2>1, <2>3
  <2>. QED BY <1>2, <2>2, <2>3
<1>5. f.period = d.period + (k + 1)
  BY <1>1, <1>2, <1>3
<1>6. ASSUME NEW j \in 0 .. (k + 1) - 1
      PROVE  /\ f.pastPurchases[(d.period + j) % Window] = 0
             /\ f.pastRevenues[(d.period + j) % Window] = 0
  <2>. DEFINE i == (d.period + j) % Window
  <2>1. i \in Ring /\ p \in Ring
    <3>1. d.period + j \in Nat /\ e.period \in Nat
      BY <1>1, <1>3
    <3>. QED BY <3>1, RingType
  <2>2. i = p \/ (e.pastPurchases[i] = 0 /\ e.pastRevenues[i] = 0)
    <3>1. CASE j = k
      BY <1>1, <3>1
    <3>2. CASE j # k
      <4>1. j \in 0 .. k - 1
        BY <3>2
      <4>. QED BY <4>1 DEF Follows
    <3>. QED BY <3>1, <3>2
  <2>. HIDE DEF i, p
  <2>3. f.pastPurchases[i] = 0 /\ f.pastRevenues[i] = 0
    BY <1>2, <1>3, <2>1, <2>2
  <2>. QED BY <2>3 DEF i
<1>7. Follows(f, d, v, k + 1)
  BY <1>2, <1>4, <1>5, <1>6 DEF Follows
<1>. QED BY <1>7 DEF f, v

\* Any number of idle periods, rolled one by one, follow the walk.
LEMMA RollsFollow ==
  ASSUME NEW d \in DemandFactor, d.purchases = 0, d.revenue = 0, NEW n \in Nat
  PROVE  Follows(Rolls(d)[n], d, IdleWalk(IdleFrom(d))[n], n)
<1>. DEFINE s == IdleFrom(d)
            T == {k \in Nat : Follows(Rolls(d)[k], d, IdleWalk(s)[k], k)}
<1>1. s \in WalkState
  BY IdleFromType
<1>2. 0 \in T
  <2>1. Rolls(d)[0] = d /\ IdleWalk(s)[0] = s
    BY <1>1, RollsRun, IdleRun
  <2>2. d.fees \in FeeTable /\ d.period \in Nat
    BY DEF DemandFactor, FeeTable
  <2>3. FeeCuts(d.fees)[0] = d.fees
    BY <2>2, FeeCutsRun
  <2>4. Follows(d, d, s, 0)
    BY <2>2, <2>3 DEF Follows, IdleFrom
  <2>. QED BY <2>1, <2>4
<1>. HIDE DEF s
<1>3. ASSUME NEW k \in Nat, k \in T PROVE k + 1 \in T
  <2>1. /\ Rolls(d)[k + 1] = RollOnePeriod(Rolls(d)[k])
        /\ Rolls(d)[k] \in DemandFactor
    BY RollsRun
  <2>2. /\ IdleWalk(s)[k + 1] = ZeroActivityStep(IdleWalk(s)[k])
        /\ IdleWalk(s)[k] \in WalkState
    BY <1>1, IdleRun
  <2>3. Follows(Rolls(d)[k], d, IdleWalk(s)[k], k)
    BY <1>3
  <2>4. Follows(RollOnePeriod(Rolls(d)[k]), d, ZeroActivityStep(IdleWalk(s)[k]), k + 1)
    BY <2>1, <2>2, <2>3, FollowsStep
  <2>. QED BY <2>1, <2>2, <2>4
<1>4. \A k \in Nat : k \in T
  <2>. HIDE DEF T
  <2>. QED BY <1>2, <1>3, AllNaturals
<1>. QED BY <1>4 DEF s

-----------------------------------------------------------------------------
(* The walk is periodic.                                                    *)

MoreCuts(s, c) == [factor |-> s.factor, atMin |-> s.atMin, cuts |-> s.cuts + c]

\* How many cuts were made before plays no part in the walk.
LEMMA IdleStepShift ==
  ASSUME NEW s \in WalkState, NEW c \in Nat
  PROVE  /\ MoreCuts(s, c) \in WalkState
         /\ ZeroActivityStep(MoreCuts(s, c)) = MoreCuts(ZeroActivityStep(s), c)
<1>. DEFINE m == MoreCuts(s, c)
            low == Decayed(s.factor)
<1>1. s.factor \in Nat /\ s.atMin \in Nat /\ s.cuts \in Nat
  BY DEF WalkState
<1>2. m.factor = s.factor /\ m.atMin = s.atMin /\ m.cuts = s.cuts + c
  BY DEF MoreCuts
<1>3. m \in WalkState
  BY <1>1 DEF WalkState, MoreCuts
<1>. HIDE DEF m
<1>. DEFINE t == ZeroActivityStep(s)
            u == ZeroActivityStep(m)
<1>4. /\ low \in Nat
      /\ \/ /\ low > FactorMin
            /\ t = [factor |-> low, atMin |-> 0, cuts |-> s.cuts]
         \/ /\ low <= FactorMin /\ s.atMin >= MaxPeriodsAtMin
            /\ t = [factor |-> Scale, atMin |-> 0, cuts |-> s.cuts + 1]
         \/ /\ low <= FactorMin /\ ~(s.atMin >= MaxPeriodsAtMin)
            /\ t = [factor |-> FactorMin, atMin |-> s.atMin + 1, cuts |-> s.cuts]
  BY IdleStepIs
<1>5. \/ /\ low > FactorMin
         /\ u = [factor |-> low, atMin |-> 0, cuts |-> s.cuts + c]
      \/ /\ low <= FactorMin /\ s.atMin >= MaxPeriodsAtMin
         /\ u = [factor |-> Scale, atMin |-> 0, cuts |-> (s.cuts + c) + 1]
      \/ /\ low <= FactorMin /\ ~(s.atMin >= MaxPeriodsAtMin)
         /\ u = [factor |-> FactorMin, atMin |-> s.atMin + 1, cuts |-> s.cuts + c]
  BY <1>2, <1>3, IdleStepIs
<1>. HIDE DEF low, t, u
<1>6. u = MoreCuts(t, c)
  <2>1. (s.cuts + c) + 1 = (s.cuts + 1) + c
    BY <1>1
  <2>2. CASE low > FactorMin
    <3>1. /\ t = [factor |-> low, atMin |-> 0, cuts |-> s.cuts]
          /\ u = [factor |-> low, atMin |-> 0, cuts |-> s.cuts + c]
      BY <1>4, <1>5, <2>2, PriceConstants
    <3>. QED BY <3>1 DEF MoreCuts
  <2>3. CASE low <= FactorMin /\ s.atMin >= MaxPeriodsAtMin
    <3>1. /\ t = [factor |-> Scale, atMin |-> 0, cuts |-> s.cuts + 1]
          /\ u = [factor |-> Scale, atMin |-> 0, cuts |-> (s.cuts + c) + 1]
      BY <1>4, <1>5, <2>3, PriceConstants
    <3>. QED BY <2>1, <3>1 DEF MoreCuts
  <2>4. CASE low <= FactorMin /\ ~(s.atMin >= MaxPeriodsAtMin)
    <3>1. /\ t = [factor |-> FactorMin, atMin |-> s.atMin + 1, cuts |-> s.cuts]
          /\ u = [factor |-> FactorMin, atMin |-> s.atMin + 1, cuts |-> s.cuts + c]
      BY <1>4, <1>5, <2>4, PriceConstants
    <3>. QED BY <3>1 DEF MoreCuts
  <2>. QED BY <1>4, <2>2, <2>3, <2>4, PriceConstants
<1>. QED BY <1>3, <1>6 DEF m, t, u

\* Nor in any number of its steps.
LEMMA IdleShift ==
  ASSUME NEW s \in WalkState, NEW c \in Nat, NEW k \in Nat
  PROVE  IdleWalk(MoreCuts(s, c))[k] = MoreCuts(IdleWalk(s)[k], c)
<1>. DEFINE m == MoreCuts(s, c)
            T == {i \in Nat : IdleWalk(m)[i] = MoreCuts(IdleWalk(s)[i], c)}
<1>1. m \in WalkState /\ m = MoreCuts(s, c)
  BY IdleStepShift
<1>. HIDE DEF m
<1>2. 0 \in T
  <2>1. IdleWalk(m)[0] = m
    BY <1>1, IdleRun
  <2>2. IdleWalk(s)[0] = s
    BY IdleRun
  <2>. QED BY <1>1, <2>1, <2>2
<1>3. ASSUME NEW i \in Nat, i \in T PROVE i + 1 \in T
  <2>1. IdleWalk(m)[i + 1] = ZeroActivityStep(IdleWalk(m)[i])
    BY <1>1, IdleRun
  <2>2. /\ IdleWalk(s)[i + 1] = ZeroActivityStep(IdleWalk(s)[i])
        /\ IdleWalk(s)[i] \in WalkState
    BY IdleRun
  <2>3. IdleWalk(m)[i] = MoreCuts(IdleWalk(s)[i], c)
    BY <1>3
  <2>4. ZeroActivityStep(MoreCuts(IdleWalk(s)[i], c))
          = MoreCuts(ZeroActivityStep(IdleWalk(s)[i]), c)
    BY <2>2, IdleStepShift
  <2>. QED BY <2>1, <2>2, <2>3, <2>4
<1>4. \A i \in Nat : i \in T
  <2>. HIDE DEF T
  <2>. QED BY <1>2, <1>3, AllNaturals
<1>. QED BY <1>4 DEF m
-----------------------------------------------------------------------------
(* The length of a cycle.                                                   *)

Boundary == [factor |-> Scale, atMin |-> 0, cuts |-> 0]
CycleState == [factor : Nat, atMin : Nat, cuts : 0 .. 1]

\* The walk from s makes its first cut in its k-th step.
FirstCut(s, k) ==
  IdleWalk(s)[k].cuts = 1 /\ \A j \in 0 .. k - 1 : IdleWalk(s)[j].cuts = 0

\* A bound on the idle periods before the next cut: down to the floor, where
\* the factor waits for MaxPeriodsAtMin periods.
Distance(s) ==
  IF s.factor > FactorMin
    THEN (s.factor - FactorMin) + MaxPeriodsAtMin + 2
    ELSE 1 + (IF s.atMin < MaxPeriodsAtMin THEN MaxPeriodsAtMin - s.atMin ELSE 0)

LEMMA BoundaryType == Boundary \in CycleState /\ Boundary \in WalkState
BY PriceConstants DEF Boundary, CycleState, WalkState

\* The factor falls while it is above the floor.
LEMMA DecayFalls ==
  ASSUME NEW x \in Nat, x > FactorMin
  PROVE  Decayed(x) \in Nat /\ Decayed(x) < x
<1>1. Decayed(x) = (x * DownAdjustment) \div Scale
  BY DEF Decayed
<1>2. x * DownAdjustment \in Nat /\ x >= 1
  BY PriceConstants
<1>3. x * DownAdjustment < x * Scale
  <2>1. Scale - DownAdjustment \in Nat /\ Scale - DownAdjustment >= 1
    BY PriceConstants
  <2>2. x * (Scale - DownAdjustment) >= x
    BY <2>1
  <2>3. x * (Scale - DownAdjustment) = x * Scale - x * DownAdjustment
    BY PriceConstants
  <2>4. x * Scale \in Nat
    BY PriceConstants
  <2>. QED BY <1>2, <2>2, <2>3, <2>4
<1>4. \A y \in Nat : y \div Scale \in Nat /\ (y \div Scale) * Scale <= y
  BY PriceConstants, Z3
<1>. DEFINE q == (x * DownAdjustment) \div Scale
<1>5. q \in Nat /\ q * Scale < x * Scale
  <2>1. q \in Nat /\ q * Scale <= x * DownAdjustment
    BY <1>2, <1>4
  <2>. HIDE DEF q
  <2>2. q * Scale \in Nat /\ x * Scale \in Nat
    BY <2>1, PriceConstants
  <2>. QED BY <1>2, <1>3, <2>1, <2>2
<1>. HIDE DEF q
<1>6. q < x
  <2>. SUFFICES ASSUME q >= x PROVE FALSE
    BY <1>5
  <2>1. (q - x) * Scale >= 0
    BY <1>5, PriceConstants
  <2>2. (q - x) * Scale = q * Scale - x * Scale
    BY <1>5, PriceConstants
  <2>3. q * Scale \in Nat /\ x * Scale \in Nat
    BY <1>5, PriceConstants
  <2>. QED BY <1>5, <2>1, <2>2, <2>3
<1>. QED BY <1>1, <1>5, <1>6 DEF q

\* Every idle period cuts the fees or comes nearer to the next cut.
LEMMA DistanceFalls ==
  ASSUME NEW s \in CycleState, s.cuts = 0
  PROVE  LET t == ZeroActivityStep(s)
         IN  /\ t \in CycleState /\ Distance(s) \in Nat /\ Distance(s) >= 1
             /\ t.cuts = 0 => Distance(t) \in Nat /\ Distance(t) < Distance(s)
<1>. DEFINE low == Decayed(s.factor)
            t == ZeroActivityStep(s)
<1>1. s.factor \in Nat /\ s.atMin \in Nat /\ s \in WalkState
  BY DEF CycleState, WalkState
<1>2. /\ low \in Nat
      /\ \/ /\ low > FactorMin
            /\ t = [factor |-> low, atMin |-> 0, cuts |-> s.cuts]
         \/ /\ low <= FactorMin /\ s.atMin >= MaxPeriodsAtMin
            /\ t = [factor |-> Scale, atMin |-> 0, cuts |-> s.cuts + 1]
         \/ /\ low <= FactorMin /\ ~(s.atMin >= MaxPeriodsAtMin)
            /\ t = [factor |-> FactorMin, atMin |-> s.atMin + 1, cuts |-> s.cuts]
  BY <1>1, IdleStepIs
<1>3. s.factor > FactorMin => low < s.factor
  BY <1>1, DecayFalls
<1>4. s.factor <= FactorMin => low = s.factor
  BY <1>1, PriceConstants DEF Decayed
<1>. HIDE DEF low, t
<1>5. Distance(s) \in Nat /\ Distance(s) >= 1
  BY <1>1, PriceConstants DEF Distance
<1>6. CASE low > FactorMin
  <2>1. t = [factor |-> low, atMin |-> 0, cuts |-> 0]
    BY <1>2, <1>6, PriceConstants
  <2>2. t \in CycleState
    BY <1>2, <2>1 DEF CycleState
  <2>3. s.factor > FactorMin
    BY <1>1, <1>4, <1>6, PriceConstants
  <2>4. Distance(t) = (low - FactorMin) + MaxPeriodsAtMin + 2
    BY <1>6, <2>1 DEF Distance
  <2>5. Distance(s) = (s.factor - FactorMin) + MaxPeriodsAtMin + 2
    BY <2>3 DEF Distance
  <2>6. Distance(t) \in Nat /\ Distance(t) < Distance(s)
    BY <1>1, <1>2, <1>3, <1>6, <2>3, <2>4, <2>5, PriceConstants
  <2>. QED BY <1>5, <2>2, <2>6 DEF t
<1>7. CASE low <= FactorMin /\ s.atMin >= MaxPeriodsAtMin
  <2>1. t = [factor |-> Scale, atMin |-> 0, cuts |-> 1]
    BY <1>2, <1>7, PriceConstants
  <2>2. t \in CycleState /\ t.cuts = 1
    BY <2>1, PriceConstants DEF CycleState
  <2>. QED BY <1>5, <2>2 DEF t
<1>8. CASE low <= FactorMin /\ ~(s.atMin >= MaxPeriodsAtMin)
  <2>1. t = [factor |-> FactorMin, atMin |-> s.atMin + 1, cuts |-> 0]
    BY <1>2, <1>8, PriceConstants
  <2>2. t \in CycleState
    BY <1>1, <2>1, PriceConstants DEF CycleState
  <2>3. Distance(t) = 1 + (IF s.atMin + 1 < MaxPeriodsAtMin
                             THEN MaxPeriodsAtMin - (s.atMin + 1) ELSE 0)
    BY <2>1, PriceConstants DEF Distance
  <2>4. Distance(t) \in Nat /\ Distance(t) < Distance(s)
    <3>1. CASE s.factor > FactorMin
      <4>1. Distance(s) = (s.factor - FactorMin) + MaxPeriodsAtMin + 2
        BY <3>1 DEF Distance
      <4>. QED BY <1>1, <3>1, <4>1, <2>3, PriceConstants
    <3>2. CASE ~(s.factor > FactorMin)
      <4>1. Distance(s) = 1 + (MaxPeriodsAtMin - s.atMin)
        BY <1>1, <1>8, <3>2, PriceConstants DEF Distance
      <4>. QED BY <1>1, <1>8, <4>1, <2>3, PriceConstants
    <3>. QED BY <3>1, <3>2
  <2>. QED BY <1>5, <2>2, <2>4 DEF t
<1>. QED BY <1>1, <1>2, <1>6, <1>7, <1>8, PriceConstants

\* The first cut after s is one later than the first cut after the next state.
LEMMA FirstCutLater ==
  ASSUME NEW s \in CycleState, s.cuts = 0, NEW k \in Nat
  PROVE  FirstCut(s, k + 1) <=> FirstCut(ZeroActivityStep(s), k)
<1>. DEFINE t == ZeroActivityStep(s)
<1>1. s \in WalkState /\ t \in WalkState
  BY IdleStepType DEF CycleState, WalkState
<1>2. IdleWalk(s)[0] = s /\ IdleWalk(s)[1] = t
  <2>1. IdleWalk(s)[0] = s /\ IdleWalk(s)[0 + 1] = ZeroActivityStep(IdleWalk(s)[0])
    BY <1>1, IdleRun
  <2>. QED BY <2>1
<1>. HIDE DEF t
<1>3. ASSUME NEW i \in Nat PROVE IdleWalk(s)[i + 1] = IdleWalk(t)[i]
  <2>. DEFINE one == 1
  <2>0. one \in Nat
    OBVIOUS
  <2>. HIDE DEF one
  <2>a. IdleWalk(IdleWalk(s)[one])[i] = IdleWalk(s)[one + i]
    BY <1>1, <2>0, IdleAdd
  <2>1. IdleWalk(IdleWalk(s)[1])[i] = IdleWalk(s)[1 + i]
    BY <2>a DEF one
  <2>2. 1 + i = i + 1
    OBVIOUS
  <2>. QED BY <1>2, <2>1, <2>2
<1>4. ASSUME FirstCut(s, k + 1) PROVE FirstCut(t, k)
  <2>1. IdleWalk(t)[k].cuts = 1
    BY <1>3, <1>4 DEF FirstCut
  <2>2. ASSUME NEW j \in 0 .. k - 1 PROVE IdleWalk(t)[j].cuts = 0
    <3>1. j \in Nat /\ j + 1 \in 0 .. (k + 1) - 1
      OBVIOUS
    <3>2. IdleWalk(s)[j + 1].cuts = 0
      BY <1>4, <3>1 DEF FirstCut
    <3>. QED BY <1>3, <3>1, <3>2
  <2>. QED BY <2>1, <2>2 DEF FirstCut
<1>5. ASSUME FirstCut(t, k) PROVE FirstCut(s, k + 1)
  <2>1. IdleWalk(s)[k + 1].cuts = 1
    BY <1>3, <1>5 DEF FirstCut
  <2>2. ASSUME NEW j \in 0 .. (k + 1) - 1 PROVE IdleWalk(s)[j].cuts = 0
    <3>1. CASE j = 0
      BY <1>2, <3>1
    <3>2. CASE j # 0
      <4>1. j - 1 \in 0 .. k - 1 /\ j - 1 \in Nat /\ (j - 1) + 1 = j
        BY <3>2
      <4>2. IdleWalk(t)[j - 1].cuts = 0
        BY <1>5, <4>1 DEF FirstCut
      <4>3. IdleWalk(s)[(j - 1) + 1] = IdleWalk(t)[j - 1]
        BY <1>3, <4>1
      <4>. QED BY <4>1, <4>2, <4>3
    <3>. QED BY <3>1, <3>2
  <2>. QED BY <2>1, <2>2 DEF FirstCut
<1>. QED BY <1>4, <1>5 DEF t

\* At a state that has made the cut nothing is left to walk.
LEMMA FirstCutNow ==
  ASSUME NEW s \in CycleState
  PROVE  FirstCut(s, 0) <=> s.cuts = 1
<1>1. s \in WalkState
  BY DEF CycleState, WalkState
<1>2. IdleWalk(s)[0] = s
  BY <1>1, IdleRun
<1>. QED BY <1>2 DEF FirstCut

\* The factor lies at its floor for too long after finitely many idle periods.
LEMMA FirstCutComes ==
  ASSUME NEW s \in CycleState
  PROVE  \E k \in Nat : FirstCut(s, k)
<1>. DEFINE T == {m \in Nat : \A r \in CycleState :
                    r.cuts = 0 /\ Distance(r) <= m => \E k \in Nat : FirstCut(r, k)}
<1>1. 0 \in T
  <2>. SUFFICES ASSUME NEW r \in CycleState, r.cuts = 0, Distance(r) <= 0 PROVE FALSE
    OBVIOUS
  <2>. QED BY DistanceFalls
<1>2. ASSUME NEW m \in Nat, m \in T PROVE m + 1 \in T
  <2>. SUFFICES ASSUME NEW r \in CycleState, r.cuts = 0, Distance(r) <= m + 1
                PROVE  \E k \in Nat : FirstCut(r, k)
    OBVIOUS
  <2>. DEFINE t == ZeroActivityStep(r)
  <2>1. /\ t \in CycleState /\ Distance(r) \in Nat
        /\ t.cuts = 0 => Distance(t) \in Nat /\ Distance(t) < Distance(r)
    BY DistanceFalls
  <2>2. \E k \in Nat : FirstCut(t, k)
    <3>1. CASE t.cuts = 0
      <4>1. Distance(t) <= m
        BY <2>1, <3>1
      <4>. QED BY <1>2, <2>1, <3>1, <4>1
    <3>2. CASE t.cuts = 1
      <4>1. FirstCut(t, 0)
        BY <2>1, <3>2, FirstCutNow
      <4>. QED BY <4>1
    <3>3. t.cuts = 0 \/ t.cuts = 1
      BY <2>1 DEF CycleState
    <3>. QED BY <3>1, <3>2, <3>3
  <2>3. PICK k \in Nat : FirstCut(t, k)
    BY <2>2
  <2>4. FirstCut(r, k + 1)
    BY <2>3, FirstCutLater
  <2>. QED BY <2>4
<1>3. \A m \in Nat : m \in T
  <2>. HIDE DEF T
  <2>. QED BY <1>1, <1>2, AllNaturals
<1>4. CASE s.cuts = 0
  <2>1. Distance(s) \in Nat
    BY <1>4, DistanceFalls
  <2>2. Distance(s) \in T /\ Distance(s) <= Distance(s)
    BY <1>3, <2>1
  <2>. QED BY <1>4, <2>2
<1>5. CASE s.cuts = 1
  BY <1>5, FirstCutNow
<1>6. s.cuts = 0 \/ s.cuts = 1
  BY DEF CycleState
<1>. QED BY <1>4, <1>5, <1>6

\* The recursion of zero_activity_cycle_length.
CountsSteps(f) ==
  f = [s \in CycleState |-> IF s.cuts = 1 THEN 0 ELSE 1 + f[ZeroActivityStep(s)]]

\* Whatever counts its steps counts them up to the first cut.
LEMMA StepsCounted ==
  ASSUME NEW f, CountsSteps(f), NEW s \in CycleState, NEW k \in Nat, FirstCut(s, k)
  PROVE  f[s] = k
<1>. DEFINE T == {i \in Nat : \A r \in CycleState : FirstCut(r, i) => f[r] = i}
<1>0. \A r \in CycleState : f[r] = IF r.cuts = 1 THEN 0 ELSE 1 + f[ZeroActivityStep(r)]
  BY DEF CountsSteps
<1>1. 0 \in T
  BY <1>0, FirstCutNow
<1>2. ASSUME NEW i \in Nat, i \in T PROVE i + 1 \in T
  <2>. SUFFICES ASSUME NEW r \in CycleState, FirstCut(r, i + 1) PROVE f[r] = i + 1
    OBVIOUS
  <2>1. r.cuts = 0
    <3>1. r \in WalkState
      BY DEF CycleState, WalkState
    <3>2. 0 \in 0 .. (i + 1) - 1
      OBVIOUS
    <3>3. IdleWalk(r)[0].cuts = 0
      BY <3>2 DEF FirstCut
    <3>. QED BY <3>1, <3>3, IdleRun
  <2>2. ZeroActivityStep(r) \in CycleState
    BY <2>1, DistanceFalls
  <2>3. FirstCut(ZeroActivityStep(r), i)
    BY <2>1, FirstCutLater
  <2>4. f[ZeroActivityStep(r)] = i
    BY <1>2, <2>2, <2>3
  <2>. QED BY <1>0, <2>1, <2>4
<1>3. \A i \in Nat : i \in T
  <2>. HIDE DEF T
  <2>. QED BY <1>1, <1>2, AllNaturals
<1>. QED BY <1>3

\* zero_activity_cycle_length returns the periods from a cut to the next.
LEMMA CycleIs ==
  /\ CycleLength \in Nat /\ CycleLength > 0
  /\ IdleWalk(Boundary)[CycleLength] = [factor |-> Scale, atMin |-> 0, cuts |-> 1]
<1>. DEFINE L(s) == CHOOSE k \in Nat : FirstCut(s, k)
            g == [s \in CycleState |-> L(s)]
            h == CHOOSE f : CountsSteps(f)
<1>1. ASSUME NEW s \in CycleState PROVE L(s) \in Nat /\ FirstCut(s, L(s))
  BY FirstCutComes
<1>2. ASSUME NEW s \in CycleState, NEW k \in Nat, NEW l \in Nat,
             FirstCut(s, k), FirstCut(s, l)
      PROVE  k = l
  <2>1. CASE k < l
    <3>1. k \in 0 .. l - 1
      BY <2>1
    <3>. QED BY <1>2, <3>1 DEF FirstCut
  <2>2. CASE l < k
    <3>1. l \in 0 .. k - 1
      BY <2>2
    <3>. QED BY <1>2, <3>1 DEF FirstCut
  <2>. QED BY <2>1, <2>2
<1>. HIDE DEF L
<1>3. ASSUME NEW s \in CycleState
      PROVE  g[s] = IF s.cuts = 1 THEN 0 ELSE 1 + g[ZeroActivityStep(s)]
  <2>1. CASE s.cuts = 1
    <3>1. FirstCut(s, 0)
      BY <2>1, FirstCutNow
    <3>2. L(s) = 0
      BY <1>1, <1>2, <3>1
    <3>. QED BY <2>1, <3>2
  <2>2. CASE s.cuts = 0
    <3>. DEFINE t == ZeroActivityStep(s)
    <3>1. t \in CycleState
      BY <2>2, DistanceFalls
    <3>2. L(t) \in Nat /\ FirstCut(t, L(t))
      BY <1>1, <3>1
    <3>3. FirstCut(s, L(t) + 1)
      BY <2>2, <3>2, FirstCutLater
    <3>4. L(s) = L(t) + 1
      BY <1>1, <1>2, <3>2, <3>3
    <3>5. g[t] = L(t) /\ g[s] = L(s)
      BY <3>1
    <3>. QED BY <2>2, <3>2, <3>4, <3>5
  <2>3. s.cuts = 0 \/ s.cuts = 1
    BY DEF CycleState
  <2>. QED BY <2>1, <2>2, <2>3
<1>4. CountsSteps(g)
  <2>1. \A s \in CycleState : g[s] = IF s.cuts = 1 THEN 0 ELSE 1 + g[ZeroActivityStep(s)]
    BY <1>3
  <2>2. g = [s \in CycleState |-> g[s]]
    OBVIOUS
  <2>. HIDE DEF g
  <2>. QED BY <2>1, <2>2 DEF CountsSteps
<1>5. CountsSteps(h)
  <2>. HIDE DEF g
  <2>. QED BY <1>4
<1>6. CycleLength = h[Boundary]
  BY DEF CycleLength, CountsSteps, CycleState, Boundary
<1>. HIDE DEF h, g
<1>. DEFINE k == L(Boundary)
<1>7. k \in Nat /\ FirstCut(Boundary, k)
  BY <1>1, BoundaryType
<1>8. CycleLength = k
  BY <1>5, <1>6, <1>7, StepsCounted, BoundaryType
<1>. HIDE DEF k
<1>9. k # 0
  BY <1>7, FirstCutNow, BoundaryType DEF Boundary
<1>. DEFINE w == IdleWalk(Boundary)[k - 1]
<1>10. w \in WalkState /\ w.cuts = 0 /\ IdleWalk(Boundary)[k] = ZeroActivityStep(w)
  <2>1. k - 1 \in Nat /\ k - 1 \in 0 .. k - 1 /\ (k - 1) + 1 = k
    BY <1>7, <1>9
  <2>2. w \in WalkState /\ IdleWalk(Boundary)[(k - 1) + 1] = ZeroActivityStep(w)
    BY <2>1, IdleRun, BoundaryType
  <2>3. w.cuts = 0
    BY <1>7, <2>1 DEF FirstCut
  <2>. QED BY <2>1, <2>2, <2>3
<1>11. ZeroActivityStep(w).cuts = 1
  BY <1>7, <1>10 DEF FirstCut
<1>. HIDE DEF w
<1>12. ZeroActivityStep(w) = [factor |-> Scale, atMin |-> 0, cuts |-> 1]
  BY <1>10, <1>11, IdleStepIs
<1>. QED BY <1>7, <1>8, <1>9, <1>10, <1>12
-----------------------------------------------------------------------------
(* The closed form.                                                         *)

\* Cuts made earlier add up.
LEMMA MoreCutsAdd ==
  ASSUME NEW s \in WalkState, NEW b \in Nat, NEW c \in Nat
  PROVE  MoreCuts(MoreCuts(s, b), c) = MoreCuts(s, b + c) /\ MoreCuts(s, 0) = s
<1>1. s.cuts \in Nat /\ s = [factor |-> s.factor, atMin |-> s.atMin, cuts |-> s.cuts]
  BY DEF WalkState
<1>2. (s.cuts + b) + c = s.cuts + (b + c) /\ s.cuts + 0 = s.cuts
  BY <1>1
<1>. QED BY <1>1, <1>2 DEF MoreCuts

\* Whole cycles only cut the fees, once each.
LEMMA WholeCycles ==
  ASSUME NEW q \in Nat
  PROVE  IdleWalk(Boundary)[q * CycleLength] = MoreCuts(Boundary, q)
<1>. DEFINE L == CycleLength
            T == {i \in Nat : IdleWalk(Boundary)[i * L] = MoreCuts(Boundary, i)}
<1>1. L \in Nat /\ IdleWalk(Boundary)[L] = MoreCuts(Boundary, 1)
  BY CycleIs DEF MoreCuts, Boundary
<1>. HIDE DEF L
<1>2. 0 \in T
  <2>1. 0 * L = 0 /\ 0 \in Nat
    BY <1>1
  <2>2. IdleWalk(Boundary)[0] = Boundary
    BY IdleRun, BoundaryType
  <2>3. MoreCuts(Boundary, 0) = Boundary
    BY MoreCutsAdd, BoundaryType
  <2>. QED BY <2>1, <2>2, <2>3
<1>3. ASSUME NEW i \in Nat, i \in T PROVE i + 1 \in T
  <2>1. i * L \in Nat /\ (i + 1) * L = i * L + L
    BY <1>1
  <2>2. IdleWalk(IdleWalk(Boundary)[i * L])[L] = IdleWalk(Boundary)[i * L + L]
    BY <1>1, <2>1, IdleAdd, BoundaryType
  <2>3. IdleWalk(Boundary)[i * L] = MoreCuts(Boundary, i)
    BY <1>3
  <2>4. IdleWalk(MoreCuts(Boundary, i))[L] = MoreCuts(IdleWalk(Boundary)[L], i)
    BY <1>1, IdleShift, BoundaryType
  <2>5. MoreCuts(MoreCuts(Boundary, 1), i) = MoreCuts(Boundary, i + 1)
    <3>1. 1 + i = i + 1 /\ 1 \in Nat
      OBVIOUS
    <3>2. \A b, c \in Nat : MoreCuts(MoreCuts(Boundary, b), c) = MoreCuts(Boundary, b + c)
      BY MoreCutsAdd, BoundaryType
    <3>3. MoreCuts(MoreCuts(Boundary, 1), i) = MoreCuts(Boundary, 1 + i)
      BY <3>1, <3>2
    <3>. QED BY <3>1, <3>3
  <2>. QED BY <1>1, <2>1, <2>2, <2>3, <2>4, <2>5
<1>4. \A i \in Nat : i \in T
  <2>. HIDE DEF T
  <2>. QED BY <1>2, <1>3, AllNaturals
<1>. QED BY <1>4 DEF L

\* From a boundary on, the walk is its remainder with a cut for each cycle.
LEMMA WalkFromBoundary ==
  ASSUME NEW w \in WalkState, AtBoundary(w), NEW n \in Nat
  PROVE  /\ n % CycleLength \in Nat /\ n \div CycleLength \in Nat
         /\ IdleWalk(w)[n] = MoreCuts(IdleWalk(w)[n % CycleLength], n \div CycleLength)
<1>. DEFINE L == CycleLength
            q == n \div L
            r == n % L
            c == w.cuts
<1>0. L \in Nat /\ L > 0
  BY CycleIs
<1>1. q \in Nat /\ r \in Nat /\ n = q * L + r
  <2>. HIDE DEF L
  <2>. QED BY <1>0, Z3
<1>2. c \in Nat /\ w = MoreCuts(Boundary, c)
  BY DEF WalkState, AtBoundary, MoreCuts, Boundary
<1>. HIDE DEF q, r, c
<1>3. IdleWalk(Boundary)[q * L] = MoreCuts(Boundary, q)
  BY <1>1, WholeCycles
<1>. HIDE DEF L
<1>4. q * L \in Nat
  BY <1>0, <1>1
<1>5. IdleWalk(Boundary)[q * L + r] = IdleWalk(MoreCuts(Boundary, q))[r]
  <2>1. \A j, k \in Nat : IdleWalk(IdleWalk(Boundary)[j])[k] = IdleWalk(Boundary)[j + k]
    BY IdleAdd, BoundaryType
  <2>2. IdleWalk(IdleWalk(Boundary)[q * L])[r] = IdleWalk(Boundary)[q * L + r]
    BY <1>1, <1>4, <2>1
  <2>. QED BY <1>3, <2>2
<1>. DEFINE v == IdleWalk(Boundary)[r]
<1>6. v \in WalkState
  BY <1>1, IdleRun, BoundaryType
<1>7. IdleWalk(MoreCuts(Boundary, q))[r] = MoreCuts(v, q)
  BY <1>1, IdleShift, BoundaryType
<1>8. IdleWalk(w)[n] = MoreCuts(IdleWalk(Boundary)[n], c)
  BY <1>2, IdleShift, BoundaryType
<1>9. IdleWalk(w)[r] = MoreCuts(v, c)
  BY <1>1, <1>2, IdleShift, BoundaryType
<1>. HIDE DEF v
<1>10. IdleWalk(w)[n] = MoreCuts(MoreCuts(v, q), c)
  BY <1>1, <1>5, <1>7, <1>8
<1>11. MoreCuts(MoreCuts(v, q), c) = MoreCuts(MoreCuts(v, c), q)
  <2>1. q + c = c + q
    BY <1>1, <1>2
  <2>2. /\ MoreCuts(MoreCuts(v, q), c) = MoreCuts(v, q + c)
        /\ MoreCuts(MoreCuts(v, c), q) = MoreCuts(v, c + q)
    BY <1>1, <1>2, <1>6, MoreCutsAdd
  <2>. QED BY <2>1, <2>2
<1>12. IdleWalk(w)[n] = MoreCuts(IdleWalk(w)[r], q)
  BY <1>9, <1>10, <1>11
<1>. QED BY <1>1, <1>12 DEF L, q, r

(***************************************************************************)
(* advance_zero_activity_periods is the loop it stands for: from an        *)
(* account without activity and over more than Window periods, its steps   *)
(* to the next cycle boundary, whole cycles at once and remainder leave    *)
(* what rolling the periods one by one leaves, for every fee table, every  *)
(* factor and every number of periods.                                     *)
(***************************************************************************)
THEOREM ClosedFormIsTheLoop ==
  ASSUME NEW d \in DemandFactor, d.purchases = 0, d.revenue = 0,
         NEW n \in Nat, n >= Window
  PROVE  AdvanceZeroActivity(d, n) = Rolls(d)[n]
<1>. DEFINE walk == IdleWalk(IdleFrom(d))
            Stop(k) == /\ k = n \/ AtBoundary(walk[k])
                       /\ \A j \in 0 .. k - 1 : ~AtBoundary(walk[j])
            first == CHOOSE k \in 0 .. n : Stop(k)
            remaining == n - first
            whole == remaining \div CycleLength
            last == IdleWalk(walk[first])[remaining % CycleLength]
<1>1. AdvanceZeroActivity(d, n) =
        [d EXCEPT !.pastPurchases = [i \in Ring |-> 0],
                  !.pastRevenues = [i \in Ring |-> 0],
                  !.purchases = 0, !.revenue = 0,
                  !.factor = last.factor, !.atMin = last.atMin,
                  !.fees = FeeCuts(@)[last.cuts + whole], !.period = @ + n]
  BY DEF AdvanceZeroActivity
<1>2. IdleFrom(d) \in WalkState /\ walk \in [Nat -> WalkState]
  BY IdleFromType, IdleRun
<1>3. first \in 0 .. n /\ Stop(first)
  <2>. DEFINE C == {k \in 0 .. n : k = n \/ AtBoundary(walk[k])}
  <2>1. C \subseteq Nat /\ n \in C
    OBVIOUS
  <2>2. PICK k \in C : \A m \in C : k <= m
    <3>. HIDE DEF C
    <3>. QED BY <2>1, LeastNatural
  <2>3. k \in 0 .. n /\ (k = n \/ AtBoundary(walk[k]))
    OBVIOUS
  <2>4. \A j \in 0 .. k - 1 : ~AtBoundary(walk[j])
    <3>. SUFFICES ASSUME NEW j \in 0 .. k - 1, AtBoundary(walk[j]) PROVE FALSE
      OBVIOUS
    <3>1. j \in C
      BY <2>3
    <3>2. k <= j
      BY <2>2, <3>1
    <3>. QED BY <2>3, <3>2
  <2>5. \E i \in 0 .. n : Stop(i)
    BY <2>3, <2>4
  <2>. HIDE DEF Stop
  <2>. QED BY <2>5
<1>. HIDE DEF first
<1>. DEFINE w == walk[first]
<1>4. first \in Nat /\ remaining \in Nat /\ first + remaining = n /\ w \in WalkState
  BY <1>2, <1>3
<1>5. walk[n] = IdleWalk(w)[remaining]
  <2>. HIDE DEF remaining
  <2>1. IdleWalk(w)[remaining] = walk[first + remaining]
    BY <1>2, <1>4, IdleAdd
  <2>. QED BY <1>4, <2>1
<1>6. whole \in Nat /\ last \in WalkState /\ walk[n] = MoreCuts(last, whole)
  <2>1. CASE AtBoundary(w)
    <3>. HIDE DEF remaining, w
    <3>1. /\ remaining % CycleLength \in Nat /\ whole \in Nat
          /\ IdleWalk(w)[remaining]
               = MoreCuts(IdleWalk(w)[remaining % CycleLength], whole)
      BY <1>4, <2>1, WalkFromBoundary
    <3>2. IdleWalk(w)[remaining % CycleLength] \in WalkState
      BY <1>4, <3>1, IdleRun
    <3>3. last = IdleWalk(w)[remaining % CycleLength]
      BY DEF w
    <3>. HIDE DEF last, whole
    <3>. QED BY <1>5, <3>1, <3>2, <3>3
  <2>2. CASE first = n
    <3>1. remaining = 0
      BY <1>4, <2>2
    <3>2. 0 % CycleLength = 0 /\ 0 \div CycleLength = 0
      BY CycleIs, ModRest, 0 * CycleLength + 0 = 0
    <3>3. last = IdleWalk(w)[0] /\ whole = 0
      BY <3>1, <3>2
    <3>4. IdleWalk(w)[0] = w
      BY <1>4, IdleRun
    <3>5. MoreCuts(w, 0) = w
      BY <1>4, MoreCutsAdd
    <3>. HIDE DEF last, whole, remaining
    <3>. QED BY <1>4, <2>2, <3>3, <3>4, <3>5
  <2>. QED BY <1>3, <2>1, <2>2
<1>. DEFINE e == Rolls(d)[n]
            v == walk[n]
<1>7. e \in DemandFactor /\ Follows(e, d, v, n)
  BY RollsRun, RollsFollow
<1>. HIDE DEF last, whole, remaining, e
<1>8. v.factor = last.factor /\ v.atMin = last.atMin /\ v.cuts = last.cuts + whole
  BY <1>6 DEF MoreCuts
<1>. HIDE DEF v
<1>9. /\ e.pastPurchases = [i \in Ring |-> 0]
      /\ e.pastRevenues = [i \in Ring |-> 0]
  <2>1. ASSUME NEW i \in Ring PROVE e.pastPurchases[i] = 0 /\ e.pastRevenues[i] = 0
    <3>1. d.period \in Nat
      BY DEF DemandFactor
    <3>2. PICK j \in 0 .. Window - 1 : (d.period + j) % Window = i
      BY <3>1, RingCovered
    <3>3. j \in 0 .. n - 1
      BY PriceConstants
    <3>4. /\ e.pastPurchases[(d.period + j) % Window] = 0
          /\ e.pastRevenues[(d.period + j) % Window] = 0
      BY <1>7, <3>3 DEF Follows
    <3>. QED BY <3>2, <3>4
  <2>2. e.pastPurchases \in [Ring -> Nat] /\ e.pastRevenues \in [Ring -> Nat]
    BY <1>7 DEF DemandFactor
  <2>. QED BY <2>1, <2>2
<1>10. /\ e.factor = last.factor /\ e.atMin = last.atMin
       /\ e.fees = FeeCuts(d.fees)[last.cuts + whole]
       /\ e.purchases = 0 /\ e.revenue = 0 /\ e.period = d.period + n
  BY <1>7, <1>8 DEF Follows
<1>11. e = [factor |-> e.factor, period |-> e.period, purchases |-> e.purchases,
            revenue |-> e.revenue, atMin |-> e.atMin, pastPurchases |-> e.pastPurchases,
            pastRevenues |-> e.pastRevenues, fees |-> e.fees]
  BY <1>7 DEF DemandFactor
<1>12. AdvanceZeroActivity(d, n) =
         [factor |-> last.factor, period |-> d.period + n, purchases |-> 0,
          revenue |-> 0, atMin |-> last.atMin, pastPurchases |-> [i \in Ring |-> 0],
          pastRevenues |-> [i \in Ring |-> 0],
          fees |-> FeeCuts(d.fees)[last.cuts + whole]]
  BY <1>1 DEF DemandFactor
<1>. QED BY <1>9, <1>10, <1>11, <1>12 DEF e

\* However far behind the account is, it is brought up to date as if every
\* missed period had been rolled on its own.
LEMMA MaybeRollIs ==
  ASSUME NEW d \in DemandFactor, NEW t \in Nat
  PROVE  /\ PeriodAt(t) \in Nat
         /\ PeriodAt(t) <= d.period => MaybeRollDemandPeriod(d, t) = d
         /\ PeriodAt(t) > d.period =>
              MaybeRollDemandPeriod(d, t) = Rolls(d)[PeriodAt(t) - d.period]
<1>. DEFINE gap == PeriodAt(t) - d.period
<1>1. PeriodAt(t) \in Nat /\ d.period \in Nat
  <2>1. \A x \in Nat : x \div PeriodLength \in Nat
    BY PriceConstants
  <2>2. t \div PeriodLength \in Nat
    BY <2>1
  <2>. QED BY <2>2 DEF PeriodAt, DemandFactor
<1>2. gap \in Int
  BY <1>1
<1>3. MaybeRollDemandPeriod(d, t) =
        CASE gap <= 0 -> d
          [] gap > 0 /\ gap <= MaxRollover -> Rolls(d)[gap]
          [] OTHER -> AdvanceZeroActivity(RollOnePeriod(d), gap - 1)
  BY DEF MaybeRollDemandPeriod
<1>4. PeriodAt(t) <= d.period <=> gap <= 0
  BY <1>1
<1>5. PeriodAt(t) > d.period <=> gap > 0
  BY <1>1
<1>. HIDE DEF gap
<1>6. gap <= 0 => MaybeRollDemandPeriod(d, t) = d
  BY <1>2, <1>3, PriceConstants
<1>7. ASSUME gap > 0 PROVE MaybeRollDemandPeriod(d, t) = Rolls(d)[gap]
  <2>1. CASE gap <= MaxRollover
    BY <1>2, <1>3, <1>7, <2>1, PriceConstants
  <2>2. CASE gap > MaxRollover
    <3>. DEFINE e == RollOnePeriod(d)
    <3>1. MaybeRollDemandPeriod(d, t) = AdvanceZeroActivity(e, gap - 1)
      BY <1>2, <1>3, <1>7, <2>2, PriceConstants
    <3>2. gap - 1 \in Nat /\ gap - 1 >= Window
      BY <1>2, <2>2, PriceConstants
    <3>3. e \in DemandFactor /\ e.purchases = 0 /\ e.revenue = 0
      <4>1. e \in DemandFactor
        BY RollType
      <4>. DEFINE f == Floored(d, Adjusted(d))
      <4>2. e = [f EXCEPT !.pastPurchases[d.period % Window] = d.purchases,
                          !.pastRevenues[d.period % Window] = d.revenue,
                          !.purchases = 0, !.revenue = 0, !.period = @ + 1]
        BY DEF RollOnePeriod
      <4>3. DOMAIN f = DOMAIN d
        BY DEF Floored
      <4>4. DOMAIN d = {"factor", "period", "purchases", "revenue", "atMin",
                        "pastPurchases", "pastRevenues", "fees"}
        BY DEF DemandFactor
      <4>. HIDE DEF f
      <4>5. e.purchases = 0 /\ e.revenue = 0
        BY <4>2, <4>3, <4>4
      <4>. QED BY <4>1, <4>5
    <3>4. e = Rolls(d)[1]
      <4>1. Rolls(d)[0] = d /\ Rolls(d)[0 + 1] = RollOnePeriod(Rolls(d)[0])
        BY RollsRun
      <4>. QED BY <4>1
    <3>. HIDE DEF e
    <3>5. AdvanceZeroActivity(e, gap - 1) = Rolls(e)[gap - 1]
      BY <3>2, <3>3, ClosedFormIsTheLoop
    <3>6. \A j, k \in Nat : Rolls(Rolls(d)[j])[k] = Rolls(d)[j + k]
      BY RollsAdd
    <3>7. Rolls(Rolls(d)[1])[gap - 1] = Rolls(d)[1 + (gap - 1)]
      BY <3>2, <3>6
    <3>8. 1 + (gap - 1) = gap
      BY <1>2
    <3>. QED BY <3>1, <3>4, <3>5, <3>7, <3>8
  <2>. QED BY <1>2, <2>1, <2>2, PriceConstants
<1>. QED BY <1>1, <1>4, <1>5, <1>6, <1>7 DEF gap
-----------------------------------------------------------------------------
(* When the account is brought up to date does not matter.                  *)

\* Each period counts one.
LEMMA RollsPeriod ==
  ASSUME NEW d \in DemandFactor, NEW n \in Nat
  PROVE  Rolls(d)[n].period = d.period + n
<1>. DEFINE T == {k \in Nat : Rolls(d)[k].period = d.period + k}
<1>0. d.period \in Nat
  BY DEF DemandFactor
<1>1. 0 \in T
  <2>1. Rolls(d)[0] = d
    BY RollsRun
  <2>2. d.period + 0 = d.period
    BY <1>0
  <2>. QED BY <2>1, <2>2
<1>2. ASSUME NEW k \in Nat, k \in T PROVE k + 1 \in T
  <2>. DEFINE e == Rolls(d)[k]
              f == Floored(e, Adjusted(e))
  <2>1. e \in DemandFactor /\ Rolls(d)[k + 1] = RollOnePeriod(e)
    BY RollsRun
  <2>2. e.period = d.period + k
    BY <1>2
  <2>. HIDE DEF e
  <2>3. RollOnePeriod(e) = [f EXCEPT !.pastPurchases[e.period % Window] = e.purchases,
                                     !.pastRevenues[e.period % Window] = e.revenue,
                                     !.purchases = 0, !.revenue = 0, !.period = @ + 1]
    BY DEF RollOnePeriod
  <2>4. f.period = e.period /\ DOMAIN f = DOMAIN e
    BY DEF Floored
  <2>5. DOMAIN e = {"factor", "period", "purchases", "revenue", "atMin",
                    "pastPurchases", "pastRevenues", "fees"}
    BY <2>1 DEF DemandFactor
  <2>. HIDE DEF f
  <2>6. RollOnePeriod(e).period = e.period + 1
    BY <2>3, <2>4, <2>5
  <2>. QED BY <1>0, <2>1, <2>2, <2>6
<1>3. \A k \in Nat : k \in T
  <2>. HIDE DEF T
  <2>. QED BY <1>1, <1>2, AllNaturals
<1>. QED BY <1>3

\* Later moments lie in later periods.
LEMMA PeriodsGrow ==
  ASSUME NEW t \in Nat, NEW u \in Nat, t <= u
  PROVE  PeriodAt(t) <= PeriodAt(u)
<1>. DEFINE a == t \div PeriodLength
            b == u \div PeriodLength
<1>0. PeriodLength \in Nat /\ PeriodLength > 0
  BY PriceConstants
<1>1. /\ a \in Nat /\ a * PeriodLength <= t
      /\ b \in Nat /\ u < b * PeriodLength + PeriodLength
  <2>1. \A x \in Nat : /\ x \div PeriodLength \in Nat
                       /\ (x \div PeriodLength) * PeriodLength <= x
                       /\ x < (x \div PeriodLength) * PeriodLength + PeriodLength
    BY <1>0, Z3
  <2>. QED BY <2>1
<1>. HIDE DEF a, b
<1>2. a <= b
  <2>. SUFFICES ASSUME a >= b + 1 PROVE FALSE
    BY <1>1
  <2>1. (a - (b + 1)) * PeriodLength >= 0
    BY <1>0, <1>1
  <2>2. (a - (b + 1)) * PeriodLength = a * PeriodLength - (b * PeriodLength + PeriodLength)
    BY <1>0, <1>1
  <2>3. a * PeriodLength \in Nat /\ b * PeriodLength \in Nat
    BY <1>0, <1>1
  <2>. QED BY <1>0, <1>1, <2>1, <2>2, <2>3
<1>. QED BY <1>1, <1>2 DEF PeriodAt, a, b

\* Bringing the account up to date leaves an account.
LEMMA MaybeRollType ==
  ASSUME NEW d \in DemandFactor, NEW t \in Nat
  PROVE  MaybeRollDemandPeriod(d, t) \in DemandFactor
<1>1. d.period \in Nat
  BY DEF DemandFactor
<1>2. CASE PeriodAt(t) <= d.period
  BY <1>2, MaybeRollIs
<1>3. CASE PeriodAt(t) > d.period
  <2>1. PeriodAt(t) \in Nat
    BY MaybeRollIs
  <2>2. PeriodAt(t) - d.period \in Nat
    BY <1>1, <1>3, <2>1
  <2>3. Rolls(d)[PeriodAt(t) - d.period] \in DemandFactor
    BY <2>2, RollsRun
  <2>. QED BY <1>3, <2>3, MaybeRollIs
<1>. QED BY <1>1, <1>2, <1>3, MaybeRollIs

(***************************************************************************)
(* maybe_roll_demand_period at one moment and again at a later one leaves  *)
(* the account that the later call alone would have left: nobody gains or  *)
(* loses by calling update_demand_factor, or by being the first to pay     *)
(* after a gap of any length.                                              *)
(***************************************************************************)
THEOREM RollingComposes ==
  ASSUME NEW d \in DemandFactor, NEW t \in Nat, NEW u \in Nat, t <= u
  PROVE  MaybeRollDemandPeriod(MaybeRollDemandPeriod(d, t), u) = MaybeRollDemandPeriod(d, u)
<1>. DEFINE p == PeriodAt(t)
            q == PeriodAt(u)
<1>1. p \in Nat /\ q \in Nat /\ p <= q /\ d.period \in Nat
  BY MaybeRollIs, PeriodsGrow DEF DemandFactor
<1>2. CASE p <= d.period
  <2>1. MaybeRollDemandPeriod(d, t) = d
    BY <1>2, MaybeRollIs
  <2>. QED BY <2>1
<1>3. CASE p > d.period
  <2>. DEFINE a == p - d.period
              e == Rolls(d)[a]
  <2>1. MaybeRollDemandPeriod(d, t) = e
    BY <1>3, MaybeRollIs
  <2>2. MaybeRollDemandPeriod(d, u) = Rolls(d)[q - d.period]
    <3>1. q > d.period
      BY <1>1, <1>3
    <3>. QED BY <3>1, MaybeRollIs
  <2>3. a \in Nat /\ d.period + a = p
    BY <1>1, <1>3
  <2>. HIDE DEF a
  <2>4. e \in DemandFactor /\ e.period = p
    BY <2>3, RollsRun, RollsPeriod
  <2>5. CASE q <= p
    <3>1. MaybeRollDemandPeriod(e, u) = e
      BY <2>4, <2>5, MaybeRollIs
    <3>2. q = p
      BY <1>1, <2>5
    <3>3. q - d.period = a
      BY <1>1, <2>3, <3>2
    <3>. HIDE DEF p, q
    <3>. QED BY <2>1, <2>2, <3>1, <3>3
  <2>6. CASE q > p
    <3>1. MaybeRollDemandPeriod(e, u) = Rolls(e)[q - p]
      <4>1. q > e.period
        BY <2>4, <2>6
      <4>2. MaybeRollDemandPeriod(e, u) = Rolls(e)[q - e.period]
        BY <2>4, <4>1, MaybeRollIs
      <4>. HIDE DEF e, p, q
      <4>. QED BY <2>4, <4>2
    <3>. HIDE DEF p, q
    <3>2. q - p \in Nat /\ a + (q - p) = q - d.period
      BY <1>1, <2>3, <2>6
    <3>3. \A j, k \in Nat : Rolls(Rolls(d)[j])[k] = Rolls(d)[j + k]
      BY RollsAdd
    <3>4. Rolls(e)[q - p] = Rolls(d)[a + (q - p)]
      BY <2>3, <3>2, <3>3
    <3>. HIDE DEF e
    <3>. QED BY <2>1, <2>2, <3>1, <3>2, <3>4
  <2>. HIDE DEF p, q
  <2>. QED BY <1>1, <2>5, <2>6
<1>. HIDE DEF p, q
<1>. QED BY <1>1, <1>2, <1>3

\* What LazyIsEager says, of every account and every horizon.
LEMMA TimelyFor ==
  ASSUME demand \in DemandFactor, NEW H \in Nat
  PROVE  RollingIsTimely(H)
<1>. SUFFICES ASSUME NEW k \in 2 .. H
              PROVE  LET next == PeriodLength * demand.period
                         then == next + PeriodLength * (k - 1)
                     IN  MaybeRollDemandPeriod(demand, then)
                           = MaybeRollDemandPeriod(MaybeRollDemandPeriod(demand, next), then)
  BY DEF RollingIsTimely
<1>. DEFINE next == PeriodLength * demand.period
            then == next + PeriodLength * (k - 1)
<1>1. PeriodLength \in Nat /\ demand.period \in Nat /\ k - 1 \in Nat
  BY PriceConstants DEF DemandFactor
<1>2. next \in Nat
  BY <1>1
<1>3. PeriodLength * (k - 1) \in Nat
  BY <1>1
<1>. HIDE DEF next
<1>4. then \in Nat /\ next <= then
  BY <1>2, <1>3
<1>. HIDE DEF then
<1>5. MaybeRollDemandPeriod(MaybeRollDemandPeriod(demand, next), then)
        = MaybeRollDemandPeriod(demand, then)
  BY <1>2, <1>4, RollingComposes
<1>. QED BY <1>5 DEF next, then
-----------------------------------------------------------------------------
(* Prices and payments keep their types.                                    *)

Vias == {"balance", "delegation", "operator_stake", "withdrawal", "plan"}
Purse == [Sources -> Nat]

\* The accounts of the payments, next to those of the names.
MoneyTypeOK ==
  /\ demand \in DemandFactor
  /\ reserved \in [Names -> ReservedName \cup {None}]
  /\ holder \in [Assets -> Users]
  /\ funds \in [Users -> Purse] /\ treasury \in Nat

\* A natural number over the scale.
LEMMA OverScale ==
  ASSUME NEW x \in Nat
  PROVE  x \div Scale \in Nat
BY PriceConstants

\* What a sale of a name is charged.
LEMMA FeesType ==
  ASSUME NEW fee \in Nat, NEW factor \in Nat, NEW y \in Nat, NEW pct \in Nat
  PROVE  /\ LeaseFee(fee, y, factor) \in Nat
         /\ PermabuyFee(fee, factor) \in Nat
         /\ ExtensionFee(fee, y, factor) \in Nat
         /\ UndernameCost(fee, y, pct, factor) \in Nat
<1>0. Scale \in Nat /\ AnnualPct \in Nat
  BY PriceConstants
<1>1. fee * factor \in Nat
  OBVIOUS
<1>2. LeaseFee(fee, y, factor) \in Nat
  <2>1. Scale + AnnualPct * y \in Nat
    BY <1>0
  <2>2. fee * factor * (Scale + AnnualPct * y) \in Nat
    BY <1>1, <2>1
  <2>3. (fee * factor * (Scale + AnnualPct * y)) \div Scale \in Nat
    BY <2>2, OverScale
  <2>. QED BY <2>3, OverScale DEF LeaseFee
<1>3. PermabuyFee(fee, factor) \in Nat
  <2>1. fee * factor * 5 \in Nat
    BY <1>1
  <2>. QED BY <2>1, OverScale DEF PermabuyFee
<1>4. ExtensionFee(fee, y, factor) \in Nat
  <2>1. fee * factor * AnnualPct \in Nat
    BY <1>0, <1>1
  <2>2. fee * factor * AnnualPct * y \in Nat
    BY <2>1
  <2>3. (fee * factor * AnnualPct * y) \div Scale \in Nat
    BY <2>2, OverScale
  <2>. QED BY <2>3, OverScale DEF ExtensionFee
<1>5. UndernameCost(fee, y, pct, factor) \in Nat
  <2>1. fee * factor * pct \in Nat
    BY <1>1
  <2>2. fee * factor * pct * y \in Nat
    BY <2>1
  <2>3. (fee * factor * pct * y) \div Scale \in Nat
    BY <2>2, OverScale
  <2>. QED BY <2>3, OverScale DEF UndernameCost
<1>. QED BY <1>2, <1>3, <1>4, <1>5

\* The premium of an auction never falls below zero.
LEMMA PremiumType ==
  ASSUME NEW fee \in Nat, NEW at \in Nat, NEW t \in Nat
  PROVE  ReturnedNamePremium(fee, at, t) \in Nat
<1>. DEFINE elapsed == t - at
            rest == MaxMultiplier * AuctionDuration - (MaxMultiplier - 1) * elapsed
            multiplier == (rest * Scale) \div AuctionDuration
<1>0. /\ MaxMultiplier \in Nat /\ MaxMultiplier >= 1
      /\ AuctionDuration \in Nat /\ AuctionDuration > 0 /\ Scale \in Nat
  BY PriceConstants
<1>1. elapsed \in Int
  OBVIOUS
<1>. HIDE DEF elapsed
<1>2. ASSUME elapsed < AuctionDuration PROVE rest \in Nat
  <2>1. (MaxMultiplier - 1) * (AuctionDuration - elapsed) >= 0
    BY <1>0, <1>1, <1>2
  <2>2. (MaxMultiplier - 1) * (AuctionDuration - elapsed)
          = MaxMultiplier * AuctionDuration - AuctionDuration - (MaxMultiplier - 1) * elapsed
    BY <1>0, <1>1
  <2>3. MaxMultiplier * AuctionDuration \in Int /\ (MaxMultiplier - 1) * elapsed \in Int
    BY <1>0, <1>1
  <2>. QED BY <1>0, <2>1, <2>2, <2>3
<1>3. ReturnedNamePremium(fee, at, t) =
        IF elapsed >= AuctionDuration THEN fee ELSE (fee * multiplier) \div Scale
  BY DEF ReturnedNamePremium, elapsed
<1>. HIDE DEF rest
<1>4. CASE elapsed >= AuctionDuration
  BY <1>3, <1>4
<1>5. CASE elapsed < AuctionDuration
  <2>1. rest * Scale \in Nat
    BY <1>0, <1>2, <1>5
  <2>2. \A x \in Nat : x \div AuctionDuration \in Nat
    BY <1>0
  <2>3. multiplier \in Nat
    BY <2>1, <2>2
  <2>. HIDE DEF multiplier
  <2>4. (fee * multiplier) \div Scale \in Nat
    BY <2>3, ScaledType
  <2>5. ~(elapsed >= AuctionDuration)
    BY <1>0, <1>1, <1>5
  <2>. QED BY <1>3, <2>4, <2>5
<1>. QED BY <1>0, <1>1, <1>4, <1>5

\* A discount leaves a price.
LEMMA CostsType ==
  ASSUME NEW price \in Nat, NEW u \in Users
  PROVE  Costs(u, price) \subseteq Nat
<1>. DEFINE off == (price * DiscountPct) \div Scale
<1>1. price * DiscountPct \in Nat /\ price * DiscountPct <= price * Scale
  <2>1. Scale - DiscountPct \in Nat
    BY PriceConstants
  <2>2. price * (Scale - DiscountPct) \in Nat
    BY <2>1
  <2>3. price * (Scale - DiscountPct) = price * Scale - price * DiscountPct
    BY PriceConstants
  <2>4. price * Scale \in Nat /\ price * DiscountPct \in Nat
    BY PriceConstants
  <2>. QED BY <2>2, <2>3, <2>4
<1>2. off \in Nat /\ off * Scale <= price * Scale
  <2>1. \A x \in Nat : x \div Scale \in Nat /\ (x \div Scale) * Scale <= x
    BY PriceConstants, Z3
  <2>2. off \in Nat /\ off * Scale <= price * DiscountPct
    BY <1>1, <2>1
  <2>. HIDE DEF off
  <2>3. off * Scale \in Nat /\ price * Scale \in Nat
    BY <2>2, PriceConstants
  <2>. QED BY <1>1, <2>2, <2>3
<1>3. ApplyGatewayDiscount(price) = price - off
  BY DEF ApplyGatewayDiscount
<1>. HIDE DEF off
<1>4. off <= price
  <2>. SUFFICES ASSUME off >= price + 1 PROVE FALSE
    BY <1>2
  <2>1. (off - price) * Scale >= Scale
    BY <1>2, PriceConstants
  <2>2. (off - price) * Scale = off * Scale - price * Scale
    BY <1>2, PriceConstants
  <2>3. off * Scale \in Nat /\ price * Scale \in Nat
    BY <1>2, PriceConstants
  <2>. QED BY <1>2, <2>1, <2>2, <2>3, PriceConstants
<1>5. ApplyGatewayDiscount(price) \in Nat
  BY <1>2, <1>3, <1>4
<1>. QED BY <1>5 DEF Costs

\* No source is drawn below zero, and none gains.
LEMMA DrawType ==
  ASSUME NEW via \in Vias, NEW p \in Purse, NEW cost \in Nat
  PROVE  Draw(via, p, cost) \subseteq Purse
<1>1. \A s \in Sources : p[s] \in Nat
  BY DEF Purse
<1>2. ASSUME NEW s \in Sources PROVE CpiDeduct(p, s, cost) \subseteq Purse
  <2>. SUFFICES ASSUME p[s] - cost >= 0, NEW q, q = [p EXCEPT ![s] = @ - cost]
                PROVE  q \in Purse
    BY DEF CpiDeduct, Purse
  <2>1. p[s] - cost \in Nat
    BY <1>1
  <2>. QED BY <2>1 DEF Purse
<1>3. FromBalance(p, cost) \subseteq Purse
  <2>0. "balance" \in Sources
    BY DEF Sources
  <2>. SUFFICES ASSUME p.balance - cost >= 0, NEW q, q = [p EXCEPT !.balance = @ - cost]
                PROVE  q \in Purse
    BY <2>0 DEF FromBalance, Purse
  <2>1. p["balance"] - cost \in Nat
    BY <1>1, <2>0
  <2>. QED BY <2>0, <2>1 DEF Purse
<1>4. CpiPayFromFundingPlan(p, cost) \subseteq Purse
  <2>. SUFFICES ASSUME NEW q \in CpiPayFromFundingPlan(p, cost) PROVE q \in Purse
    OBVIOUS
  <2>0. /\ p.balance \in Nat /\ p.delegation \in Nat
        /\ p.operator_stake \in Nat /\ p.withdrawal \in Nat
    BY <1>1 DEF Sources
  <2>1. PICK a \in 0 .. p.delegation, b \in 0 .. p.operator_stake, c \in 0 .. p.withdrawal :
          /\ a + b + c <= cost /\ cost - (a + b + c) <= p.balance
          /\ q = [balance |-> p.balance - (cost - (a + b + c)),
                  delegation |-> p.delegation - a,
                  operator_stake |-> p.operator_stake - b,
                  withdrawal |-> p.withdrawal - c]
    BY DEF CpiPayFromFundingPlan
  <2>2. /\ p.balance - (cost - (a + b + c)) \in Nat /\ p.delegation - a \in Nat
        /\ p.operator_stake - b \in Nat /\ p.withdrawal - c \in Nat
    BY <2>0, <2>1
  <2>3. DOMAIN q = Sources
    BY <2>1 DEF Sources
  <2>4. \A s \in Sources : q[s] \in Nat
    BY <2>1, <2>2 DEF Sources
  <2>5. q = [s \in Sources |-> q[s]]
    BY <2>1, <2>3
  <2>. QED BY <2>4, <2>5 DEF Purse
<1>. QED BY <1>2, <1>3, <1>4 DEF Draw, Vias, Sources, CpiDeductDelegation,
            CpiDeductOperatorStake, CpiDeductWithdrawal

\* A sale is counted.
LEMMA TalliedType ==
  ASSUME NEW d \in DemandFactor, NEW cost \in Nat
  PROVE  Tallied(d, cost) \in DemandFactor
<1>1. d.purchases + 1 \in Nat /\ d.revenue + cost \in Nat
  BY DEF DemandFactor
<1>2. Tallied(d, cost) = [d EXCEPT !.purchases = d.purchases + 1, !.revenue = d.revenue + cost]
  BY DEF Tallied
<1>. QED BY <1>1, <1>2 DEF DemandFactor

\* A payment to the protocol.
LEMMA PaysType ==
  ASSUME MoneyTypeOK, NEW via \in Vias, NEW u \in Users, NEW d \in DemandFactor,
         NEW price \in Nat, Pays(via, u, d, price)
  PROVE  demand' \in DemandFactor /\ funds' \in [Users -> Purse] /\ treasury' \in Nat
<1>1. PICK cost \in Costs(u, price) : PayProtocol(via, u, d, cost)
  BY DEF Pays
<1>2. cost \in Nat
  BY CostsType
<1>3. PICK p \in Draw(via, funds[u], cost) : funds' = [funds EXCEPT ![u] = p]
  BY <1>1 DEF PayProtocol
<1>4. p \in Purse
  BY <1>2, DrawType DEF MoneyTypeOK
<1>5. funds' \in [Users -> Purse]
  BY <1>3, <1>4 DEF MoneyTypeOK
<1>6. demand' \in DemandFactor
  BY <1>1, <1>2, TalliedType DEF PayProtocol
<1>7. treasury' \in Nat
  BY <1>1, <1>2 DEF PayProtocol, MoneyTypeOK
<1>. QED BY <1>5, <1>6, <1>7

\* A payment shared with the one who returned the name.
LEMMA PaySplitType ==
  ASSUME MoneyTypeOK, NEW via \in Vias, NEW u \in Users, NEW d \in DemandFactor,
         NEW initiator \in Users \cup {Protocol}, NEW cost \in Nat,
         PaySplit(via, u, initiator, d, cost)
  PROVE  demand' \in DemandFactor /\ funds' \in [Users -> Purse] /\ treasury' \in Nat
<1>. DEFINE toProtocol  == IF initiator = Protocol THEN cost ELSE cost \div 2
            toInitiator == cost - toProtocol
<1>1. toProtocol \in Nat /\ toInitiator \in Nat
  OBVIOUS
<1>. DEFINE Spent(p) == [funds EXCEPT ![u] = [p EXCEPT !.balance = @ - toInitiator]]
<1>2. PICK p \in Draw(via, funds[u], toProtocol) :
        /\ p.balance >= toInitiator
        /\ funds' = IF initiator = Protocol THEN Spent(p)
                    ELSE [Spent(p) EXCEPT ![initiator].balance = @ + toInitiator]
  BY DEF PaySplit
<1>3. treasury' = treasury + toProtocol /\ demand' = Tallied(d, cost)
  BY DEF PaySplit
<1>. HIDE DEF toProtocol, toInitiator
<1>4. p \in Purse
  BY <1>1, DrawType DEF MoneyTypeOK
<1>5. "balance" \in Sources
  BY DEF Sources
<1>6. [p EXCEPT !.balance = @ - toInitiator] \in Purse
  <2>1. p.balance - toInitiator \in Nat
    BY <1>1, <1>2, <1>4, <1>5 DEF Purse
  <2>. QED BY <1>4, <1>5, <2>1 DEF Purse
<1>7. Spent(p) \in [Users -> Purse]
  BY <1>6 DEF MoneyTypeOK
<1>. DEFINE f == Spent(p)
<1>. HIDE DEF Spent
<1>8. funds' \in [Users -> Purse]
  <2>1. CASE initiator = Protocol
    BY <1>2, <1>7, <2>1
  <2>2. CASE initiator # Protocol
    <3>1. initiator \in Users
      BY <2>2
    <3>2. funds' = [f EXCEPT ![initiator].balance = @ + toInitiator]
      BY <1>2, <2>2
    <3>3. f[initiator] \in Purse
      BY <1>7, <3>1
    <3>4. f[initiator].balance + toInitiator \in Nat
      BY <1>1, <1>5, <3>3 DEF Purse
    <3>5. [f[initiator] EXCEPT !.balance = @ + toInitiator] \in Purse
      BY <1>5, <3>3, <3>4 DEF Purse
    <3>6. funds' = [f EXCEPT ![initiator] = [f[initiator] EXCEPT !.balance = @ + toInitiator]]
      BY <3>2
    <3>. HIDE DEF f
    <3>. QED BY <1>7, <3>1, <3>5, <3>6 DEF f
  <2>. QED BY <2>1, <2>2
<1>9. demand' \in DemandFactor /\ treasury' \in Nat
  BY <1>1, <1>3, TalliedType DEF MoneyTypeOK
<1>. QED BY <1>8, <1>9

\* What a paying handler finds: an account rolled to the present.
LEMMA RolledType ==
  ASSUME NamesInv, MoneyTypeOK
  PROVE  Rolled \in DemandFactor
BY MaybeRollType DEF Rolled, NamesInv, NamesTypeOK, MoneyTypeOK

\* The base fee of a name.
LEMMA BaseFeeType ==
  ASSUME NEW d \in DemandFactor, NEW n \in Names
  PROVE  BaseFee(d, n) \in Nat /\ d.factor \in Nat
<1>1. LengthOf[n] \in Lengths
  BY NamesAssumption
<1>. QED BY <1>1 DEF BaseFee, DemandFactor

\* The price of a name.
LEMMA RegistrationFeeType ==
  ASSUME NEW d \in DemandFactor, NEW n \in Names, NEW term \in Terms
  PROVE  RegistrationFee(d, n, term) \in Nat
<1>1. BaseFee(d, n) \in Nat /\ d.factor \in Nat
  BY BaseFeeType
<1>2. term # Permanent => term \in Nat
  BY Constants DEF Terms
<1>3. CASE term = Permanent
  <2>1. PermabuyFee(BaseFee(d, n), d.factor) \in Nat
    BY <1>1, FeesType
  <2>. QED BY <1>3, <2>1 DEF RegistrationFee
<1>4. CASE term # Permanent
  <2>1. LeaseFee(BaseFee(d, n), term, d.factor) \in Nat
    BY <1>1, <1>2, <1>4, FeesType
  <2>. QED BY <1>4, <2>1 DEF RegistrationFee
<1>. QED BY <1>3, <1>4

Paid == demand' \in DemandFactor /\ funds' \in [Users -> Purse] /\ treasury' \in Nat

\* A purchase is paid for, and takes the reservation with it.
LEMMA BuyNamePaid ==
  ASSUME NamesInv, MoneyTypeOK, NEW via \in Vias, NEW u \in Users, NEW n \in Names,
         NEW a \in Assets, NEW t \in Terms, BuyNameWith(via, u, n, a, t)
  PROVE  MoneyTypeOK'
<1>1. Paid
  <2>1. Pays(via, u, Rolled, RegistrationFee(Rolled, n, t))
    BY DEF BuyNameWith
  <2>2. RegistrationFee(Rolled, n, t) \in Nat
    BY RolledType, RegistrationFeeType
  <2>. QED BY <2>1, <2>2, RolledType, PaysType DEF Paid
<1>2. reserved' = [reserved EXCEPT ![n] = None] /\ holder' = holder
  BY DEF BuyNameWith
<1>. QED BY <1>1, <1>2 DEF MoneyTypeOK, Paid

\* So is a purchase by auction.
LEMMA BuyReturnedPaid ==
  ASSUME NamesInv, MoneyTypeOK, NEW via \in Vias, NEW u \in Users, NEW n \in Names,
         NEW a \in Assets, NEW t \in Terms, BuyReturnedNameWith(via, u, n, a, t)
  PROVE  MoneyTypeOK'
<1>. DEFINE premium == ReturnedNamePremium(RegistrationFee(Rolled, n, t), returned[n].at, now)
<1>1. returned[n].at \in Nat /\ returned[n].initiator \in Users \cup {Protocol}
  BY DEF BuyReturnedNameWith, NamesInv, NamesTypeOK, ReturnedName
<1>2. PICK cost \in Costs(u, premium) :
        PaySplit(via, u, returned[n].initiator, Rolled, cost)
  BY DEF BuyReturnedNameWith
<1>3. premium \in Nat
  <2>1. RegistrationFee(Rolled, n, t) \in Nat /\ now \in Nat
    BY RolledType, RegistrationFeeType DEF NamesInv, NamesTypeOK
  <2>. QED BY <1>1, <2>1, PremiumType
<1>4. cost \in Nat
  <2>. HIDE DEF premium
  <2>. QED BY <1>2, <1>3, CostsType
<1>5. Paid
  BY <1>1, <1>2, <1>4, RolledType, PaySplitType DEF Paid
<1>6. reserved' = reserved /\ holder' = holder
  BY DEF BuyReturnedNameWith
<1>. QED BY <1>5, <1>6 DEF MoneyTypeOK, Paid

\* And an upgrade,
LEMMA UpgradePaid ==
  ASSUME NamesInv, MoneyTypeOK, NEW via \in Vias, NEW u \in Users, NEW n \in Names,
         UpgradeNameWith(via, u, n)
  PROVE  MoneyTypeOK'
<1>. DEFINE price == PermabuyFee(BaseFee(Rolled, n), Rolled.factor)
<1>1. price \in Nat
  BY RolledType, BaseFeeType, FeesType, 0 \in Nat
<1>2. Pays(via, u, Rolled, price) /\ reserved' = reserved /\ holder' = holder
  BY DEF UpgradeNameWith
<1>. HIDE DEF price
<1>. QED BY <1>1, <1>2, RolledType, PaysType DEF MoneyTypeOK

\* an extension
LEMMA ExtendPaid ==
  ASSUME NamesInv, MoneyTypeOK, NEW via \in Vias, NEW u \in Users, NEW n \in Names,
         NEW y \in 1 .. MaxLeaseYears, ExtendLeaseWith(via, u, n, y)
  PROVE  MoneyTypeOK'
<1>. DEFINE price == ExtensionFee(BaseFee(Rolled, n), y, Rolled.factor)
<1>1. price \in Nat
  <2>1. y \in Nat
    BY Constants
  <2>. QED BY <2>1, RolledType, BaseFeeType, FeesType
<1>2. Pays(via, u, Rolled, price) /\ reserved' = reserved /\ holder' = holder
  BY DEF ExtendLeaseWith
<1>. HIDE DEF price
<1>. QED BY <1>1, <1>2, RolledType, PaysType DEF MoneyTypeOK

\* and more undernames.
LEMMA UndernamesPaid ==
  ASSUME NamesInv, MoneyTypeOK, NEW via \in Vias, NEW u \in Users, NEW n \in Names,
         NEW q \in 1 .. MaxUndernames, IncreaseUndernameLimitWith(via, u, n, q)
  PROVE  MoneyTypeOK'
<1>. DEFINE pct == IF IsLease(record[n]) THEN LeaseUndernamePct ELSE PermabuyUndernamePct
            price == UndernameCost(BaseFee(Rolled, n), q, pct, Rolled.factor)
<1>1. price \in Nat
  <2>1. q \in Nat
    OBVIOUS
  <2>2. pct \in Nat
    BY PriceConstants
  <2>. HIDE DEF pct
  <2>. QED BY <2>1, <2>2, RolledType, BaseFeeType, FeesType
<1>2. Pays(via, u, Rolled, price) /\ reserved' = reserved /\ holder' = holder
  BY DEF IncreaseUndernameLimitWith
<1>. HIDE DEF price
<1>. QED BY <1>1, <1>2, RolledType, PaysType DEF MoneyTypeOK

\* Ten ways to buy,
LEMMA BuyPaid ==
  ASSUME NamesInv, MoneyTypeOK, BuyNext
  PROVE  MoneyTypeOK'
<1>. PICK u \in Users, n \in Names, a \in Assets, t \in Terms :
       \/ BuyName(u, n, a, t)
       \/ BuyNameFromDelegation(u, n, a, t)
       \/ BuyNameFromOperatorStake(u, n, a, t)
       \/ BuyNameFromWithdrawal(u, n, a, t)
       \/ BuyNameFromFundingPlan(u, n, a, t)
       \/ BuyReturnedName(u, n, a, t)
       \/ BuyReturnedNameFromDelegation(u, n, a, t)
       \/ BuyReturnedNameFromOperatorStake(u, n, a, t)
       \/ BuyReturnedNameFromWithdrawal(u, n, a, t)
       \/ BuyReturnedNameFromFundingPlan(u, n, a, t)
  BY DEF BuyNext
<1>0. \A via \in Vias : BuyNameWith(via, u, n, a, t) \/ BuyReturnedNameWith(via, u, n, a, t) => MoneyTypeOK'
  BY BuyNamePaid, BuyReturnedPaid
<1>1. \E via \in Vias : BuyNameWith(via, u, n, a, t) \/ BuyReturnedNameWith(via, u, n, a, t)
  BY DEF Vias, BuyName, BuyNameFromDelegation, BuyNameFromOperatorStake, BuyNameFromWithdrawal, BuyNameFromFundingPlan, BuyReturnedName, BuyReturnedNameFromDelegation, BuyReturnedNameFromOperatorStake, BuyReturnedNameFromWithdrawal, BuyReturnedNameFromFundingPlan
<1>. QED BY <1>0, <1>1

\* fifteen to manage and pay,
LEMMA ManagePaid ==
  ASSUME NamesInv, MoneyTypeOK, ManageNext
  PROVE  MoneyTypeOK'
<1>. PICK u \in Users, n \in Names :
       \/ UpgradeName(u, n)
       \/ UpgradeNameFromDelegation(u, n)
       \/ UpgradeNameFromOperatorStake(u, n)
       \/ UpgradeNameFromWithdrawal(u, n)
       \/ UpgradeNameFromFundingPlan(u, n)
       \/ \E y \in 1 .. MaxLeaseYears :
            \/ ExtendLease(u, n, y)
            \/ ExtendLeaseFromDelegation(u, n, y)
            \/ ExtendLeaseFromOperatorStake(u, n, y)
            \/ ExtendLeaseFromWithdrawal(u, n, y)
            \/ ExtendLeaseFromFundingPlan(u, n, y)
       \/ \E q \in 1 .. MaxUndernames :
            \/ IncreaseUndernameLimit(u, n, q)
            \/ IncreaseUndernameLimitFromDelegation(u, n, q)
            \/ IncreaseUndernameLimitFromOperatorStake(u, n, q)
            \/ IncreaseUndernameLimitFromWithdrawal(u, n, q)
            \/ IncreaseUndernameLimitFromFundingPlan(u, n, q)
       \/ \E a \in Assets : ReassignName(u, n, a)
       \/ ReleaseName(u, n)
  BY DEF ManageNext
<1>1. ASSUME UpgradeName(u, n) \/ UpgradeNameFromDelegation(u, n)
               \/ UpgradeNameFromOperatorStake(u, n) \/ UpgradeNameFromWithdrawal(u, n)
               \/ UpgradeNameFromFundingPlan(u, n)
      PROVE  MoneyTypeOK'
  <2>1. \E via \in Vias : UpgradeNameWith(via, u, n)
    BY <1>1 DEF Vias, UpgradeName, UpgradeNameFromDelegation, UpgradeNameFromOperatorStake, UpgradeNameFromWithdrawal, UpgradeNameFromFundingPlan
  <2>. QED BY <2>1, UpgradePaid
<1>2. ASSUME NEW y \in 1 .. MaxLeaseYears,
             ExtendLease(u, n, y) \/ ExtendLeaseFromDelegation(u, n, y)
               \/ ExtendLeaseFromOperatorStake(u, n, y) \/ ExtendLeaseFromWithdrawal(u, n, y)
               \/ ExtendLeaseFromFundingPlan(u, n, y)
      PROVE  MoneyTypeOK'
  <2>1. \E via \in Vias : ExtendLeaseWith(via, u, n, y)
    BY <1>2 DEF Vias, ExtendLease, ExtendLeaseFromDelegation, ExtendLeaseFromOperatorStake, ExtendLeaseFromWithdrawal, ExtendLeaseFromFundingPlan
  <2>. QED BY <2>1, ExtendPaid
<1>3. ASSUME NEW q \in 1 .. MaxUndernames,
             IncreaseUndernameLimit(u, n, q) \/ IncreaseUndernameLimitFromDelegation(u, n, q)
               \/ IncreaseUndernameLimitFromOperatorStake(u, n, q) \/ IncreaseUndernameLimitFromWithdrawal(u, n, q)
               \/ IncreaseUndernameLimitFromFundingPlan(u, n, q)
      PROVE  MoneyTypeOK'
  <2>1. \E via \in Vias : IncreaseUndernameLimitWith(via, u, n, q)
    BY <1>3 DEF Vias, IncreaseUndernameLimit, IncreaseUndernameLimitFromDelegation, IncreaseUndernameLimitFromOperatorStake, IncreaseUndernameLimitFromWithdrawal, IncreaseUndernameLimitFromFundingPlan
  <2>. QED BY <2>1, UndernamesPaid
<1>4. ASSUME NEW a \in Assets, ReassignName(u, n, a) PROVE MoneyTypeOK'
  BY <1>4 DEF ReassignName, MoneyTypeOK
<1>5. CASE ReleaseName(u, n)
  BY <1>5 DEF ReleaseName, OpenAuction, MoneyTypeOK
<1>. QED BY <1>1, <1>2, <1>3, <1>4, <1>5

\* and the rest moves no money.
LEMMA UpkeepPaid ==
  ASSUME NamesInv, MoneyTypeOK, UpkeepNext
  PROVE  MoneyTypeOK'
<1>1. ASSUME NEW n \in Names, PruneNameToReturned(n) PROVE MoneyTypeOK'
  BY <1>1 DEF PruneNameToReturned, OpenAuction, MoneyTypeOK
<1>2. ASSUME NEW n \in Names, PruneExpiredNames(n) PROVE MoneyTypeOK'
  BY <1>2 DEF PruneExpiredNames, MoneyTypeOK
<1>3. ASSUME NEW n \in Names, PruneReturnedNames(n) PROVE MoneyTypeOK'
  BY <1>3 DEF PruneReturnedNames, MoneyTypeOK
<1>4. ASSUME NEW n \in Names, PruneExpiredReservation(n) PROVE MoneyTypeOK'
  BY <1>4 DEF PruneExpiredReservation, CloseReservation, MoneyTypeOK
<1>5. ASSUME UpdateDemandFactor, UNCHANGED <<names, registry, capacity, holder, funds, treasury>>
      PROVE  MoneyTypeOK'
  <2>1. demand' = Rolled
    BY <1>5 DEF UpdateDemandFactor, Rolled
  <2>2. demand' \in DemandFactor
    BY <2>1, RolledType
  <2>. QED BY <1>5, <2>2 DEF names, MoneyTypeOK
<1>. QED BY <1>1, <1>2, <1>3, <1>4, <1>5 DEF UpkeepNext

\* Nor does the authority.
LEMMA AuthorityPaid ==
  ASSUME NamesInv, MoneyTypeOK, AuthorityNext
  PROVE  MoneyTypeOK'
<1>1. ASSUME NEW n \in Names, NEW r \in Reservations[n], ReserveName(n, r) PROVE MoneyTypeOK'
  <2>1. r \in ReservedName
    BY NamesAssumption
  <2>. QED BY <1>1, <2>1 DEF ReserveName, MoneyTypeOK
<1>2. ASSUME NEW n \in Names, ClaimReservedName(n) \/ UnreserveName(n) PROVE MoneyTypeOK'
  BY <1>2 DEF ClaimReservedName, UnreserveName, CloseReservation, MoneyTypeOK
<1>3. ASSUME NEW c \in 1 .. MaxCapacity, AdminExpandNameRegistry(c) PROVE MoneyTypeOK'
  BY <1>3 DEF AdminExpandNameRegistry, names, MoneyTypeOK
<1>. QED BY <1>1, <1>2, <1>3 DEF AuthorityNext

\* The money keeps its types in every step.
LEMMA MoneyStep ==
  ASSUME NamesInv, MoneyTypeOK, [Next]_vars
  PROVE  MoneyTypeOK'
<1>1. ASSUME NEW a \in Assets, NEW u \in Users, Trade(a, u) PROVE MoneyTypeOK'
  BY <1>1 DEF Trade, names, MoneyTypeOK
<1>2. CASE Tick
  BY <1>2 DEF Tick, names, MoneyTypeOK
<1>3. CASE UNCHANGED vars
  BY <1>3 DEF vars, names, MoneyTypeOK
<1>. QED BY <1>1, <1>2, <1>3, BuyPaid, ManagePaid, UpkeepPaid, AuthorityPaid DEF Next

\* The accounts the program is initialised with.
LEMMA MoneyInit ==
  ASSUME Init
  PROVE  MoneyTypeOK
<1>. USE DEF Init
<1>1. InitialDemand \in DemandFactor
  BY PriceConstants DEF InitialDemand, DemandFactor, FeeTable
<1>2. funds \in [Users -> Purse]
  BY NamesAssumption DEF Purse
<1>3. reserved \in [Names -> ReservedName \cup {None}]
  OBVIOUS
<1>. QED BY <1>1, <1>2, <1>3 DEF MoneyTypeOK

(***************************************************************************)
(* Every account of the registry keeps its type: no payment in any of its  *)
(* five variants, whatever it draws on, leaves a purse below zero, and the *)
(* auction premium and the discounted price never turn negative.           *)
(***************************************************************************)
THEOREM ArnsTypeCorrect == Spec => []TypeOK
<1>1. Init => NamesInv /\ MoneyTypeOK
  BY NamesInit, MoneyInit
<1>2. NamesInv /\ MoneyTypeOK /\ [Next]_vars => (NamesInv /\ MoneyTypeOK)'
  BY NamesStep, MoneyStep
<1>3. NamesInv /\ MoneyTypeOK => TypeOK
  BY DEF NamesInv, NamesTypeOK, MoneyTypeOK, TypeOK, Purse
<1>. QED BY <1>1, <1>2, <1>3, PTL DEF Spec

(***************************************************************************)
(* Rolling the demand factor late changes nothing: in every reachable      *)
(* state, bringing the account up to date at the next period or k periods  *)
(* later, by the per-period loop or by the closed form of                  *)
(* maybe_roll_demand_period, ends the same.  RollingComposes says it of    *)
(* any two moments and of any account.                                     *)
(***************************************************************************)
THEOREM LazyIsEagerHolds == Spec => []LazyIsEager
<1>1. TypeOK => LazyIsEager
  <2>1. MaxRollover \in Nat
    BY PriceConstants
  <2>2. 2 * MaxRollover + 1 \in Nat
    BY <2>1
  <2>. QED BY <2>2, TimelyFor DEF TypeOK, LazyIsEager
<1>. QED BY <1>1, ArnsTypeCorrect, PTL
=============================================================================
