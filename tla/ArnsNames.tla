------------------------------ MODULE ArnsNames ------------------------------
(***************************************************************************)
(* The registry of ArNS names (ario-arns: purchase.rs, manage.rs, prune.rs, *)
(* reserved.rs and their variants paid from stake).  A name has at most one *)
(* ArnsRecord, a lease or a permanent purchase bound to an ANT; a name that *)
(* was given up or ran out is sold by auction through a ReturnedName; the   *)
(* authority may hold a name back with a ReservedName; and the NameRegistry *)
(* lists the names in use for the epochs of ario-gar.                       *)
(*                                                                         *)
(* A payer's stake is kept by ario-gar and drawn through a CPI (module      *)
(* StakeLedger has its rules); here a purse says how much GAR would release *)
(* of each source.  The total_names_registered and next_*_prune_timestamp   *)
(* fields of ArnsConfig are written and never read, and left out, as are    *)
(* the owner and the price stored in a record.                              *)
(***************************************************************************)
EXTENDS DemandPricing

CONSTANTS
  Users, Names,
  Assets,           \* MPL Core assets: ANTs a name may be bound to
  LengthOf,         \* length of each name
  Protocol,         \* the ArnsConfig address, initiator of an expired name
  Permanent,        \* end_timestamp = None (a permabuy)
  None,
  Year, MaxLeaseYears, Grace,  \* ONE_YEAR_SECONDS, ..., GRACE_PERIOD_SECONDS
  DefaultUndernames, MaxUndernames,
  Qualified,        \* users whose gateway passes the discount's conditions
  Purses,           \* what the users may have to spend at first
  Imported,         \* ends of the leases the migration brought in
  Capacity,         \* slots create_name_registry made
  MaxIncrease,      \* slots one admin_expand_name_registry may add
  Reservations,     \* the reservations the authority may make of each name
  MaxCapacity, MaxTime  \* bounds

Terms == 1 .. MaxLeaseYears \cup {Permanent}
Sources == {"balance", "delegation", "operator_stake", "withdrawal"}

ArnsRecord == [ant : Assets, end : Nat \cup {Permanent}, undernames : Nat]
ReturnedName == [initiator : Users \cup {Protocol}, at : Nat]
ReservedName == [for : Users \cup {None}, expires : Nat \cup {Permanent}]

ASSUME NamesAssumption ==
  /\ {Year, MaxLeaseYears, DefaultUndernames} \subseteq Nat \ {0}
  /\ LengthOf \in [Names -> Lengths]
  /\ Grace \in Nat /\ Qualified \subseteq Users /\ DOMAIN Imported \subseteq Names
  /\ Protocol \notin Users /\ None \notin Users
  /\ None \notin ArnsRecord /\ None \notin ReturnedName
  /\ {Capacity, MaxIncrease} \subseteq Nat /\ IsFiniteSet(DOMAIN Imported)
  /\ Cardinality(DOMAIN Imported) <= Capacity
  /\ \A n \in DOMAIN Imported :
       Imported[n] # Permanent => Imported[n] \in 0 .. MaxLeaseYears * Year
  /\ \A f \in Purses : f \in [Users -> [Sources -> Nat]]
  /\ Reservations \in [Names -> SUBSET ReservedName]

VARIABLES
  record, returned, reserved,  \* the accounts of each name, None if closed
  registry,                    \* the slots of the NameRegistry in use
  capacity,                    \* slots the account has room for
  holder,                      \* owner of each MPL Core asset
  funds,                       \* [Users -> [Sources -> Nat]]
  treasury                     \* the protocol token account

names == <<record, returned, reserved>>
vars == <<now, demand, names, registry, capacity, holder, funds, treasury>>

Registered == {n \in Names : record[n] # None}
IsLease(r) == r.end # Permanent
IsActive(r) == IsLease(r) => r.end >= now
IsInGracePeriod(r) == IsLease(r) /\ r.end < now /\ now <= r.end + Grace

-----------------------------------------------------------------------------
(* The name registry. *)

AppendEntry(n) ==
  /\ Len(registry) < capacity
  /\ registry' = Append(registry, n)

\* Mutant: the last slot is dropped without moving its entry.
RemoveLastEntry(n) ==
  registry' = IF n \in Range(registry) THEN SubSeq(registry, 1, Len(registry) - 1)
                                       ELSE registry

\* remove_name_entry_by_hash: the last entry moves into the free slot.
RemoveEntry(n) ==
  LET found == {i \in DOMAIN registry : registry[i] = n}
      idx   == CHOOSE i \in found : \A j \in found : i <= j
      last  == Len(registry)
  IN  registry' = IF found = {} THEN registry
                  ELSE SubSeq([registry EXCEPT ![idx] = registry[last]],
                              1, last - 1)

AdminExpandNameRegistry(target) ==
  /\ capacity < target
  /\ capacity' = IF capacity + MaxIncrease < target
                   THEN capacity + MaxIncrease ELSE target
  /\ UNCHANGED <<now, demand, names, registry, holder, funds, treasury>>

-----------------------------------------------------------------------------
(* Payments: the purses a payment of cost may leave of the purse p. *)

FromBalance(p, cost) ==
  {q \in {[p EXCEPT !.balance = @ - cost]} : q.balance >= 0}

CpiDeduct(p, source, cost) ==
  {q \in {[p EXCEPT ![source] = @ - cost]} : cost > 0 /\ q[source] >= 0}

CpiDeductDelegation(p, cost) == CpiDeduct(p, "delegation", cost)
CpiDeductOperatorStake(p, cost) == CpiDeduct(p, "operator_stake", cost)
CpiDeductWithdrawal(p, cost) == CpiDeduct(p, "withdrawal", cost)

\* A plan names any split of the cost over the payer's sources.
CpiPayFromFundingPlan(p, cost) ==
  LET staked(s) == s[1] + s[2] + s[3]
      split == {s \in (0 .. p.delegation) \X (0 .. p.operator_stake)
                        \X (0 .. p.withdrawal) :
                  cost > 0 /\ staked(s) <= cost
                           /\ cost - staked(s) <= p.balance}
  IN  {[balance |-> p.balance - (cost - staked(s)),
        delegation |-> p.delegation - s[1],
        operator_stake |-> p.operator_stake - s[2],
        withdrawal |-> p.withdrawal - s[3]] : s \in split}

\* What the five variants of an instruction draw a cost from.
Draw(via, p, cost) ==
  CASE via = "balance"        -> FromBalance(p, cost)
    [] via = "delegation"     -> CpiDeductDelegation(p, cost)
    [] via = "operator_stake" -> CpiDeductOperatorStake(p, cost)
    [] via = "withdrawal"     -> CpiDeductWithdrawal(p, cost)
    [] via = "plan"           -> CpiPayFromFundingPlan(p, cost)

\* try_apply_gateway_discount: the payer attaches a gateway or does not; one
\* that fails a condition rejects the purchase.
Costs(u, price) ==
  {price} \cup {ApplyGatewayDiscount(price) : q \in Qualified \cap {u}}

\* All of the cost goes to the treasury.
PayProtocol(via, u, d, cost) ==
  /\ \E p \in Draw(via, funds[u], cost) : funds' = [funds EXCEPT ![u] = p]
  /\ treasury' = treasury + cost
  /\ demand' = Tallied(d, cost)

Pays(via, u, d, price) ==
  \E cost \in Costs(u, price) : PayProtocol(via, u, d, cost)

\* The initiator of the return has the larger half, always from the buyer's
\* balance; the source pays the treasury.
PaySplit(via, u, initiator, d, cost) ==
  LET toProtocol  == IF initiator = Protocol THEN cost ELSE cost \div 2
      toInitiator == cost - toProtocol
  IN  /\ \E p \in Draw(via, funds[u], toProtocol) :
           /\ p.balance >= toInitiator
           /\ LET spent == [funds EXCEPT
                              ![u] = [p EXCEPT !.balance = @ - toInitiator]]
              IN  funds' = IF initiator = Protocol THEN spent
                           ELSE [spent EXCEPT
                                   ![initiator].balance = @ + toInitiator]
      /\ treasury' = treasury + toProtocol
      /\ demand' = Tallied(d, cost)

-----------------------------------------------------------------------------
(* Buying a name. *)

BaseFee(d, n) == d.fees[LengthOf[n]]

RegistrationFee(d, n, term) ==
  IF term = Permanent THEN PermabuyFee(BaseFee(d, n), d.factor)
                      ELSE LeaseFee(BaseFee(d, n), term, d.factor)

NewRecord(ant, term) ==
  [ant |-> ant,
   end |-> IF term = Permanent THEN Permanent ELSE now + term * Year,
   undernames |-> DefaultUndernames]

\* A reservation that has not run out admits only the buyer it names.
Lapsed(r) == r.expires # Permanent /\ now >= r.expires
ReservationAdmits(u, n) ==
  reserved[n] # None /\ ~Lapsed(reserved[n]) => reserved[n].for = u

BuyNameWith(via, u, n, ant, term) ==
  /\ record[n] = None
  /\ ReservationAdmits(u, n)
  /\ returned[n] = None
  /\ LET d == Rolled
         price == RegistrationFee(d, n, term)
     IN  price > 0 /\ Pays(via, u, d, price)
  /\ record' = [record EXCEPT ![n] = NewRecord(ant, term)]
  /\ reserved' = [reserved EXCEPT ![n] = None]
  /\ AppendEntry(n)
  /\ UNCHANGED <<now, returned, capacity, holder>>

BuyName(u, n, a, t) == BuyNameWith("balance", u, n, a, t)
BuyNameFromDelegation(u, n, a, t) ==
  BuyNameWith("delegation", u, n, a, t)
BuyNameFromOperatorStake(u, n, a, t) ==
  BuyNameWith("operator_stake", u, n, a, t)
BuyNameFromWithdrawal(u, n, a, t) ==
  BuyNameWith("withdrawal", u, n, a, t)
BuyNameFromFundingPlan(u, n, a, t) ==
  BuyNameWith("plan", u, n, a, t)

\* Neither a reservation nor the end of the auction stands in the way.
BuyReturnedNameWith(via, u, n, ant, term) ==
  /\ returned[n] # None /\ record[n] = None
  /\ LET d == Rolled
         premium == ReturnedNamePremium(RegistrationFee(d, n, term),
                                        returned[n].at, now)
     IN  /\ premium > 0
         /\ \E cost \in Costs(u, premium) :
              PaySplit(via, u, returned[n].initiator, d, cost)
  /\ record' = [record EXCEPT ![n] = NewRecord(ant, term)]
  /\ returned' = [returned EXCEPT ![n] = None]
  /\ AppendEntry(n)
  /\ UNCHANGED <<now, reserved, capacity, holder>>

BuyReturnedName(u, n, a, t) == BuyReturnedNameWith("balance", u, n, a, t)
BuyReturnedNameFromDelegation(u, n, a, t) ==
  BuyReturnedNameWith("delegation", u, n, a, t)
BuyReturnedNameFromOperatorStake(u, n, a, t) ==
  BuyReturnedNameWith("operator_stake", u, n, a, t)
BuyReturnedNameFromWithdrawal(u, n, a, t) ==
  BuyReturnedNameWith("withdrawal", u, n, a, t)
BuyReturnedNameFromFundingPlan(u, n, a, t) ==
  BuyReturnedNameWith("plan", u, n, a, t)

-----------------------------------------------------------------------------
(* Managing a name.  Anyone may pay for the first three. *)

UpgradeNameWith(via, u, n) ==
  /\ record[n] # None /\ IsLease(record[n])
  /\ IsActive(record[n]) \/ IsInGracePeriod(record[n])
  /\ LET d == Rolled IN Pays(via, u, d, PermabuyFee(BaseFee(d, n), d.factor))
  /\ record' = [record EXCEPT ![n].end = Permanent]
  /\ UNCHANGED <<now, returned, reserved, registry, capacity, holder>>

UpgradeName(u, n) == UpgradeNameWith("balance", u, n)
UpgradeNameFromDelegation(u, n) == UpgradeNameWith("delegation", u, n)
UpgradeNameFromOperatorStake(u, n) ==
  UpgradeNameWith("operator_stake", u, n)
UpgradeNameFromWithdrawal(u, n) == UpgradeNameWith("withdrawal", u, n)
UpgradeNameFromFundingPlan(u, n) ==
  UpgradeNameWith("plan", u, n)

\* Mutant: a year that has begun does not count.
RemainingYearsDown(r) == IF r.end <= now THEN 0 ELSE (r.end - now) \div Year

\* Whole years left on a lease, rounded up; none once it has ended.
RemainingYears(r) ==
  IF r.end <= now THEN 0 ELSE (r.end - now + Year - 1) \div Year

ExtendLeaseWith(via, u, n, years) ==
  /\ record[n] # None /\ IsLease(record[n])
  /\ IsActive(record[n]) \/ IsInGracePeriod(record[n])
  /\ years >= 1 /\ years <= MaxLeaseYears - RemainingYears(record[n])
  /\ LET d == Rolled
     IN  Pays(via, u, d, ExtensionFee(BaseFee(d, n), years, d.factor))
  /\ record' = [record EXCEPT ![n].end = @ + years * Year]
  /\ UNCHANGED <<now, returned, reserved, registry, capacity, holder>>

ExtendLease(u, n, y) == ExtendLeaseWith("balance", u, n, y)
ExtendLeaseFromDelegation(u, n, y) ==
  ExtendLeaseWith("delegation", u, n, y)
ExtendLeaseFromOperatorStake(u, n, y) ==
  ExtendLeaseWith("operator_stake", u, n, y)
ExtendLeaseFromWithdrawal(u, n, y) ==
  ExtendLeaseWith("withdrawal", u, n, y)
ExtendLeaseFromFundingPlan(u, n, y) ==
  ExtendLeaseWith("plan", u, n, y)

IncreaseUndernameLimitWith(via, u, n, qty) ==
  /\ record[n] # None /\ IsActive(record[n])
  /\ qty > 0 /\ record[n].undernames + qty <= MaxUndernames
  /\ LET pct == IF IsLease(record[n]) THEN LeaseUndernamePct
                                      ELSE PermabuyUndernamePct
         d   == Rolled
     IN  Pays(via, u, d, UndernameCost(BaseFee(d, n), qty, pct, d.factor))
  /\ record' = [record EXCEPT ![n].undernames = @ + qty]
  /\ UNCHANGED <<now, returned, reserved, registry, capacity, holder>>

IncreaseUndernameLimit(u, n, q) ==
  IncreaseUndernameLimitWith("balance", u, n, q)
IncreaseUndernameLimitFromDelegation(u, n, q) ==
  IncreaseUndernameLimitWith("delegation", u, n, q)
IncreaseUndernameLimitFromOperatorStake(u, n, q) ==
  IncreaseUndernameLimitWith("operator_stake", u, n, q)
IncreaseUndernameLimitFromWithdrawal(u, n, q) ==
  IncreaseUndernameLimitWith("withdrawal", u, n, q)
IncreaseUndernameLimitFromFundingPlan(u, n, q) ==
  IncreaseUndernameLimitWith("plan", u, n, q)

\* The caller must hold the ANT the name is bound to now.
ReassignName(u, n, ant) ==
  /\ record[n] # None /\ holder[record[n].ant] = u
  /\ IsActive(record[n]) /\ ~IsInGracePeriod(record[n])
  /\ ant # record[n].ant
  /\ record' = [record EXCEPT ![n].ant = ant]
  /\ UNCHANGED <<now, demand, returned, reserved, registry, capacity, holder,
                 funds, treasury>>

\* The record is closed and an auction opened (init ReturnedName).
OpenAuction(n, initiator) ==
  /\ returned[n] = None
  /\ returned' = [returned EXCEPT ![n] = [initiator |-> initiator, at |-> now]]
  /\ record' = [record EXCEPT ![n] = None]
  /\ RemoveEntry(n)
  /\ UNCHANGED <<now, demand, reserved, capacity, holder, funds, treasury>>

ReleaseName(u, n) ==
  /\ record[n] # None /\ holder[record[n].ant] = u
  /\ ~IsLease(record[n])
  /\ OpenAuction(n, u)

-----------------------------------------------------------------------------
(* Pruning (permissionless).  prune_expired_names and prune_returned_names   *)
(* take a batch; each account is handled on its own, at the same clock.      *)

\* Mutant: the grace period is forgotten.
PruneAtEnd(n) ==
  /\ record[n] # None /\ IsLease(record[n])
  /\ now > record[n].end
  /\ OpenAuction(n, Protocol)

PruneNameToReturned(n) ==
  /\ record[n] # None /\ IsLease(record[n])
  /\ now > record[n].end + Grace
  /\ OpenAuction(n, Protocol)

PruneExpiredNames(n) ==
  /\ record[n] # None /\ IsLease(record[n])
  /\ now > record[n].end + Grace + AuctionDuration
  /\ record' = [record EXCEPT ![n] = None]
  /\ RemoveEntry(n)
  /\ UNCHANGED <<now, demand, returned, reserved, capacity, holder, funds,
                 treasury>>

PruneReturnedNames(n) ==
  /\ returned[n] # None /\ now >= returned[n].at + AuctionDuration
  /\ returned' = [returned EXCEPT ![n] = None]
  /\ UNCHANGED <<now, demand, record, reserved, registry, capacity, holder,
                 funds, treasury>>

-----------------------------------------------------------------------------
(* Reservations, by the authority.  Nothing looks at the name's record. *)

ReserveName(n, r) ==
  /\ reserved[n] = None
  /\ reserved' = [reserved EXCEPT ![n] = r]
  /\ UNCHANGED <<now, demand, record, returned, registry, capacity, holder,
                 funds, treasury>>

CloseReservation(n) ==
  /\ reserved[n] # None
  /\ reserved' = [reserved EXCEPT ![n] = None]
  /\ UNCHANGED <<now, demand, record, returned, registry, capacity, holder,
                 funds, treasury>>

ClaimReservedName(n) == CloseReservation(n)
UnreserveName(n) == CloseReservation(n)
PruneExpiredReservation(n) ==
  /\ reserved[n] # None /\ Lapsed(reserved[n])
  /\ CloseReservation(n)

-----------------------------------------------------------------------------
\* An MPL Core transfer of an ANT.
Trade(ant, u) ==
  /\ holder[ant] # u
  /\ holder' = [holder EXCEPT ![ant] = u]
  /\ UNCHANGED <<now, demand, names, registry, capacity, funds, treasury>>

Tick ==
  /\ now < MaxTime
  /\ now' = now + 1
  /\ UNCHANGED <<demand, names, registry, capacity, holder, funds, treasury>>

Init ==
  /\ now = 0 /\ demand = InitialDemand
  /\ holder \in [Assets -> Users]
  /\ \E ant \in Assets :
       record = [n \in Names |-> IF n \in DOMAIN Imported
                                   THEN [NewRecord(ant, Permanent) EXCEPT
                                           !.end = Imported[n]]
                                   ELSE None]
  /\ returned = [n \in Names |-> None]
  /\ reserved = [n \in Names |-> None]
  /\ registry \in {s \in [1 .. Cardinality(DOMAIN Imported) -> DOMAIN Imported] :
                     Range(s) = DOMAIN Imported}
  /\ capacity = Capacity
  /\ funds \in Purses
  /\ treasury = 0

BuyNext ==
  \E u \in Users, n \in Names, a \in Assets, t \in Terms :
    \/ BuyName(u, n, a, t)
    \/ BuyNameFromDelegation(u, n, a, t)
    \/ BuyNameFromOperatorStake(u, n, a, t)
    \/ BuyNameFromWithdrawal(u, n, a, t)
    \/ BuyNameFromFundingPlan(u, n, a, t)
    \/ BuyReturnedName(u, n, a, t)
    \/ BuyReturnedNameFromDelegation(u, n, a, t)
    \/ BuyReturnedNameFromOperatorStake(u, n, a, t)
    \/ BuyReturnedNameFromWithdrawal(u, n, a, t)
    \/ BuyReturnedNameFromFundingPlan(u, n, a, t)

ManageNext ==
  \E u \in Users, n \in Names :
    \/ UpgradeName(u, n)
    \/ UpgradeNameFromDelegation(u, n)
    \/ UpgradeNameFromOperatorStake(u, n)
    \/ UpgradeNameFromWithdrawal(u, n)
    \/ UpgradeNameFromFundingPlan(u, n)
    \/ \E y \in 1 .. MaxLeaseYears :
         \/ ExtendLease(u, n, y)
         \/ ExtendLeaseFromDelegation(u, n, y)
         \/ ExtendLeaseFromOperatorStake(u, n, y)
         \/ ExtendLeaseFromWithdrawal(u, n, y)
         \/ ExtendLeaseFromFundingPlan(u, n, y)
    \/ \E q \in 1 .. MaxUndernames :
         \/ IncreaseUndernameLimit(u, n, q)
         \/ IncreaseUndernameLimitFromDelegation(u, n, q)
         \/ IncreaseUndernameLimitFromOperatorStake(u, n, q)
         \/ IncreaseUndernameLimitFromWithdrawal(u, n, q)
         \/ IncreaseUndernameLimitFromFundingPlan(u, n, q)
    \/ \E a \in Assets : ReassignName(u, n, a)
    \/ ReleaseName(u, n)

UpkeepNext ==
  \/ \E n \in Names : \/ PruneNameToReturned(n)
                      \/ PruneExpiredNames(n)
                      \/ PruneReturnedNames(n)
                      \/ PruneExpiredReservation(n)
  \/ UpdateDemandFactor
       /\ UNCHANGED <<names, registry, capacity, holder, funds, treasury>>

AuthorityNext ==
  \/ \E n \in Names :
       \/ \E r \in Reservations[n] : ReserveName(n, r)
       \/ ClaimReservedName(n)
       \/ UnreserveName(n)
  \/ \E c \in 1 .. MaxCapacity : AdminExpandNameRegistry(c)

Next ==
  \/ BuyNext \/ ManageNext \/ UpkeepNext \/ AuthorityNext
  \/ \E a \in Assets, u \in Users : Trade(a, u)
  \/ Tick

Spec == Init /\ [][Next]_vars

-----------------------------------------------------------------------------
(* Properties. *)

TypeOK ==
  /\ now \in Nat /\ demand \in DemandFactor
  /\ record \in [Names -> ArnsRecord \cup {None}]
  /\ returned \in [Names -> ReturnedName \cup {None}]
  /\ reserved \in [Names -> ReservedName \cup {None}]
  /\ registry \in Seq(Names) /\ capacity \in Nat
  /\ holder \in [Assets -> Users]
  /\ funds \in [Users -> [Sources -> Nat]] /\ treasury \in Nat

\* The registry the epochs draw names from lists every name in use once and
\* no other, whichever of buying, release, the two prunes and their swap
\* removals came before, and no name is at once in use and up for auction.
RegistryMirrors ==
  /\ Range(registry) = Registered
  /\ Len(registry) = Cardinality(Registered)
  /\ Len(registry) <= capacity
  /\ \A n \in Registered : returned[n] = None

\* No sequence of extensions, in the lease or in its grace period, carries a
\* lease further than the maximal term from the present: the years an
\* extend_lease may add are counted from what is left, rounded up.
LeaseHorizon ==
  \A n \in Registered :
    IsLease(record[n]) => record[n].end <= now + MaxLeaseYears * Year

\* A name leaves its record only when the holder of its ANT gives it up, or
\* when its lease and its grace period are over; until then a record keeps
\* its term (a lease is never cut short) and its undernames.
GraceProtects ==
  [][\A n \in Registered :
       IF record'[n] = None
         THEN \/ /\ ~IsLease(record[n]) /\ returned'[n] # None
                 /\ returned'[n].initiator = holder[record[n].ant]
              \/ IsLease(record[n]) /\ now > record[n].end + Grace
         ELSE /\ record'[n].undernames >= record[n].undernames
              /\ record'[n].end # Permanent
                   => IsLease(record[n]) /\ record'[n].end >= record[n].end
    ]_vars

\* The price of a name does not depend on how late the demand factor rolls.
LazyIsEager == RollingIsTimely(2 * MaxRollover + 1)
=============================================================================
