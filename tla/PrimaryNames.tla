---------------------------- MODULE PrimaryNames ----------------------------
(***************************************************************************)
(* The primary names of ario-core, composed with ario-ant: a wallet may    *)
(* carry one name, an undername of an ArNS base name, if the owner of that *)
(* undername says so.  The program asks ario-ant's accounts who that is    *)
(* and never looks at the Metaplex asset itself.                           *)
(***************************************************************************)
EXTENDS AntRecords

CONSTANTS
  Bases,           \* ArNS base names
  Permanent,       \* the end of a permabuy
  LeaseEnds,       \* ends of leases ario-arns is seen to write
  GracePeriod,     \* LEASE_GRACE_PERIOD
  RequestExpiry,   \* config.primary_name_request_expiry
  LeaseFee,        \* PRIMARY_NAME_REQUEST_BASE_FEE_LEASE
  PermabuyFee,     \* PRIMARY_NAME_REQUEST_BASE_FEE_PERMABUY
  DemandFactor,    \* DemandFactor.current_demand_factor
  Scale,           \* DEMAND_FACTOR_SCALE
  InitialFunds,    \* wallet and stake of every holder
  MaxTime          \* bound on the clock

\* "blog_base" is <<"blog", base>>, "base" is <<"@", base>>.
Names == Undernames \X Bases
BaseOf(n) == n[2]
UndernameOf(n) == n[1]

ASSUME PrimaryAssumption ==
  /\ Permanent \notin Nat /\ LeaseEnds \subseteq Nat
  /\ GracePeriod \in Nat /\ RequestExpiry \in Nat \ {0}
  /\ Scale \in Nat \ {0} /\ DemandFactor \in Nat
  /\ LeaseFee \in Nat /\ PermabuyFee \in Nat
  /\ Closed \notin Names

VARIABLES
  now,      \* Clock::unix_timestamp
  arns,     \* base -> ArnsRecord, or Closed
  request,  \* wallet -> PrimaryNameRequest, or Closed
  primary,  \* wallet -> PrimaryName.name, or Closed
  reverse,  \* name -> PrimaryNameReverse.owner, or Closed
  funds,    \* wallet -> its tokens and its stake
  treasury  \* SPL balance of config.treasury

nameVars == <<now, arns, request, primary, reverse, funds, treasury>>
vars == <<antVars, nameVars>>

ArnsRecord == [ant : Ants, end : LeaseEnds \cup {Permanent}]
PrimaryNameRequest == [name : Names, expires : Nat]

NamesTypeOK ==
  /\ now \in Nat
  /\ arns \in [Bases -> ArnsRecord \cup {Closed}]
  /\ request \in [Holders -> PrimaryNameRequest \cup {Closed}]
  /\ primary \in [Holders -> Names \cup {Closed}]
  /\ reverse \in [Names -> Holders \cup {Closed}]

-----------------------------------------------------------------------------
(* What the program reads from the other programs' accounts.               *)

\* verify_arns_record_active: a lease counts through its grace period.
RecordActive(b) == arns[b].end # Permanent => arns[b].end + GracePeriod >= now

\* validate_arns_record_exists
ValidateArnsRecordExists(b) == arns[b] # Closed /\ RecordActive(b)

\* primary_name_base_fee, scaled by read_demand_factor
PrimaryNameBaseFee(b) == IF arns[b].end = Permanent THEN PermabuyFee ELSE LeaseFee
Fee(b) == (PrimaryNameBaseFee(b) * DemandFactor) \div Scale

\* read_ant_record_owner, read_ant_config_last_known_owner
RecordReadable(a, u) == record[a][u] # Closed /\ config[a] # Closed

\* Mutant: a record that was not reconciled since the sale keeps its delegate.
ReadRecordOwnerStale(a, u) ==
  IF record[a][u].owner = NoHolder THEN config[a] ELSE record[a][u].owner

ReadAntRecordOwner(a, u) ==
  IF record[a][u].lro # config[a] \/ record[a][u].owner = NoHolder
  THEN config[a]
  ELSE record[a][u].owner

\* c decides over name n.
Decides(c, n) ==
  /\ RecordReadable(arns[BaseOf(n)].ant, UndernameOf(n))
  /\ ReadAntRecordOwner(arns[BaseOf(n)].ant, UndernameOf(n)) = c

\* The fee, from the wallet alone or with w of it from the wallet and the
\* rest from stake (pay_from_funding_plan of ario-gar).
PayFee(u, fee, w) ==
  /\ w <= fee
  /\ funds[u].wallet >= w /\ funds[u].stake >= fee - w
  /\ funds' = [funds EXCEPT ![u].wallet = @ - w, ![u].stake = @ - (fee - w)]
  /\ treasury' = treasury + fee

-----------------------------------------------------------------------------

RequestPrimaryNameAccounts(u) == request[u] = Closed

Requested(u, n) ==
  request' = [request EXCEPT ![u] = [name |-> n, expires |-> now + RequestExpiry]]

RequestPrimaryName(u, n) ==
  /\ RequestPrimaryNameAccounts(u)
  /\ ValidateArnsRecordExists(BaseOf(n))
  /\ PayFee(u, Fee(BaseOf(n)), Fee(BaseOf(n)))
  /\ Requested(u, n)
  /\ UNCHANGED <<antVars, now, arns, primary, reverse>>

RequestFromFundingPlanAccounts(u) == request[u] = Closed

RequestPrimaryNameFromFundingPlan(u, n, w) ==
  /\ RequestFromFundingPlanAccounts(u)
  /\ ValidateArnsRecordExists(BaseOf(n))
  /\ PayFee(u, Fee(BaseOf(n)), w)
  /\ Requested(u, n)
  /\ UNCHANGED <<antVars, now, arns, primary, reverse>>

\* Mutant: the wallet's account is checked, the name's is overwritten.
SetAccountsForward(u, n) == primary[u] \in {Closed, n}

\* One name per wallet, one wallet per name; setting the same again is allowed.
SetAccounts(u, n) == primary[u] \in {Closed, n} /\ reverse[n] \in {Closed, u}

SetPair(u, n) ==
  /\ SetAccounts(u, n)
  /\ primary' = [primary EXCEPT ![u] = n]
  /\ reverse' = [reverse EXCEPT ![n] = u]

RequestAndSetPrimaryName(u, n) ==
  /\ ValidateArnsRecordExists(BaseOf(n))
  /\ Decides(u, n)
  /\ PayFee(u, Fee(BaseOf(n)), Fee(BaseOf(n)))
  /\ SetPair(u, n)
  /\ UNCHANGED <<antVars, now, arns, request>>

RequestAndSetPrimaryNameFromFundingPlan(u, n, w) ==
  /\ ValidateArnsRecordExists(BaseOf(n))
  /\ Decides(u, n)
  /\ PayFee(u, Fee(BaseOf(n)), w)
  /\ SetPair(u, n)
  /\ UNCHANGED <<antVars, now, arns, request>>

ApproveAccounts(u) == request[u] # Closed

\* PrimaryNameRequest::is_expired
IsExpired(r) == now >= r.expires

\* c approves u's request; ario-arns and ario-ant are read as they are now.
ApprovePrimaryName(u, c) ==
  /\ ApproveAccounts(u)
  /\ ~IsExpired(request[u])
  /\ ValidateArnsRecordExists(BaseOf(request[u].name))
  /\ Decides(c, request[u].name)
  /\ SetPair(u, request[u].name)
  /\ request' = [request EXCEPT ![u] = Closed]
  /\ UNCHANGED <<antVars, now, arns, funds, treasury>>

CloseExpiredRequest(u) ==
  /\ request[u] # Closed
  /\ IsExpired(request[u])
  /\ request' = [request EXCEPT ![u] = Closed]
  /\ UNCHANGED <<antVars, now, arns, primary, reverse, funds, treasury>>

\* Both accounts are closed together, the reverse one by the name's hash.
Unset(u) ==
  /\ reverse[primary[u]] # Closed
  /\ reverse' = [reverse EXCEPT ![primary[u]] = Closed]
  /\ primary' = [primary EXCEPT ![u] = Closed]
  /\ UNCHANGED <<antVars, now, arns, request, funds, treasury>>

RemovePrimaryNameAccounts(u) == primary[u] # Closed

RemovePrimaryName(u) ==
  /\ RemovePrimaryNameAccounts(u)
  /\ Unset(u)

RemoveForBaseNameAccounts(u) == primary[u] # Closed

\* c owns the base name the primary name of u hangs on.
RemovePrimaryNameForBaseName(u, c) ==
  /\ RemoveForBaseNameAccounts(u)
  /\ ValidateArnsRecordExists(BaseOf(primary[u]))
  /\ Decides(c, <<"@", BaseOf(primary[u])>>)
  /\ Unset(u)

PrimaryNext ==
  \E u \in Holders :
    \/ \E n \in Names : RequestPrimaryName(u, n)
    \/ \E n \in Names : RequestAndSetPrimaryName(u, n)
    \/ \E c \in Holders : ApprovePrimaryName(u, c)
    \/ CloseExpiredRequest(u)
    \/ RemovePrimaryName(u)
    \/ \E c \in Holders : RemovePrimaryNameForBaseName(u, c)
    \/ \E n \in Names, w \in 0 .. funds[u].wallet : RequestPrimaryNameFromFundingPlan(u, n, w)
    \/ \E n \in Names, w \in 0 .. funds[u].wallet :
         RequestAndSetPrimaryNameFromFundingPlan(u, n, w)

-----------------------------------------------------------------------------

\* ario-arns sells, extends, upgrades, reassigns, releases and prunes names.
ArnsChanges(b, r) ==
  /\ arns[b] # r
  /\ arns' = [arns EXCEPT ![b] = r]
  /\ UNCHANGED <<antVars, now, request, primary, reverse, funds, treasury>>

Tick ==
  /\ now < MaxTime
  /\ now' = now + 1
  /\ UNCHANGED <<antVars, arns, request, primary, reverse, funds, treasury>>

Init ==
  /\ AntInit
  /\ now = 0
  /\ arns = [b \in Bases |-> Closed]
  /\ request = [u \in Holders |-> Closed]
  /\ primary = [u \in Holders |-> Closed]
  /\ reverse = [n \in Names |-> Closed]
  /\ funds = InitialFunds
  /\ treasury = 0

\* The steps of ario-ant that change who decides over a name.
AntStep ==
  /\ \/ RecordNext
     \/ \E a \in Ants : Reconcile(a)
     \/ \E a \in Ants, u \in Holders : Trade(a, u)
     \/ \E a \in Ants, n \in Undernames, c \in Holders : CloseAntRecord(a, n, c)
  /\ UNCHANGED nameVars

Next ==
  \/ PrimaryNext
  \/ \E b \in Bases, r \in ArnsRecord \cup {Closed} : ArnsChanges(b, r)
  \/ Tick
  \/ AntStep

Spec == Init /\ [][Next]_vars

-----------------------------------------------------------------------------
(* Properties *)

(* A wallet's name leads back to the wallet: the two accounts are created,   *)
(* re-used and closed together, in whatever order wallets and name owners    *)
(* request, approve, set and remove.                                         *)
NamesPaired ==
  /\ \A u \in Holders : primary[u] # Closed => reverse[primary[u]] = u
  /\ \A n \in Names : reverse[n] # Closed => primary[reverse[n]] = n

\* c holds the asset, or was named the undername's delegate by the holder.
Rightful(c, a, u) == c = nft[a] \/ (record[a][u].owner = c /\ record[a][u].by = nft[a])

\* This step gives u the name n on the word of c.
Gives(c, u, n) ==
  \/ c = u /\ RequestAndSetPrimaryName(u, n)
  \/ c = u /\ \E w \in 0 .. Fee(BaseOf(n)) : RequestAndSetPrimaryNameFromFundingPlan(u, n, w)
  \/ ApprovePrimaryName(u, c)

(* Unless the asset was sold behind the program's back and nobody has        *)
(* reconciled it since, a name is given only on the word of the present      *)
(* holder of the ANT behind it, or of the delegate that holder named, and    *)
(* only while the lease runs: as things are at the approval, not as they     *)
(* were at the request.                                                      *)
NamesByRight ==
  [][\A u \in Holders : primary'[u] \notin {primary[u], Closed} =>
       LET n == primary'[u]
           r == arns[BaseOf(n)] IN
       /\ r # Closed
       /\ r.end = Permanent \/ now <= r.end + GracePeriod
       /\ config[r.ant] = nft[r.ant] =>
            \A c \in Holders : Gives(c, u, n) => Rightful(c, r.ant, UndernameOf(n))]_vars
=============================================================================
