----------------------------- MODULE AntRecords -----------------------------
(***************************************************************************)
(* ario-ant: the accounts kept for every ANT (a Metaplex Core asset) and   *)
(* the per-user access index (ACL).  The asset can change hands without    *)
(* this program: it notices only when somebody calls it, and reconciles    *)
(* lazily.  Strings (targets, names, logos, keywords) are not modelled, so *)
(* an instruction that only rewrites one of them leaves no trace but the   *)
(* reconciliation it does on the way.                                      *)
(***************************************************************************)
EXTENDS Integers, FiniteSets, FiniteSetsExt, Functions

CONSTANTS
  Holders,         \* wallets
  NoHolder,        \* Option::None, and the owner of a burned asset
  Ants,            \* ANT assets
  Undernames,      \* undernames, "@" among them
  Closed,          \* an account that does not exist
  MaxControllers,  \* MAX_CONTROLLERS
  MaxPageEntries,  \* MAX_ACL_PAGE_ENTRIES
  MaxPages,        \* bound on the ACL pages of one user
  AclHolders,      \* bound: wallets whose ACL is exercised
  Described,       \* bound: undernames whose metadata is exercised
  AntAuthority     \* AntMigrationConfig.authority

\* page_idx is the index of a page; total is AclConfig.total_entries.
AclEntry == Ants \X {"owner", "controller"}
AclConfig == [pages : UNION {[1 .. n -> SUBSET AclEntry] : n \in 0 .. MaxPages}, total : Nat]

ASSUME AntAssumption ==
  /\ IsFiniteSet(Holders) /\ IsFiniteSet(Ants)
  /\ NoHolder \notin Holders /\ Closed \notin Holders /\ Closed # NoHolder
  /\ "@" \in Undernames
  /\ MaxControllers \in Nat /\ MaxPageEntries \in Nat /\ MaxPages \in Nat
  /\ AclHolders \subseteq Holders /\ Described \subseteq Undernames
  /\ AntAuthority \in Holders
  /\ Closed \notin AclConfig

VARIABLES
  nft,          \* asset -> owner in the MPL Core account, NoHolder once burned
  config,       \* asset -> AntConfig.last_known_owner, or Closed
  controllers,  \* asset -> AntControllers as a set of Grants, or Closed
  record,       \* asset -> undername -> AntRecord, or Closed
  metadata,     \* asset -> undernames that have an AntRecordMetadata
  acl           \* user -> AclConfig with its pages, or Closed

antVars == <<nft, config, controllers, record, metadata, acl>>

\* by is history: the holder of the asset when the controller was listed.
Grant == [user : Holders, by : Holders]

\* owner is the delegate; lro is last_reconciled_owner; by is history, the
\* holder of the asset in whose time the delegate was named.
AntRecord == [owner : Holders \cup {NoHolder}, lro : Holders, by : Holders]

AccountsTypeOK ==
  /\ nft \in [Ants -> Holders \cup {NoHolder}]
  /\ config \in [Ants -> Holders \cup {Closed}]
  /\ controllers \in [Ants -> (SUBSET Grant) \cup {Closed}]
  /\ record \in [Ants -> [Undernames -> AntRecord \cup {Closed}]]
  /\ metadata \in [Ants -> SUBSET Undernames]

AntTypeOK == AccountsTypeOK /\ acl \in [Holders -> AclConfig \cup {Closed}]

-----------------------------------------------------------------------------
(* Permission.                                                             *)

\* read_mpl_core_owner: the asset must be there.
Minted(a) == nft[a] # NoHolder

\* AntConfig and AntControllers, which every managing instruction loads.
ManageAccounts(a) == Minted(a) /\ config[a] # Closed /\ controllers[a] # Closed

\* Mutant: the list of the previous owner is honoured.
ControllersAlways(a) == controllers[a]

\* reconcile_and_check_permission clears the list of a changed owner first.
ControllersNow(a) == IF config[a] # nft[a] THEN {} ELSE controllers[a]

Permitted(a, c) == c = nft[a] \/ \E g \in ControllersNow(a) : g.user = c

\* ... and records the owner it saw.
Reconciled(a) ==
  /\ config' = [config EXCEPT ![a] = nft[a]]
  /\ controllers' = [controllers EXCEPT ![a] = ControllersNow(a)]

\* A record last touched under another owner has lost its delegate.
RecordNow(a, n) ==
  IF record[a][n].lro # nft[a]
  THEN [owner |-> NoHolder, lro |-> nft[a], by |-> nft[a]]
  ELSE record[a][n]

-----------------------------------------------------------------------------
(* ACL pages.                                                              *)

\* assert_page_belongs
PageBelongs(u, p) == acl[u] # Closed /\ p \in DOMAIN acl[u].pages

CanPush(u, p, e) ==
  e \notin acl[u].pages[p] /\ Cardinality(acl[u].pages[p]) < MaxPageEntries

\* page_push_unique and page_swap_remove, with the counter of the AclConfig.
PagePush(f, u, p, e) == [f EXCEPT ![u].pages[p] = @ \cup {e}, ![u].total = @ + 1]
PageRemove(f, u, p, e) ==
  [f EXCEPT ![u].pages[p] = @ \ {e}, ![u].total = IF @ = 0 THEN 0 ELSE @ - 1]

RegisterAclConfig(u) ==
  /\ acl[u] = Closed
  /\ acl' = [acl EXCEPT ![u] = [pages |-> <<>>, total |-> 0]]
  /\ UNCHANGED <<nft, config, controllers, record, metadata>>

CloseAclConfig(u) ==
  /\ acl[u] # Closed
  /\ acl[u].pages = <<>>
  /\ acl' = [acl EXCEPT ![u] = Closed]
  /\ UNCHANGED <<nft, config, controllers, record, metadata>>

PageCount(u) == Cardinality(DOMAIN acl[u].pages)

AddAclPage(u) ==
  /\ acl[u] # Closed
  /\ PageCount(u) < MaxPages
  /\ acl' = [acl EXCEPT ![u].pages = [i \in 1 .. PageCount(u) + 1 |->
                                        IF i \in DOMAIN @ THEN @[i] ELSE {}]]
  /\ UNCHANGED <<nft, config, controllers, record, metadata>>

CloseAclPage(u, p) ==
  /\ acl[u] # Closed
  /\ PageCount(u) > 0 /\ p = PageCount(u)
  /\ acl[u].pages[p] = {}
  /\ acl' = [acl EXCEPT ![u].pages = [i \in 1 .. p - 1 |-> @[i]]]
  /\ UNCHANGED <<nft, config, controllers, record, metadata>>

\* Both owner instructions want a genuine ANT, one with a config.
AclOwnerAccounts(a) == Minted(a) /\ config[a] # Closed

RecordAclOwner(a, u, p) ==
  /\ AclOwnerAccounts(a)
  /\ nft[a] = u
  /\ PageBelongs(u, p)
  /\ CanPush(u, p, <<a, "owner">>)
  /\ acl' = PagePush(acl, u, p, <<a, "owner">>)
  /\ UNCHANGED <<nft, config, controllers, record, metadata>>

RemoveAclOwner(a, u, p) ==
  /\ AclOwnerAccounts(a)
  /\ nft[a] # u
  /\ PageBelongs(u, p)
  /\ <<a, "owner">> \in acl[u].pages[p]
  /\ acl' = PageRemove(acl, u, p, <<a, "owner">>)
  /\ UNCHANGED <<nft, config, controllers, record, metadata>>

AclControllerAccounts(a) == Minted(a) /\ controllers[a] # Closed

\* The list as it is stored: no reconciliation here.
Listed(a, u) == \E g \in controllers[a] : g.user = u

RecordAclController(a, u, p) ==
  /\ AclControllerAccounts(a)
  /\ Listed(a, u)
  /\ PageBelongs(u, p)
  /\ CanPush(u, p, <<a, "controller">>)
  /\ acl' = PagePush(acl, u, p, <<a, "controller">>)
  /\ UNCHANGED <<nft, config, controllers, record, metadata>>

\* Mutant: anybody may drop the entry of a controller who is still listed.
RemoveAclControllerAny(a, u, p) ==
  /\ AclControllerAccounts(a)
  /\ PageBelongs(u, p)
  /\ <<a, "controller">> \in acl[u].pages[p]
  /\ acl' = PageRemove(acl, u, p, <<a, "controller">>)
  /\ UNCHANGED <<nft, config, controllers, record, metadata>>

RemoveAclController(a, u, p) ==
  /\ AclControllerAccounts(a)
  /\ ~Listed(a, u)
  /\ PageBelongs(u, p)
  /\ <<a, "controller">> \in acl[u].pages[p]
  /\ acl' = PageRemove(acl, u, p, <<a, "controller">>)
  /\ UNCHANGED <<nft, config, controllers, record, metadata>>

AclNext ==
  \E u \in AclHolders :
    \/ RegisterAclConfig(u)
    \/ CloseAclConfig(u)
    \/ AddAclPage(u)
    \/ \E p \in 1 .. MaxPages :
         \/ CloseAclPage(u, p)
         \/ \E a \in Ants : RecordAclOwner(a, u, p)
         \/ \E a \in Ants : RemoveAclOwner(a, u, p)
         \/ \E a \in Ants : RecordAclController(a, u, p)
         \/ \E a \in Ants : RemoveAclController(a, u, p)

-----------------------------------------------------------------------------
(* Records and controllers.                                                *)

InitializeAccounts(a) ==
  Minted(a) /\ config[a] = Closed /\ controllers[a] = Closed /\ record[a]["@"] = Closed

Initialize(a, c) ==
  /\ InitializeAccounts(a)
  /\ c = nft[a]
  /\ config' = [config EXCEPT ![a] = c]
  /\ controllers' = [controllers EXCEPT ![a] = {[user |-> c, by |-> c]}]
  /\ record' = [record EXCEPT ![a]["@"] = [owner |-> NoHolder, lro |-> c, by |-> c]]
  /\ UNCHANGED <<nft, metadata, acl>>

SetRecordAccounts(a) == ManageAccounts(a)

\* o is params.record_owner; a delegate's o is ignored.
SetRecord(a, n, c, o) ==
  /\ SetRecordAccounts(a)
  /\ IF record[a][n] = Closed
     THEN Permitted(a, c)
     ELSE Permitted(a, c) \/ RecordNow(a, n).owner = c
  /\ Reconciled(a)
  /\ record' = [record EXCEPT ![a][n] =
       IF Permitted(a, c) THEN [owner |-> o, lro |-> nft[a], by |-> nft[a]]
                          ELSE RecordNow(a, n)]
  /\ UNCHANGED <<nft, metadata, acl>>

RemoveRecordAccounts(a, n) == ManageAccounts(a) /\ record[a][n] # Closed

\* both: the caller passed the optional record_metadata account.
RemoveRecord(a, n, c, both) ==
  /\ RemoveRecordAccounts(a, n)
  /\ n # "@"
  /\ Permitted(a, c)
  /\ both => n \in metadata[a]
  /\ Reconciled(a)
  /\ record' = [record EXCEPT ![a][n] = Closed]
  /\ metadata' = [metadata EXCEPT ![a] = IF both THEN @ \ {n} ELSE @]
  /\ UNCHANGED <<nft, acl>>

TransferRecordAccounts(a, n) == ManageAccounts(a) /\ record[a][n] # Closed

TransferRecord(a, n, c, o) ==
  /\ TransferRecordAccounts(a, n)
  /\ Permitted(a, c) \/ RecordNow(a, n).owner = c
  /\ RecordNow(a, n).owner # o
  /\ Reconciled(a)
  /\ record' = [record EXCEPT ![a][n] =
       [RecordNow(a, n) EXCEPT !.owner = o, !.by = IF Permitted(a, c) THEN nft[a] ELSE @]]
  /\ UNCHANGED <<nft, metadata, acl>>

AddControllerAccounts(a, u, p) == ManageAccounts(a) /\ PageBelongs(u, p)

AddController(a, c, u, p) ==
  /\ AddControllerAccounts(a, u, p)
  /\ Permitted(a, c)
  /\ ~ \E g \in ControllersNow(a) : g.user = u
  /\ Cardinality(ControllersNow(a)) < MaxControllers
  /\ CanPush(u, p, <<a, "controller">>)
  /\ config' = [config EXCEPT ![a] = nft[a]]
  /\ controllers' = [controllers EXCEPT ![a] = ControllersNow(a) \cup {[user |-> u, by |-> nft[a]]}]
  /\ acl' = PagePush(acl, u, p, <<a, "controller">>)
  /\ UNCHANGED <<nft, record, metadata>>

RemoveControllerAccounts(a, u, p) == ManageAccounts(a) /\ PageBelongs(u, p)

RemoveController(a, c, u, p) ==
  /\ RemoveControllerAccounts(a, u, p)
  /\ Permitted(a, c)
  /\ \E g \in ControllersNow(a) : g.user = u
  /\ <<a, "controller">> \in acl[u].pages[p]
  /\ config' = [config EXCEPT ![a] = nft[a]]
  /\ controllers' = [controllers EXCEPT ![a] = {g \in ControllersNow(a) : g.user # u}]
  /\ acl' = PageRemove(acl, u, p, <<a, "controller">>)
  /\ UNCHANGED <<nft, record, metadata>>

\* The five setters of AntConfig's strings.
ManageMetadata(a, c) ==
  /\ ManageAccounts(a)
  /\ Permitted(a, c)
  /\ Reconciled(a)
  /\ UNCHANGED <<nft, record, metadata, acl>>

SetName(a, c) == ManageMetadata(a, c)
SetTicker(a, c) == ManageMetadata(a, c)
SetDescription(a, c) == ManageMetadata(a, c)
SetKeywords(a, c) == ManageMetadata(a, c)
SetLogo(a, c) == ManageMetadata(a, c)

TransferAccounts(a, c, u, p, q) == ManageAccounts(a) /\ PageBelongs(c, p) /\ PageBelongs(u, q)

\* The program's own transfer: MPL CPI, then controllers, owner and ACL in one step.
Transfer(a, c, u, p, q) ==
  /\ TransferAccounts(a, c, u, p, q)
  /\ c = nft[a] /\ u # nft[a]
  /\ CanPush(u, q, <<a, "owner">>)
  /\ <<a, "owner">> \in acl[c].pages[p]
  /\ nft' = [nft EXCEPT ![a] = u]
  /\ controllers' = [controllers EXCEPT ![a] = {}]
  /\ config' = [config EXCEPT ![a] = u]
  /\ acl' = PageRemove(PagePush(acl, u, q, <<a, "owner">>), c, p, <<a, "owner">>)
  /\ UNCHANGED <<record, metadata>>

ReconcileAccounts(a) == ManageAccounts(a)

Reconcile(a) ==
  /\ ReconcileAccounts(a)
  /\ Reconciled(a)
  /\ UNCHANGED <<nft, record, metadata, acl>>

SetRecordMetadataAccounts(a, n) == ManageAccounts(a) /\ record[a][n] # Closed

SetRecordMetadata(a, n, c) ==
  /\ SetRecordMetadataAccounts(a, n)
  /\ Permitted(a, c) \/ (record[a][n].lro = nft[a] /\ record[a][n].owner = c)
  /\ Reconciled(a)
  /\ metadata' = [metadata EXCEPT ![a] = @ \cup {n}]
  /\ UNCHANGED <<nft, record, acl>>

RemoveRecordMetadataAccounts(a, n) == ManageAccounts(a) /\ n \in metadata[a]

RemoveRecordMetadata(a, n, c) ==
  /\ RemoveRecordMetadataAccounts(a, n)
  /\ Permitted(a, c)
  /\ Reconciled(a)
  /\ metadata' = [metadata EXCEPT ![a] = @ \ {n}]
  /\ UNCHANGED <<nft, record, acl>>

RecordNext ==
  \E a \in Ants, c \in Holders :
    \/ Initialize(a, c)
    \/ \E n \in Undernames, o \in Holders \cup {NoHolder} : SetRecord(a, n, c, o)
    \/ \E n \in Undernames, b \in BOOLEAN : RemoveRecord(a, n, c, b)
    \/ \E n \in Undernames, o \in Holders : TransferRecord(a, n, c, o)
    \/ \E u \in AclHolders, p \in 1 .. MaxPages : AddController(a, c, u, p)
    \/ \E u \in AclHolders, p \in 1 .. MaxPages : RemoveController(a, c, u, p)
    \/ \E u \in AclHolders, p, q \in 1 .. MaxPages : Transfer(a, c, u, p, q)

MetadataNext ==
  \E a \in Ants :
    \/ \E c \in Holders :
         \/ SetName(a, c)
         \/ SetTicker(a, c)
         \/ SetDescription(a, c)
         \/ SetKeywords(a, c)
         \/ SetLogo(a, c)
         \/ \E n \in Described : SetRecordMetadata(a, n, c)
         \/ \E n \in Described : RemoveRecordMetadata(a, n, c)
    \/ Reconcile(a)

-----------------------------------------------------------------------------
(* Closing accounts: the holder, in any order; anybody, for orphaned       *)
(* metadata; the administrator, for a burned asset.                        *)

OrphanedRecordMetadataAccounts(a, n) == Minted(a) /\ n \in metadata[a]

CloseOrphanedRecordMetadata(a, n) ==
  /\ OrphanedRecordMetadataAccounts(a, n)
  /\ record[a][n] = Closed
  /\ metadata' = [metadata EXCEPT ![a] = @ \ {n}]
  /\ UNCHANGED <<nft, config, controllers, record, acl>>

CloseAntRecord(a, n, c) ==
  /\ c = nft[a]
  /\ record[a][n] # Closed
  /\ record' = [record EXCEPT ![a][n] = Closed]
  /\ UNCHANGED <<nft, config, controllers, metadata, acl>>

CloseAntRecordMetadataForOwner(a, n, c) ==
  /\ c = nft[a]
  /\ n \in metadata[a]
  /\ metadata' = [metadata EXCEPT ![a] = @ \ {n}]
  /\ UNCHANGED <<nft, config, controllers, record, acl>>

CloseAntControllers(a, c) ==
  /\ c = nft[a]
  /\ controllers[a] # Closed
  /\ controllers' = [controllers EXCEPT ![a] = Closed]
  /\ UNCHANGED <<nft, config, record, metadata, acl>>

CloseAntConfig(a, c) ==
  /\ c = nft[a]
  /\ config[a] # Closed
  /\ config' = [config EXCEPT ![a] = Closed]
  /\ UNCHANGED <<nft, controllers, record, metadata, acl>>

OrphanedAntStateAccounts(a, c) ==
  /\ c = AntAuthority
  /\ config[a] # Closed
  /\ controllers[a] # Closed

\* R and M: the record and metadata accounts passed along.
AdminCloseOrphanedAntState(a, c, R, M) ==
  /\ OrphanedAntStateAccounts(a, c)
  /\ ~Minted(a)
  /\ config' = [config EXCEPT ![a] = Closed]
  /\ controllers' = [controllers EXCEPT ![a] = Closed]
  /\ record' = [record EXCEPT ![a] = [n \in Undernames |-> IF n \in R THEN Closed ELSE @[n]]]
  /\ metadata' = [metadata EXCEPT ![a] = @ \ M]
  /\ UNCHANGED <<nft, acl>>

CloseNext ==
  \E a \in Ants :
    \/ \E n \in Described : CloseOrphanedRecordMetadata(a, n)
    \/ \E c \in Holders :
         \/ \E n \in Undernames : CloseAntRecord(a, n, c)
         \/ \E n \in Described : CloseAntRecordMetadataForOwner(a, n, c)
         \/ CloseAntControllers(a, c)
         \/ CloseAntConfig(a, c)
         \/ \E R \in SUBSET Undernames, M \in SUBSET Described :
              AdminCloseOrphanedAntState(a, c, R, M)

-----------------------------------------------------------------------------
(* MPL Core, which needs nothing of this program: the holder trades or     *)
(* burns the asset.                                                        *)

Trade(a, u) ==
  /\ Minted(a)
  /\ u # nft[a]
  /\ nft' = [nft EXCEPT ![a] = u]
  /\ UNCHANGED <<config, controllers, record, metadata, acl>>

Burn(a) ==
  /\ Minted(a)
  /\ nft' = [nft EXCEPT ![a] = NoHolder]
  /\ UNCHANGED <<config, controllers, record, metadata, acl>>

AntInit ==
  /\ nft \in [Ants -> Holders]
  /\ config = [a \in Ants |-> Closed]
  /\ controllers = [a \in Ants |-> Closed]
  /\ record = [a \in Ants |-> [n \in Undernames |-> Closed]]
  /\ metadata = [a \in Ants |-> {}]
  /\ acl = [u \in Holders |-> Closed]

AntNext ==
  \/ RecordNext
  \/ MetadataNext
  \/ CloseNext
  \/ AclNext
  \/ \E a \in Ants, u \in Holders : Trade(a, u)
  \/ \E a \in Ants : Burn(a)

AntSpec == AntInit /\ [][AntNext]_antVars

-----------------------------------------------------------------------------
(* Properties *)

(* Authority is never inherited.  Whoever may manage an ANT now, as a        *)
(* controller the next call would accept or as the delegate of a record, was *)
(* named while the present holder held it, whichever way the asset was sold  *)
(* (through transfer or behind the program's back), and however late the     *)
(* accounts are reconciled.                                                  *)
NoInheritedAuthority ==
  \A a \in Ants : ManageAccounts(a) =>
    /\ \A g \in ControllersNow(a) : g.by = nft[a]
    /\ \A n \in Undernames : record[a][n] # Closed /\ RecordNow(a, n).owner # NoHolder =>
         RecordNow(a, n).by = nft[a]

Entries(u) == [p \in DOMAIN acl[u].pages |-> Cardinality(acl[u].pages[p])]

(* The access index tells a user what they control: its counter is the       *)
(* number of entries on its pages, and every listed controller but the one   *)
(* initialize lists is on a page, for as long as the list names them.        *)
AclIndexed ==
  /\ \A u \in Holders : acl[u] # Closed =>
       acl[u].total = SumFunctionOnSet(Entries(u), DOMAIN acl[u].pages)
  /\ \A a \in Ants : controllers[a] # Closed =>
       \A g \in controllers[a] : g.user # g.by =>
         /\ acl[g.user] # Closed
         /\ \E p \in DOMAIN acl[g.user].pages : <<a, "controller">> \in acl[g.user].pages[p]
=============================================================================
