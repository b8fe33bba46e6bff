-------------------------- MODULE AntRecordsProofs --------------------------
(***************************************************************************)
(* Proofs about AntRecords, and about PrimaryNames on top of it, for every *)
(* set of wallets, ANTs and names.                                         *)
(*                                                                         *)
(* A reader of the accounts sees only the owner the program knew last; the *)
(* invariant therefore ties every grant to that owner, never to the asset, *)
(* and the asset enters only where a permission is decided.                *)
(***************************************************************************)
EXTENDS PrimaryNames, SumTheorems

(* Every listed controller was listed under the owner in AntConfig, and every *)
(* delegate was named under the owner stamped on its record.                  *)
Stamped ==
  /\ \A a \in Ants : config[a] # Closed /\ controllers[a] # Closed =>
       \A g \in controllers[a] : g.by = config[a]
  /\ \A a \in Ants, n \in Undernames : record[a][n] # Closed =>
       record[a][n].by = record[a][n].lro

AntInv == AccountsTypeOK /\ Stamped

(* No account exists before initialize. *)
LEMMA InitInv == AntInit => AntInv
BY DEF AntInit, AntInv, AccountsTypeOK, Stamped

(* Only these accounts matter to the invariant. *)
LEMMA AntKept ==
  ASSUME AntInv, UNCHANGED <<config, controllers, record>>,
         nft' \in [Ants -> Holders \cup {NoHolder}], metadata' \in [Ants -> SUBSET Undernames]
  PROVE  AntInv'
BY DEF AntInv, AccountsTypeOK, Stamped

(* reconcile_and_check_permission leaves a list that the present holder made. *)
LEMMA ReconciledInv ==
  ASSUME AntInv, NEW a \in Ants, ManageAccounts(a)
  PROVE  /\ nft[a] \in Holders /\ nft[a] # Closed
         /\ ControllersNow(a) \subseteq Grant /\ ControllersNow(a) \subseteq controllers[a]
         /\ \A g \in ControllersNow(a) : g.by = nft[a]
<1>1. nft[a] \in Holders /\ nft[a] # Closed
  BY AntAssumption DEF AntInv, AccountsTypeOK, ManageAccounts, Minted
<1>2. controllers[a] \subseteq Grant
  BY DEF AntInv, AccountsTypeOK, ManageAccounts
<1>3. \A g \in ControllersNow(a) : g.by = nft[a]
  BY DEF ControllersNow, AntInv, Stamped, ManageAccounts
<1>. QED BY <1>1, <1>2, <1>3 DEF ControllersNow

(* The list of one ANT is replaced by grants of the present holder and the    *)
(* config is stamped with it: what reconciling, adding and removing all do.   *)
LEMMA StampedList ==
  ASSUME AntInv, NEW a \in Ants, NEW h \in Holders, NEW L \in SUBSET Grant, \A g \in L : g.by = h,
         config' = [config EXCEPT ![a] = h], controllers' = [controllers EXCEPT ![a] = L]
  PROVE  /\ config' \in [Ants -> Holders \cup {Closed}]
         /\ controllers' \in [Ants -> (SUBSET Grant) \cup {Closed}]
         /\ \A b \in Ants : config'[b] # Closed /\ controllers'[b] # Closed =>
              \A g \in controllers'[b] : g.by = config'[b]
<1>1. /\ config' \in [Ants -> Holders \cup {Closed}]
      /\ controllers' \in [Ants -> (SUBSET Grant) \cup {Closed}]
  BY DEF AntInv, AccountsTypeOK
<1>2. ASSUME NEW b \in Ants, config'[b] # Closed, controllers'[b] # Closed, NEW g \in controllers'[b]
      PROVE  g.by = config'[b]
  <2>1. CASE b = a
    BY <2>1, <1>2 DEF AntInv, AccountsTypeOK
  <2>2. CASE b # a
    BY <2>2, <1>2 DEF AntInv, AccountsTypeOK, Stamped
  <2>. QED BY <2>1, <2>2
<1>. QED BY <1>1, <1>2

(* A record as the next call sees it carries the present holder's stamp. *)
LEMMA RecordNowStamped ==
  ASSUME AntInv, NEW a \in Ants, NEW n \in Undernames, nft[a] \in Holders, record[a][n] # Closed
  PROVE  /\ RecordNow(a, n) \in AntRecord
         /\ RecordNow(a, n).lro = nft[a] /\ RecordNow(a, n).by = nft[a]
<1>1. record[a][n] \in AntRecord /\ record[a][n].by = record[a][n].lro
  BY DEF AntInv, AccountsTypeOK, Stamped
<1>2. CASE record[a][n].lro # nft[a]
  BY <1>2 DEF RecordNow, AntRecord
<1>3. CASE record[a][n].lro = nft[a]
  BY <1>1, <1>3 DEF RecordNow, AntRecord
<1>. QED BY <1>2, <1>3

(* One record is rewritten by the present holder's authority, or closed. *)
LEMMA StampedRecord ==
  ASSUME AntInv, NEW a \in Ants, NEW n \in Undernames, NEW r,
         r = Closed \/ (r \in AntRecord /\ r.by = r.lro),
         record' = [record EXCEPT ![a][n] = r]
  PROVE  /\ record' \in [Ants -> [Undernames -> AntRecord \cup {Closed}]]
         /\ \A b \in Ants, m \in Undernames : record'[b][m] # Closed =>
              record'[b][m].by = record'[b][m].lro
<1>1. record' \in [Ants -> [Undernames -> AntRecord \cup {Closed}]]
  BY DEF AntInv, AccountsTypeOK
<1>2. ASSUME NEW b \in Ants, NEW m \in Undernames, record'[b][m] # Closed
      PROVE  record'[b][m].by = record'[b][m].lro
  <2>1. CASE b = a /\ m = n
    <3>1. record'[b][m] = r
      BY <2>1 DEF AntInv, AccountsTypeOK
    <3>. QED BY <3>1, <1>2
  <2>2. CASE ~(b = a /\ m = n)
    <3>1. record'[b][m] = record[b][m]
      BY <2>2 DEF AntInv, AccountsTypeOK
    <3>. QED BY <3>1, <1>2 DEF AntInv, Stamped
  <2>. QED BY <2>1, <2>2
<1>. QED BY <1>1, <1>2

(* A managing instruction: the list is reconciled and the records change as given. *)
LEMMA ManageInv ==
  ASSUME AntInv, NEW a \in Ants, ManageAccounts(a), Reconciled(a), nft' = nft,
         metadata' \in [Ants -> SUBSET Undernames],
         record' \in [Ants -> [Undernames -> AntRecord \cup {Closed}]],
         \A b \in Ants, m \in Undernames : record'[b][m] # Closed =>
           record'[b][m].by = record'[b][m].lro
  PROVE  AntInv'
<1>. DEFINE h == nft[a]
            L == ControllersNow(a)
<1>1. h \in Holders /\ L \in SUBSET Grant /\ \A g \in L : g.by = h
  BY ReconciledInv
<1>2. config' = [config EXCEPT ![a] = h] /\ controllers' = [controllers EXCEPT ![a] = L]
  BY DEF Reconciled
<1>3. nft' \in [Ants -> Holders \cup {NoHolder}]
  BY DEF AntInv, AccountsTypeOK
<1>. HIDE DEF h, L
<1>4. /\ config' \in [Ants -> Holders \cup {Closed}]
      /\ controllers' \in [Ants -> (SUBSET Grant) \cup {Closed}]
      /\ \A b \in Ants : config'[b] # Closed /\ controllers'[b] # Closed =>
           \A g \in controllers'[b] : g.by = config'[b]
  BY <1>1, <1>2, StampedList
<1>. QED BY <1>3, <1>4 DEF AntInv, AccountsTypeOK, Stamped

(* The instructions of an ANT's managers, one by one. *)
LEMMA RecordInv ==
  ASSUME AntInv, RecordNext
  PROVE  AntInv'
<1>0. /\ nft \in [Ants -> Holders \cup {NoHolder}] /\ metadata \in [Ants -> SUBSET Undernames]
      /\ record \in [Ants -> [Undernames -> AntRecord \cup {Closed}]]
      /\ config \in [Ants -> Holders \cup {Closed}]
      /\ controllers \in [Ants -> (SUBSET Grant) \cup {Closed}]
  BY DEF AntInv, AccountsTypeOK
<1>1. ASSUME NEW a \in Ants, NEW c \in Holders, Initialize(a, c) PROVE AntInv'
  <2>. DEFINE r == [owner |-> NoHolder, lro |-> c, by |-> c]
              g0 == [user |-> c, by |-> c]
              L == {g0}
  <2>1. r \in AntRecord /\ r.by = r.lro /\ g0 \in Grant /\ g0.by = c
    BY DEF AntRecord, Grant
  <2>2. "@" \in Undernames
    BY AntAssumption
  <2>3. /\ config' = [config EXCEPT ![a] = c] /\ controllers' = [controllers EXCEPT ![a] = L]
        /\ record' = [record EXCEPT ![a]["@"] = r] /\ UNCHANGED <<nft, metadata>>
    BY <1>1 DEF Initialize
  <2>4. L \in SUBSET Grant /\ \A g \in L : g.by = c
    <3>. HIDE DEF g0
    <3>. QED BY <2>1
  <2>. HIDE DEF r, L
  <2>5. /\ config' \in [Ants -> Holders \cup {Closed}]
        /\ controllers' \in [Ants -> (SUBSET Grant) \cup {Closed}]
        /\ \A b \in Ants : config'[b] # Closed /\ controllers'[b] # Closed =>
             \A g \in controllers'[b] : g.by = config'[b]
    BY <2>3, <2>4, StampedList
  <2>6. /\ record' \in [Ants -> [Undernames -> AntRecord \cup {Closed}]]
        /\ \A b \in Ants, m \in Undernames : record'[b][m] # Closed =>
             record'[b][m].by = record'[b][m].lro
    BY <2>1, <2>2, <2>3, StampedRecord
  <2>. QED BY <1>0, <2>3, <2>5, <2>6 DEF AntInv, AccountsTypeOK, Stamped
<1>2. ASSUME NEW a \in Ants, NEW c \in Holders, NEW n \in Undernames, NEW o \in Holders \cup {NoHolder},
             SetRecord(a, n, c, o)
      PROVE  AntInv'
  <2>1. ManageAccounts(a) /\ Reconciled(a) /\ nft' = nft /\ metadata' = metadata
    BY <1>2 DEF SetRecord, SetRecordAccounts
  <2>2. nft[a] \in Holders
    BY <2>1, ReconciledInv
  <2>. DEFINE new == [owner |-> o, lro |-> nft[a], by |-> nft[a]]
              r == IF Permitted(a, c) THEN new ELSE RecordNow(a, n)
  <2>3. new \in AntRecord /\ new.by = new.lro
    BY <2>2 DEF AntRecord
  <2>4. record[a][n] = Closed => Permitted(a, c)
    BY <1>2 DEF SetRecord
  <2>5. r \in AntRecord /\ r.by = r.lro
    <3>. HIDE DEF new
    <3>. QED BY <2>2, <2>3, <2>4, RecordNowStamped
  <2>6. record' = [record EXCEPT ![a][n] = r]
    BY <1>2 DEF SetRecord
  <2>. HIDE DEF r
  <2>. QED BY <1>0, <2>1, <2>5, <2>6, StampedRecord, ManageInv
<1>3. ASSUME NEW a \in Ants, NEW c \in Holders, NEW n \in Undernames, NEW b \in BOOLEAN,
             RemoveRecord(a, n, c, b)
      PROVE  AntInv'
  <2>1. /\ ManageAccounts(a) /\ Reconciled(a) /\ nft' = nft
        /\ record' = [record EXCEPT ![a][n] = Closed]
    BY <1>3 DEF RemoveRecord, RemoveRecordAccounts
  <2>2. metadata' \in [Ants -> SUBSET Undernames]
    BY <1>0, <1>3 DEF RemoveRecord
  <2>. QED BY <2>1, <2>2, StampedRecord, ManageInv
<1>4. ASSUME NEW a \in Ants, NEW c \in Holders, NEW n \in Undernames, NEW o \in Holders,
             TransferRecord(a, n, c, o)
      PROVE  AntInv'
  <2>1. /\ ManageAccounts(a) /\ Reconciled(a) /\ nft' = nft /\ metadata' = metadata
        /\ record[a][n] # Closed
    BY <1>4 DEF TransferRecord, TransferRecordAccounts
  <2>2. nft[a] \in Holders
    BY <2>1, ReconciledInv
  <2>. DEFINE q == RecordNow(a, n)
              y == IF Permitted(a, c) THEN nft[a] ELSE q.by
              r == [q EXCEPT !.owner = o, !.by = y]
  <2>3. q \in AntRecord /\ q.lro = nft[a] /\ y = nft[a]
    BY <2>1, <2>2, RecordNowStamped
  <2>4. record' = [record EXCEPT ![a][n] = r]
    BY <1>4 DEF TransferRecord
  <2>5. r \in AntRecord /\ r.by = r.lro
    <3>. HIDE DEF q, y
    <3>. QED BY <2>2, <2>3 DEF AntRecord
  <2>. HIDE DEF r
  <2>. QED BY <1>0, <2>1, <2>4, <2>5, StampedRecord, ManageInv
<1>5. ASSUME NEW a \in Ants, NEW c \in Holders, NEW u \in AclHolders, NEW p \in 1 .. MaxPages,
             AddController(a, c, u, p)
      PROVE  AntInv'
  <2>1. ManageAccounts(a) /\ UNCHANGED <<nft, record, metadata>>
    BY <1>5 DEF AddController, AddControllerAccounts
  <2>. DEFINE h == nft[a]
              g0 == [user |-> u, by |-> h]
              L == ControllersNow(a) \cup {g0}
  <2>2. h \in Holders /\ ControllersNow(a) \subseteq Grant /\ \A g \in ControllersNow(a) : g.by = h
    BY <2>1, ReconciledInv
  <2>3. g0 \in Grant /\ g0.by = h
    BY <2>2, AntAssumption DEF Grant
  <2>4. L \in SUBSET Grant /\ \A g \in L : g.by = h
    <3>. HIDE DEF g0, h
    <3>. QED BY <2>2, <2>3
  <2>5. config' = [config EXCEPT ![a] = h] /\ controllers' = [controllers EXCEPT ![a] = L]
    BY <1>5 DEF AddController
  <2>. HIDE DEF h, L
  <2>6. /\ config' \in [Ants -> Holders \cup {Closed}]
        /\ controllers' \in [Ants -> (SUBSET Grant) \cup {Closed}]
        /\ \A b \in Ants : config'[b] # Closed /\ controllers'[b] # Closed =>
             \A g \in controllers'[b] : g.by = config'[b]
    BY <2>2, <2>4, <2>5, StampedList
  <2>. QED BY <2>1, <2>6 DEF AntInv, AccountsTypeOK, Stamped
<1>6. ASSUME NEW a \in Ants, NEW c \in Holders, NEW u \in AclHolders, NEW p \in 1 .. MaxPages,
             RemoveController(a, c, u, p)
      PROVE  AntInv'
  <2>1. ManageAccounts(a) /\ UNCHANGED <<nft, record, metadata>>
    BY <1>6 DEF RemoveController, RemoveControllerAccounts
  <2>. DEFINE h == nft[a]
              L == {g \in ControllersNow(a) : g.user # u}
  <2>2. h \in Holders /\ L \in SUBSET Grant /\ \A g \in L : g.by = h
    BY <2>1, ReconciledInv
  <2>3. config' = [config EXCEPT ![a] = h] /\ controllers' = [controllers EXCEPT ![a] = L]
    BY <1>6 DEF RemoveController
  <2>. HIDE DEF h, L
  <2>4. /\ config' \in [Ants -> Holders \cup {Closed}]
        /\ controllers' \in [Ants -> (SUBSET Grant) \cup {Closed}]
        /\ \A b \in Ants : config'[b] # Closed /\ controllers'[b] # Closed =>
             \A g \in controllers'[b] : g.by = config'[b]
    BY <2>2, <2>3, StampedList
  <2>. QED BY <2>1, <2>4 DEF AntInv, AccountsTypeOK, Stamped
<1>7. ASSUME NEW a \in Ants, NEW c \in Holders, NEW u \in AclHolders,
             NEW p \in 1 .. MaxPages, NEW q \in 1 .. MaxPages, Transfer(a, c, u, p, q)
      PROVE  AntInv'
  <2>1. /\ u \in Holders /\ nft' = [nft EXCEPT ![a] = u] /\ UNCHANGED <<record, metadata>>
        /\ config' = [config EXCEPT ![a] = u] /\ controllers' = [controllers EXCEPT ![a] = {}]
    BY <1>7, AntAssumption DEF Transfer
  <2>2. /\ config' \in [Ants -> Holders \cup {Closed}]
        /\ controllers' \in [Ants -> (SUBSET Grant) \cup {Closed}]
        /\ \A b \in Ants : config'[b] # Closed /\ controllers'[b] # Closed =>
             \A g \in controllers'[b] : g.by = config'[b]
    BY <2>1, StampedList
  <2>3. nft' \in [Ants -> Holders \cup {NoHolder}]
    BY <1>0, <2>1
  <2>. QED BY <2>1, <2>2, <2>3 DEF AntInv, AccountsTypeOK, Stamped
<1>. QED BY <1>1, <1>2, <1>3, <1>4, <1>5, <1>6, <1>7, Zenon DEF RecordNext

(* Strings, metadata accounts and reconcile: the records stay as they are. *)
LEMMA MetadataInv ==
  ASSUME AntInv, MetadataNext
  PROVE  AntInv'
<1>0. /\ metadata \in [Ants -> SUBSET Undernames] /\ Described \subseteq Undernames
      /\ record \in [Ants -> [Undernames -> AntRecord \cup {Closed}]]
      /\ \A b \in Ants, m \in Undernames : record[b][m] # Closed =>
           record[b][m].by = record[b][m].lro
  BY AntAssumption DEF AntInv, AccountsTypeOK, Stamped
<1>1. ASSUME NEW a \in Ants, ManageAccounts(a), Reconciled(a), UNCHANGED <<nft, record>>,
             metadata' \in [Ants -> SUBSET Undernames]
      PROVE  AntInv'
  BY <1>0, <1>1, ManageInv
<1>2. ASSUME NEW a \in Ants, NEW c \in Holders, ManageMetadata(a, c) PROVE AntInv'
  BY <1>0, <1>1, <1>2 DEF ManageMetadata
<1>3. ASSUME NEW a \in Ants, NEW c \in Holders, NEW n \in Described, SetRecordMetadata(a, n, c)
      PROVE  AntInv'
  <2>1. metadata' \in [Ants -> SUBSET Undernames]
    BY <1>0, <1>3 DEF SetRecordMetadata
  <2>. QED BY <1>1, <1>3, <2>1 DEF SetRecordMetadata, SetRecordMetadataAccounts
<1>4. ASSUME NEW a \in Ants, NEW c \in Holders, NEW n \in Described, RemoveRecordMetadata(a, n, c)
      PROVE  AntInv'
  <2>1. metadata' \in [Ants -> SUBSET Undernames]
    BY <1>0, <1>4 DEF RemoveRecordMetadata
  <2>. QED BY <1>1, <1>4, <2>1 DEF RemoveRecordMetadata, RemoveRecordMetadataAccounts
<1>5. ASSUME NEW a \in Ants, Reconcile(a) PROVE AntInv'
  BY <1>0, <1>1, <1>5 DEF Reconcile, ReconcileAccounts
<1>. QED BY <1>2, <1>3, <1>4, <1>5, Zenon
     DEF MetadataNext, SetName, SetTicker, SetDescription, SetKeywords, SetLogo

(* Closing accounts takes grants away and makes none. *)
LEMMA CloseInv ==
  ASSUME AntInv, CloseNext
  PROVE  AntInv'
<1>0. /\ nft \in [Ants -> Holders \cup {NoHolder}] /\ metadata \in [Ants -> SUBSET Undernames]
      /\ record \in [Ants -> [Undernames -> AntRecord \cup {Closed}]]
      /\ config \in [Ants -> Holders \cup {Closed}]
      /\ controllers \in [Ants -> (SUBSET Grant) \cup {Closed}]
  BY DEF AntInv, AccountsTypeOK
<1>1. ASSUME NEW a \in Ants, NEW n \in Described, CloseOrphanedRecordMetadata(a, n) PROVE AntInv'
  BY <1>0, <1>1, AntKept DEF CloseOrphanedRecordMetadata
<1>2. ASSUME NEW a \in Ants, NEW n \in Undernames, NEW c \in Holders, CloseAntRecord(a, n, c)
      PROVE  AntInv'
  <2>1. record' = [record EXCEPT ![a][n] = Closed] /\ UNCHANGED <<nft, config, controllers, metadata>>
    BY <1>2 DEF CloseAntRecord
  <2>2. /\ record' \in [Ants -> [Undernames -> AntRecord \cup {Closed}]]
        /\ \A b \in Ants, m \in Undernames : record'[b][m] # Closed =>
             record'[b][m].by = record'[b][m].lro
    BY <2>1, StampedRecord
  <2>. QED BY <2>1, <2>2 DEF AntInv, AccountsTypeOK, Stamped
<1>3. ASSUME NEW a \in Ants, NEW n \in Described, NEW c \in Holders,
             CloseAntRecordMetadataForOwner(a, n, c)
      PROVE  AntInv'
  BY <1>0, <1>3, AntKept DEF CloseAntRecordMetadataForOwner
<1>4. ASSUME NEW a \in Ants, NEW c \in Holders, CloseAntControllers(a, c) PROVE AntInv'
  <2>1. /\ controllers' = [controllers EXCEPT ![a] = Closed]
        /\ UNCHANGED <<nft, config, record, metadata>>
    BY <1>4 DEF CloseAntControllers
  <2>2. controllers' \in [Ants -> (SUBSET Grant) \cup {Closed}]
    BY <1>0, <2>1
  <2>3. \A b \in Ants : controllers'[b] # Closed => controllers'[b] = controllers[b]
    BY <1>0, <2>1
  <2>. QED BY <2>1, <2>2, <2>3 DEF AntInv, AccountsTypeOK, Stamped
<1>5. ASSUME NEW a \in Ants, NEW c \in Holders, CloseAntConfig(a, c) PROVE AntInv'
  <2>1. /\ config' = [config EXCEPT ![a] = Closed]
        /\ UNCHANGED <<nft, controllers, record, metadata>>
    BY <1>5 DEF CloseAntConfig
  <2>2. config' \in [Ants -> Holders \cup {Closed}]
    BY <1>0, <2>1
  <2>3. \A b \in Ants : config'[b] # Closed => config'[b] = config[b]
    BY <1>0, <2>1
  <2>. QED BY <2>1, <2>2, <2>3 DEF AntInv, AccountsTypeOK, Stamped
<1>6. ASSUME NEW a \in Ants, NEW c \in Holders, NEW R \in SUBSET Undernames,
             NEW M \in SUBSET Described, AdminCloseOrphanedAntState(a, c, R, M)
      PROVE  AntInv'
  <2>. DEFINE S == [n \in Undernames |-> IF n \in R THEN Closed ELSE record[a][n]]
  <2>1. /\ config' = [config EXCEPT ![a] = Closed] /\ controllers' = [controllers EXCEPT ![a] = Closed]
        /\ record' = [record EXCEPT ![a] = S] /\ metadata' = [metadata EXCEPT ![a] = @ \ M]
        /\ nft' = nft
    BY <1>6 DEF AdminCloseOrphanedAntState
  <2>2. S \in [Undernames -> AntRecord \cup {Closed}]
    BY <1>0
  <2>3. /\ controllers' \in [Ants -> (SUBSET Grant) \cup {Closed}]
        /\ config' \in [Ants -> Holders \cup {Closed}]
        /\ metadata' \in [Ants -> SUBSET Undernames]
    BY <1>0, <2>1
  <2>4. record' \in [Ants -> [Undernames -> AntRecord \cup {Closed}]]
    <3>. HIDE DEF S
    <3>. QED BY <1>0, <2>1, <2>2
  <2>5. \A b \in Ants : controllers'[b] # Closed => controllers'[b] = controllers[b] /\ config'[b] = config[b]
    BY <1>0, <2>1
  <2>6. \A b \in Ants, n \in Undernames : record'[b][n] # Closed => record'[b][n] = record[b][n]
    <3>1. \A n \in Undernames : S[n] # Closed => S[n] = record[a][n]
      OBVIOUS
    <3>. HIDE DEF S
    <3>. QED BY <1>0, <2>1, <3>1
  <2>7. Stamped'
    BY <2>5, <2>6 DEF AntInv, Stamped
  <2>. QED BY <1>0, <2>1, <2>3, <2>4, <2>7 DEF AntInv, AccountsTypeOK
<1>. QED BY <1>1, <1>2, <1>3, <1>4, <1>5, <1>6, Zenon DEF CloseNext

(* The index and the market leave the accounts of ario-ant alone. *)
LEMMA AclLeaves ==
  ASSUME AclNext
  PROVE  UNCHANGED <<nft, config, controllers, record, metadata>>
BY Zenon DEF AclNext, RegisterAclConfig, CloseAclConfig, AddAclPage, CloseAclPage, RecordAclOwner, RemoveAclOwner,
   RecordAclController, RemoveAclController

(* AntInv is inductive. *)
LEMMA AntStepInv ==
  ASSUME AntInv, [AntNext]_antVars
  PROVE  AntInv'
<1>0. nft \in [Ants -> Holders \cup {NoHolder}] /\ metadata \in [Ants -> SUBSET Undernames]
  BY DEF AntInv, AccountsTypeOK
<1>1. CASE RecordNext
  BY <1>1, RecordInv
<1>2. CASE MetadataNext
  BY <1>2, MetadataInv
<1>3. CASE CloseNext
  BY <1>3, CloseInv
<1>4. CASE AclNext
  BY <1>0, <1>4, AclLeaves, AntKept
<1>5. ASSUME NEW a \in Ants, NEW u \in Holders, Trade(a, u) PROVE AntInv'
  BY <1>0, <1>5, AntKept DEF Trade
<1>6. ASSUME NEW a \in Ants, Burn(a) PROVE AntInv'
  BY <1>0, <1>6, AntKept DEF Burn
<1>7. CASE UNCHANGED antVars
  BY <1>0, <1>7, AntKept DEF antVars
<1>. QED BY <1>1, <1>2, <1>3, <1>4, <1>5, <1>6, <1>7, Zenon DEF AntNext

(* What the stamps mean for whoever asks for permission now. *)
LEMMA AntInvImplies == AntInv => NoInheritedAuthority
<1>. SUFFICES ASSUME AntInv, NEW a \in Ants, ManageAccounts(a)
              PROVE  /\ \A g \in ControllersNow(a) : g.by = nft[a]
                     /\ \A n \in Undernames : record[a][n] # Closed => RecordNow(a, n).by = nft[a]
  BY DEF NoInheritedAuthority
<1>1. nft[a] \in Holders
  BY ReconciledInv
<1>. QED BY <1>1, ReconciledInv, RecordNowStamped

(* No sequence of sales, reconciliations and grants, for any number of wallets, *)
(* ANTs and undernames, lets a controller or a delegate act who was not named   *)
(* while the present holder held the asset.                                     *)
THEOREM NoInheritedAuthorityHolds == AntSpec => []NoInheritedAuthority
<1>1. AntInv /\ [AntNext]_antVars => AntInv'
  BY AntStepInv
<1>. QED BY <1>1, InitInv, AntInvImplies, PTL DEF AntSpec

-----------------------------------------------------------------------------
(* The access index.  The operators below speak of any index f, since a      *)
(* transfer writes two pages, one after the other, in a single instruction.  *)

Acl == [Holders -> AclConfig \cup {Closed}]
EntriesOf(f, u) == [p \in DOMAIN f[u].pages |-> Cardinality(f[u].pages[p])]
Counted(f, u) == f[u] # Closed => f[u].total = SumFunctionOnSet(EntriesOf(f, u), DOMAIN f[u].pages)
OnPage(f, u, e) == f[u] # Closed /\ \E p \in DOMAIN f[u].pages : e \in f[u].pages[p]

\* Every controller of the lists C but the initializer is on a page of f.
ListIndexed(C, f) ==
  \A a \in Ants : C[a] # Closed =>
    \A g \in C[a] : g.user # g.by => OnPage(f, g.user, <<a, "controller">>)

AclInv == acl \in Acl /\ (\A u \in Holders : Counted(acl, u)) /\ ListIndexed(controllers, acl)

(* The pages of a user are finitely many finite sets of entries. *)
LEMMA PagesOf ==
  ASSUME NEW x \in AclConfig
  PROVE  /\ x.total \in Nat
         /\ \E n \in 0 .. MaxPages : x.pages \in [1 .. n -> SUBSET AclEntry]
         /\ IsFiniteSet(DOMAIN x.pages)
         /\ \A p \in DOMAIN x.pages : x.pages[p] \subseteq AclEntry /\ IsFiniteSet(x.pages[p])
<1>0. x.total \in Nat /\ x.pages \in UNION {[1 .. n -> SUBSET AclEntry] : n \in 0 .. MaxPages}
  BY DEF AclConfig
<1>1. PICK n \in 0 .. MaxPages : x.pages \in [1 .. n -> SUBSET AclEntry]
  BY <1>0
<1>2. MaxPages \in Nat /\ IsFiniteSet(Ants)
  BY AntAssumption
<1>3. IsFiniteSet(1 .. n)
  BY <1>2, FS_Interval
<1>4. IsFiniteSet(AclEntry)
  <2>1. IsFiniteSet({"owner", "controller"})
    BY FS_EmptySet, FS_AddElement, {"owner", "controller"} = ({} \cup {"owner"}) \cup {"controller"}
  <2>. QED BY <1>2, <2>1, FS_Product DEF AclEntry
<1>5. \A p \in 1 .. n : x.pages[p] \subseteq AclEntry /\ IsFiniteSet(x.pages[p])
  BY <1>1, <1>4, FS_Subset
<1>. QED BY <1>0, <1>1, <1>3, <1>5

\* Page p of user u becomes X and the counter becomes t.
Put(f, u, p, X, t) == [f EXCEPT ![u] = [pages |-> [f[u].pages EXCEPT ![p] = X], total |-> t]]

PutDone(g, f, u, p, X, t) ==
  /\ g \in Acl /\ \A v \in Holders \ {u} : g[v] = f[v]
  /\ g[u] # Closed /\ DOMAIN g[u].pages = DOMAIN f[u].pages /\ g[u].total = t
  /\ g[u].pages[p] = X
  /\ \A q \in DOMAIN f[u].pages \ {p} : g[u].pages[q] = f[u].pages[q]

(* One page of one user is replaced, and the counter set. *)
LEMMA PutPage ==
  ASSUME NEW f \in Acl, NEW u \in Holders, f[u] # Closed, NEW p \in DOMAIN f[u].pages,
         NEW X \in SUBSET AclEntry, NEW t \in Nat, NEW g,
         g = Put(f, u, p, X, t)
  PROVE  PutDone(g, f, u, p, X, t)
<1>. DEFINE P == [f[u].pages EXCEPT ![p] = X]
            x == [pages |-> P, total |-> t]
<1>1. f[u] \in AclConfig
  BY DEF Acl
<1>2. PICK n \in 0 .. MaxPages : f[u].pages \in [1 .. n -> SUBSET AclEntry]
  BY <1>1, PagesOf
<1>3. /\ P \in [1 .. n -> SUBSET AclEntry] /\ DOMAIN P = DOMAIN f[u].pages /\ P[p] = X
      /\ \A q \in DOMAIN f[u].pages \ {p} : P[q] = f[u].pages[q]
  BY <1>2
<1>. HIDE DEF P
<1>4. x \in AclConfig
  BY <1>3 DEF AclConfig
<1>5. x.pages = P /\ x.total = t /\ x # Closed
  BY <1>4, AntAssumption
<1>6. g = [f EXCEPT ![u] = x]
  BY DEF P, Put
<1>. HIDE DEF x
<1>7. g \in Acl /\ g[u] = x /\ \A v \in Holders \ {u} : g[v] = f[v]
  BY <1>4, <1>6 DEF Acl
<1>. QED BY <1>3, <1>5, <1>7 DEF PutDone

(* The counter follows when it moves by the change of that page's size. *)
LEMMA PutCounted ==
  ASSUME NEW f \in Acl, NEW u \in Holders, f[u] # Closed, NEW p \in DOMAIN f[u].pages,
         NEW X \in SUBSET AclEntry, NEW t \in Nat, NEW g,
         g = Put(f, u, p, X, t),
         t = f[u].total - Cardinality(f[u].pages[p]) + Cardinality(X), Counted(f, u)
  PROVE  Counted(g, u)
<1>1. /\ g \in Acl /\ g[u] # Closed /\ DOMAIN g[u].pages = DOMAIN f[u].pages /\ g[u].total = t
      /\ g[u].pages[p] = X
      /\ \A q \in DOMAIN f[u].pages \ {p} : g[u].pages[q] = f[u].pages[q]
  <2>1. PutDone(g, f, u, p, X, t)
    BY PutPage
  <2>. QED BY <2>1 DEF PutDone
<1>2. f[u] \in AclConfig /\ g[u] \in AclConfig
  BY <1>1 DEF Acl
<1>. DEFINE D == DOMAIN f[u].pages
            F == EntriesOf(f, u)
            G == EntriesOf(g, u)
<1>3. IsFiniteSet(D)
  BY <1>2, PagesOf
<1>4. \A q \in D : F[q] = Cardinality(f[u].pages[q]) /\ G[q] = Cardinality(g[u].pages[q])
  BY <1>1 DEF EntriesOf
<1>5. \A q \in D : F[q] \in Int /\ G[q] \in Int
  <2>1. \A q \in D : IsFiniteSet(f[u].pages[q]) /\ IsFiniteSet(g[u].pages[q])
    BY <1>1, <1>2, PagesOf
  <2>2. \A q \in D : Cardinality(f[u].pages[q]) \in Nat /\ Cardinality(g[u].pages[q]) \in Nat
    BY <2>1, FS_CardinalityType
  <2>. QED BY <1>4, <2>2
<1>6. \A q \in D \ {p} : G[q] = F[q]
  BY <1>1, <1>4
<1>7. G[p] = Cardinality(X) /\ F[p] = Cardinality(f[u].pages[p])
  BY <1>1, <1>4
<1>8. f[u].total = SumFunctionOnSet(F, D)
  BY DEF Counted
<1>. HIDE DEF D, F, G
<1>9. SumFunctionOnSet(G, D) = SumFunctionOnSet(F, D) - F[p] + G[p]
  BY <1>3, <1>5, <1>6, SumUpdate, p \in D DEF D
<1>10. t = SumFunctionOnSet(G, D)
  BY <1>7, <1>8, <1>9
<1>. QED BY <1>1, <1>10 DEF Counted, D, G

(* page_push_unique. *)
LEMMA PushIndexed ==
  ASSUME NEW f \in Acl, \A v \in Holders : Counted(f, v), NEW u \in Holders, f[u] # Closed,
         NEW p \in DOMAIN f[u].pages, NEW e \in AclEntry, e \notin f[u].pages[p], NEW g,
         g = PagePush(f, u, p, e)
  PROVE  /\ g \in Acl /\ \A v \in Holders : Counted(g, v)
         /\ \A v \in Holders \ {u} : g[v] = f[v]
         /\ OnPage(g, u, e)
         /\ \A v \in Holders, d \in AclEntry : OnPage(f, v, d) => OnPage(g, v, d)
<1>1. f[u] \in AclConfig
  BY DEF Acl
<1>2. f[u].total \in Nat /\ f[u].pages[p] \subseteq AclEntry /\ IsFiniteSet(f[u].pages[p])
  BY <1>1, PagesOf
<1>. DEFINE X == f[u].pages[p] \cup {e}
            t == f[u].total + 1
<1>3. X \in SUBSET AclEntry /\ t \in Nat /\ Cardinality(X) = Cardinality(f[u].pages[p]) + 1
  <2>1. Cardinality(X) = Cardinality(f[u].pages[p]) + 1
    BY <1>2, FS_AddElement, Zenon
  <2>. QED BY <1>2, <2>1
<1>4. g = Put(f, u, p, X, t)
  BY <1>1 DEF PagePush, Put, Acl, AclConfig
<1>5. Cardinality(f[u].pages[p]) \in Nat
  BY <1>2, FS_CardinalityType
<1>6. t = f[u].total - Cardinality(f[u].pages[p]) + Cardinality(X)
  BY <1>2, <1>3, <1>5
<1>7. e \in X /\ f[u].pages[p] \subseteq X
  OBVIOUS
<1>. HIDE DEF X, t
<1>8. /\ g \in Acl /\ \A v \in Holders \ {u} : g[v] = f[v]
      /\ g[u] # Closed /\ DOMAIN g[u].pages = DOMAIN f[u].pages
      /\ g[u].pages[p] = X
      /\ \A q \in DOMAIN f[u].pages \ {p} : g[u].pages[q] = f[u].pages[q]
  <2>1. PutDone(g, f, u, p, X, t)
    BY <1>3, <1>4, PutPage
  <2>. QED BY <2>1 DEF PutDone
<1>9. Counted(g, u)
  BY <1>3, <1>4, <1>6, PutCounted
<1>10. \A v \in Holders : Counted(g, v)
  BY <1>8, <1>9 DEF Counted, EntriesOf
<1>11. OnPage(g, u, e)
  BY <1>7, <1>8 DEF OnPage
<1>12. ASSUME NEW v \in Holders, NEW d \in AclEntry, OnPage(f, v, d) PROVE OnPage(g, v, d)
  <2>1. CASE v = u
    <3>1. PICK q \in DOMAIN f[u].pages : d \in f[u].pages[q]
      BY <1>12, <2>1 DEF OnPage
    <3>2. d \in g[u].pages[q]
      BY <3>1, <1>7, <1>8
    <3>. QED BY <2>1, <3>2, <1>8 DEF OnPage
  <2>2. CASE v # u
    BY <1>8, <1>12, <2>2 DEF OnPage
  <2>. QED BY <2>1, <2>2
<1>. QED BY <1>8, <1>10, <1>11, <1>12

(* page_swap_remove: the saturating counter never saturates. *)
LEMMA RemoveIndexed ==
  ASSUME NEW f \in Acl, \A v \in Holders : Counted(f, v), NEW u \in Holders, f[u] # Closed,
         NEW p \in DOMAIN f[u].pages, NEW e \in AclEntry, e \in f[u].pages[p], NEW g,
         g = PageRemove(f, u, p, e)
  PROVE  /\ g \in Acl /\ \A v \in Holders : Counted(g, v)
         /\ \A v \in Holders, d \in AclEntry : OnPage(f, v, d) /\ (v # u \/ d # e) => OnPage(g, v, d)
<1>1. f[u] \in AclConfig
  BY DEF Acl
<1>2. /\ f[u].total \in Nat /\ f[u].pages[p] \subseteq AclEntry /\ IsFiniteSet(f[u].pages[p])
      /\ IsFiniteSet(DOMAIN f[u].pages)
      /\ \A q \in DOMAIN f[u].pages : IsFiniteSet(f[u].pages[q])
  BY <1>1, PagesOf
<1>. DEFINE X == f[u].pages[p] \ {e}
            t == f[u].total - 1
<1>3. X \in SUBSET AclEntry /\ Cardinality(X) = Cardinality(f[u].pages[p]) - 1
  BY <1>2, FS_RemoveElement
<1>4. Cardinality(f[u].pages[p]) \in Nat /\ Cardinality(X) \in Nat
  BY <1>2, <1>3, FS_CardinalityType, FS_RemoveElement
<1>5. Cardinality(f[u].pages[p]) <= f[u].total
  <2>. DEFINE F == EntriesOf(f, u)
              D == DOMAIN f[u].pages
  <2>1. \A q \in D : F[q] \in Nat
    BY <1>2, FS_CardinalityType DEF EntriesOf
  <2>2. F[p] = Cardinality(f[u].pages[p]) /\ f[u].total = SumFunctionOnSet(F, D) /\ IsFiniteSet(D)
    BY <1>2 DEF EntriesOf, Counted
  <2>3. p \in D
    OBVIOUS
  <2>. HIDE DEF F, D
  <2>. QED BY <2>1, <2>2, <2>3, SumMember
<1>6. t \in Nat /\ f[u].total # 0 /\ t = f[u].total - Cardinality(f[u].pages[p]) + Cardinality(X)
  BY <1>2, <1>3, <1>4, <1>5
<1>7. g = Put(f, u, p, X, t)
  BY <1>1, <1>6 DEF PageRemove, Put, Acl, AclConfig
<1>8. \A d \in f[u].pages[p] : d # e => d \in X
  OBVIOUS
<1>. HIDE DEF X, t
<1>9. /\ g \in Acl /\ \A v \in Holders \ {u} : g[v] = f[v]
      /\ g[u] # Closed /\ DOMAIN g[u].pages = DOMAIN f[u].pages
      /\ g[u].pages[p] = X
      /\ \A q \in DOMAIN f[u].pages \ {p} : g[u].pages[q] = f[u].pages[q]
  <2>1. PutDone(g, f, u, p, X, t)
    BY <1>3, <1>6, <1>7, PutPage
  <2>. QED BY <2>1 DEF PutDone
<1>10. Counted(g, u)
  BY <1>3, <1>6, <1>7, PutCounted
<1>11. \A v \in Holders : Counted(g, v)
  BY <1>9, <1>10 DEF Counted, EntriesOf
<1>12. ASSUME NEW v \in Holders, NEW d \in AclEntry, OnPage(f, v, d), v # u \/ d # e PROVE OnPage(g, v, d)
  <2>1. CASE v = u
    <3>1. PICK q \in DOMAIN f[u].pages : d \in f[u].pages[q]
      BY <1>12, <2>1 DEF OnPage
    <3>2. d \in g[u].pages[q]
      BY <3>1, <1>8, <1>9, <1>12, <2>1
    <3>. QED BY <2>1, <3>2, <1>9 DEF OnPage
  <2>2. CASE v # u
    BY <1>9, <1>12, <2>2 DEF OnPage
  <2>. QED BY <2>1, <2>2
<1>. QED BY <1>9, <1>11, <1>12

(* An empty page at the end counts for nothing: pages come and go at the end. *)
LEMMA EmptyPage ==
  ASSUME NEW n \in 0 .. MaxPages, n + 1 <= MaxPages,
         NEW P \in [1 .. n -> SUBSET AclEntry], NEW Q \in [1 .. n + 1 -> SUBSET AclEntry],
         \A i \in 1 .. n : Q[i] = P[i], Q[n + 1] = {}
  PROVE  SumFunctionOnSet([i \in DOMAIN Q |-> Cardinality(Q[i])], DOMAIN Q)
           = SumFunctionOnSet([i \in DOMAIN P |-> Cardinality(P[i])], DOMAIN P)
<1>. DEFINE F == [i \in DOMAIN P |-> Cardinality(P[i])]
            G == [i \in DOMAIN Q |-> Cardinality(Q[i])]
            D == 1 .. n
            E == 1 .. n + 1
            m == n + 1
<1>0. n \in Nat /\ DOMAIN P = D /\ DOMAIN Q = E
  BY AntAssumption
<1>1. IsFiniteSet(D) /\ IsFiniteSet(E) /\ m \in E /\ E \ {m} = D
  <2>1. IsFiniteSet(1 .. n) /\ IsFiniteSet(1 .. m)
    BY <1>0, FS_Interval
  <2>2. m \in E /\ E \ {m} = D
    BY <1>0
  <2>. QED BY <2>1, <2>2
<1>2. \A i \in E : G[i] \in Int
  <2>1. \A i \in E : IsFiniteSet(Q[i])
    <3>1. [pages |-> Q, total |-> 0] \in AclConfig
      BY <1>0, n + 1 \in 0 .. MaxPages, Q \in [1 .. n + 1 -> SUBSET AclEntry] DEF AclConfig
    <3>. QED BY <3>1, PagesOf
  <2>2. \A i \in E : Cardinality(Q[i]) \in Nat
    BY <2>1, FS_CardinalityType
  <2>. QED BY <1>0, <2>2
<1>3. G[m] = 0 /\ \A i \in D : G[i] = F[i]
  BY <1>0, <1>1, FS_EmptySet
<1>. HIDE DEF F, G, D, E, m
<1>4. SumFunctionOnSet(G, E) = G[m] + SumFunctionOnSet(G, D)
  BY <1>1, <1>2, SumSplit
<1>5. SumFunctionOnSet(G, D) = SumFunctionOnSet(F, D)
  BY <1>1, <1>3, SumCong
<1>6. SumFunctionOnSet(G, D) \in Int
  <2>1. \A i \in D : G[i] \in Int
    BY <1>1, <1>2
  <2>. QED BY <1>1, <2>1, SumInt
<1>7. SumFunctionOnSet(G, E) = SumFunctionOnSet(F, D)
  BY <1>3, <1>4, <1>5, <1>6
<1>. QED BY <1>0, <1>7 DEF F, G

(* No index account exists at first, and no list. *)
LEMMA InitAcl == AntInit => AclInv
BY DEF AntInit, AclInv, Acl, Counted, ListIndexed

(* A step that leaves the index alone and lists nobody new, but the initializer. *)
LEMMA ListsShrink ==
  ASSUME AclInv, acl' = acl,
         \A a \in Ants : controllers'[a] # Closed =>
           \A g \in controllers'[a] : g.user # g.by => controllers[a] # Closed /\ g \in controllers[a]
  PROVE  AclInv'
BY DEF AclInv, Acl, Counted, EntriesOf, ListIndexed, OnPage

(* A step that rewrites the index: what the lists name must still be on a page. *)
LEMMA IndexMoves ==
  ASSUME AntInv, AclInv, NEW f, f = acl', f \in Acl, \A u \in Holders : Counted(f, u),
         \A a \in Ants : controllers'[a] # Closed =>
           \A g \in controllers'[a] : g.user # g.by => OnPage(f, g.user, <<a, "controller">>)
  PROVE  AclInv'
BY DEF AclInv, Acl, Counted, EntriesOf, ListIndexed, OnPage

(* The users a list names are wallets, and entries about ANTs are entries. *)
LEMMA GrantTypes ==
  ASSUME AntInv, NEW a \in Ants, controllers[a] # Closed, NEW g \in controllers[a]
  PROVE  g.user \in Holders /\ <<a, "controller">> \in AclEntry /\ <<a, "owner">> \in AclEntry
<1>1. g \in Grant
  BY DEF AntInv, AccountsTypeOK
<1>. QED BY <1>1 DEF Grant, AclEntry

(* The eight instructions of the index itself. *)
LEMMA AclNextIndexed ==
  ASSUME AntInv, AclInv, AclNext
  PROVE  AclInv'
<1>0. /\ controllers' = controllers /\ acl \in Acl /\ \A v \in Holders : Counted(acl, v)
      /\ AclHolders \subseteq Holders /\ MaxPages \in Nat
  BY AclLeaves, AntAssumption DEF AclInv
<1>. DEFINE Keeps(f) == \A v \in Holders, a \in Ants :
              OnPage(acl, v, <<a, "controller">>) => OnPage(f, v, <<a, "controller">>)
<1>1. ASSUME NEW f, f = acl', f \in Acl, \A v \in Holders : Counted(f, v), Keeps(f) PROVE AclInv'
  <2>1. ASSUME NEW a \in Ants, controllers'[a] # Closed, NEW g \in controllers'[a], g.user # g.by
        PROVE  OnPage(f, g.user, <<a, "controller">>)
    <3>1. OnPage(acl, g.user, <<a, "controller">>) /\ g.user \in Holders
      BY <1>0, <2>1, GrantTypes DEF AclInv, ListIndexed
    <3>. QED BY <3>1, <1>1
  <2>. HIDE DEF Keeps
  <2>. QED BY <1>1, <2>1, IndexMoves
<1>. DEFINE New(f, u, x) == f = [acl EXCEPT ![u] = x]
<1>2. ASSUME NEW f, f = acl', NEW u \in Holders, NEW x \in AclConfig, New(f, u, x),
             x.total = SumFunctionOnSet([p \in DOMAIN x.pages |-> Cardinality(x.pages[p])], DOMAIN x.pages),
             \A a \in Ants : OnPage(acl, u, <<a, "controller">>) =>
               \E p \in DOMAIN x.pages : <<a, "controller">> \in x.pages[p]
      PROVE  AclInv'
  <2>1. f \in Acl /\ f[u] = x /\ \A v \in Holders \ {u} : f[v] = acl[v]
    BY <1>0, <1>2 DEF Acl
  <2>2. x # Closed
    BY AntAssumption
  <2>3. \A v \in Holders : Counted(f, v)
    BY <1>0, <1>2, <2>1, <2>2 DEF Counted, EntriesOf
  <2>4. Keeps(f)
    BY <1>2, <2>1, <2>2 DEF OnPage
  <2>. HIDE DEF Keeps, New
  <2>. QED BY <1>1, <1>2, <2>1, <2>3, <2>4
<1>. HIDE DEF New
<1>3. ASSUME NEW u \in AclHolders, RegisterAclConfig(u) PROVE AclInv'
  <2>. DEFINE x == [pages |-> <<>>, total |-> 0]
  <2>1. x.pages = <<>> /\ x.total = 0 /\ DOMAIN x.pages = {}
    OBVIOUS
  <2>2. x \in AclConfig
    <3>1. <<>> \in [1 .. 0 -> SUBSET AclEntry]
      OBVIOUS
    <3>. QED BY <3>1, <1>0 DEF AclConfig
  <2>3. New(acl', u, x) /\ acl[u] = Closed
    BY <1>3 DEF RegisterAclConfig, New
  <2>4. x.total = SumFunctionOnSet([p \in DOMAIN x.pages |-> Cardinality(x.pages[p])], DOMAIN x.pages)
    <3>. HIDE DEF x
    <3>. QED BY <2>1, SumEmpty
  <2>. HIDE DEF x, Keeps
  <2>. QED BY <1>0, <1>2, <2>2, <2>3, <2>4 DEF OnPage
<1>4. ASSUME NEW u \in AclHolders, CloseAclConfig(u) PROVE AclInv'
  <2>1. acl' = [acl EXCEPT ![u] = Closed] /\ acl[u].pages = <<>>
    BY <1>4 DEF CloseAclConfig
  <2>2. acl' \in Acl /\ acl'[u] = Closed /\ \A v \in Holders \ {u} : acl'[v] = acl[v]
    BY <1>0, <2>1 DEF Acl
  <2>3. \A v \in Holders : Counted(acl', v)
    BY <1>0, <2>2 DEF Counted, EntriesOf
  <2>4. DOMAIN acl[u].pages = {}
    BY <2>1
  <2>5. Keeps(acl')
    BY <2>2, <2>4 DEF OnPage
  <2>. HIDE DEF Keeps
  <2>. QED BY <1>1, <2>2, <2>3, <2>5
<1>5. ASSUME NEW u \in AclHolders, AddAclPage(u) PROVE AclInv'
  <2>1. u \in Holders /\ acl[u] # Closed /\ acl[u] \in AclConfig
    BY <1>0, <1>5 DEF AddAclPage, Acl
  <2>2. PICK n \in 0 .. MaxPages : acl[u].pages \in [1 .. n -> SUBSET AclEntry]
    BY <2>1, PagesOf
  <2>3. n \in Nat /\ PageCount(u) = n /\ n + 1 <= MaxPages /\ n + 1 \in 0 .. MaxPages
    <3>1. Cardinality(1 .. n) = n
      BY <1>0, FS_Interval
    <3>2. PageCount(u) = n
      BY <3>1, <2>2 DEF PageCount
    <3>. QED BY <1>0, <1>5, <3>2 DEF AddAclPage
  <2>. DEFINE P == acl[u].pages
              Q == [i \in 1 .. n + 1 |-> IF i \in DOMAIN P THEN P[i] ELSE {}]
              t == acl[u].total
              x == [pages |-> Q, total |-> t]
  <2>4. Q \in [1 .. n + 1 -> SUBSET AclEntry] /\ Q[n + 1] = {} /\ \A i \in 1 .. n : Q[i] = P[i]
    BY <2>2, <2>3
  <2>5. t \in Nat /\ t = SumFunctionOnSet([p \in DOMAIN P |-> Cardinality(P[p])], DOMAIN P)
    BY <1>0, <2>1, PagesOf DEF Counted, EntriesOf
  <2>6. acl' = [acl EXCEPT ![u] = x]
    <3>1. acl' = [acl EXCEPT ![u] = [acl[u] EXCEPT !.pages = Q]]
      BY <1>5, <2>3 DEF AddAclPage
    <3>2. [acl[u] EXCEPT !.pages = Q] = x
      <4>. HIDE DEF Q
      <4>. QED BY <2>1 DEF AclConfig
    <3>. QED BY <3>1, <3>2
  <2>7. P \in [1 .. n -> SUBSET AclEntry]
    BY <2>2
  <2>8. \A a \in Ants : OnPage(acl, u, <<a, "controller">>) =>
          \E p \in DOMAIN Q : <<a, "controller">> \in Q[p]
    BY <2>3, <2>4, <2>7 DEF OnPage
  <2>. HIDE DEF Q, t, P
  <2>9. SumFunctionOnSet([p \in DOMAIN Q |-> Cardinality(Q[p])], DOMAIN Q) = t
    BY <2>3, <2>4, <2>5, <2>7, EmptyPage
  <2>10. x \in AclConfig /\ x.pages = Q /\ x.total = t
    BY <2>3, <2>4, <2>5 DEF AclConfig
  <2>11. New(acl', u, x)
    BY <2>6 DEF New
  <2>. HIDE DEF x, Keeps
  <2>. QED BY <1>2, <2>1, <2>8, <2>9, <2>10, <2>11
<1>6. ASSUME NEW u \in AclHolders, NEW p \in 1 .. MaxPages, CloseAclPage(u, p) PROVE AclInv'
  <2>1. u \in Holders /\ acl[u] # Closed /\ acl[u] \in AclConfig /\ acl[u].pages[p] = {}
    BY <1>0, <1>6 DEF CloseAclPage, Acl
  <2>2. PICK n \in 0 .. MaxPages : acl[u].pages \in [1 .. n -> SUBSET AclEntry]
    BY <2>1, PagesOf
  <2>3. PICK m \in 0 .. MaxPages : n = m + 1 /\ p = m + 1 /\ m + 1 <= MaxPages
    <3>1. Cardinality(1 .. n) = n
      BY <1>0, FS_Interval
    <3>2. PageCount(u) = n
      BY <3>1, <2>2 DEF PageCount
    <3>3. n > 0 /\ p = n /\ n - 1 \in 0 .. MaxPages
      BY <1>0, <1>6, <3>2 DEF CloseAclPage
    <3>. QED BY <1>0, <3>3
  <2>. DEFINE P == acl[u].pages
              Q == [i \in 1 .. p - 1 |-> P[i]]
              t == acl[u].total
              x == [pages |-> Q, total |-> t]
  <2>4. Q \in [1 .. m -> SUBSET AclEntry] /\ P[m + 1] = {} /\ \A i \in 1 .. m : P[i] = Q[i]
    BY <2>1, <2>2, <2>3
  <2>5. t \in Nat /\ t = SumFunctionOnSet([q \in DOMAIN P |-> Cardinality(P[q])], DOMAIN P)
    BY <1>0, <2>1, PagesOf DEF Counted, EntriesOf
  <2>6. acl' = [acl EXCEPT ![u] = x]
    <3>1. acl' = [acl EXCEPT ![u] = [acl[u] EXCEPT !.pages = Q]]
      BY <1>6 DEF CloseAclPage
    <3>2. [acl[u] EXCEPT !.pages = Q] = x
      <4>. HIDE DEF Q
      <4>. QED BY <2>1 DEF AclConfig
    <3>. QED BY <3>1, <3>2
  <2>7. P \in [1 .. m + 1 -> SUBSET AclEntry]
    BY <2>2, <2>3
  <2>8. \A a \in Ants : OnPage(acl, u, <<a, "controller">>) =>
          \E q \in DOMAIN Q : <<a, "controller">> \in Q[q]
    <3>1. \A q \in 1 .. m + 1 : q # m + 1 => q \in 1 .. m
      BY <1>0
    <3>. QED BY <3>1, <2>4, <2>7 DEF OnPage
  <2>. HIDE DEF Q, t, P
  <2>9. SumFunctionOnSet([q \in DOMAIN Q |-> Cardinality(Q[q])], DOMAIN Q) = t
    BY <2>3, <2>4, <2>5, <2>7, EmptyPage
  <2>10. x \in AclConfig /\ x.pages = Q /\ x.total = t
    BY <2>4, <2>5 DEF AclConfig
  <2>11. New(acl', u, x)
    BY <2>6 DEF New
  <2>. HIDE DEF x, Keeps
  <2>. QED BY <1>2, <2>1, <2>8, <2>9, <2>10, <2>11
<1>7. ASSUME NEW u \in AclHolders, NEW p \in 1 .. MaxPages, NEW e \in AclEntry,
             PageBelongs(u, p), CanPush(u, p, e), acl' = PagePush(acl, u, p, e)
      PROVE  AclInv'
  <2>1. u \in Holders /\ acl[u] # Closed /\ p \in DOMAIN acl[u].pages /\ e \notin acl[u].pages[p]
    BY <1>0, <1>7 DEF PageBelongs, CanPush
  <2>2. /\ acl' \in Acl /\ \A v \in Holders : Counted(acl', v)
        /\ \A v \in Holders, d \in AclEntry : OnPage(acl, v, d) => OnPage(acl', v, d)
    BY <1>0, <1>7, <2>1, PushIndexed
  <2>3. Keeps(acl')
    BY <2>2 DEF AclEntry
  <2>. HIDE DEF Keeps
  <2>. QED BY <1>1, <2>2, <2>3
<1>8. ASSUME NEW u \in AclHolders, NEW p \in 1 .. MaxPages, NEW e \in AclEntry,
             PageBelongs(u, p), e \in acl[u].pages[p], acl' = PageRemove(acl, u, p, e),
             \A a \in Ants : e = <<a, "controller">> => controllers[a] # Closed /\ ~Listed(a, u)
      PROVE  AclInv'
  <2>1. u \in Holders /\ acl[u] # Closed /\ p \in DOMAIN acl[u].pages
    BY <1>0, <1>8 DEF PageBelongs
  <2>2. /\ acl' \in Acl /\ \A v \in Holders : Counted(acl', v)
        /\ \A v \in Holders, d \in AclEntry : OnPage(acl, v, d) /\ (v # u \/ d # e) => OnPage(acl', v, d)
    BY <1>0, <1>8, <2>1, RemoveIndexed
  <2>3. ASSUME NEW a \in Ants, controllers'[a] # Closed, NEW g \in controllers'[a], g.user # g.by
        PROVE  OnPage(acl', g.user, <<a, "controller">>)
    <3>1. /\ OnPage(acl, g.user, <<a, "controller">>) /\ g.user \in Holders
          /\ <<a, "controller">> \in AclEntry
      BY <1>0, <2>3, GrantTypes DEF AclInv, ListIndexed
    <3>2. g.user # u \/ <<a, "controller">> # e
      BY <1>0, <1>8, <2>3 DEF Listed
    <3>. QED BY <2>2, <3>1, <3>2
  <2>. QED BY <2>2, <2>3, IndexMoves
<1>9. ASSUME NEW u \in AclHolders, NEW p \in 1 .. MaxPages, NEW a \in Ants,
             RecordAclOwner(a, u, p) \/ RecordAclController(a, u, p)
      PROVE  AclInv'
  <2>1. <<a, "owner">> \in AclEntry /\ <<a, "controller">> \in AclEntry
    BY DEF AclEntry
  <2>. QED BY <1>7, <1>9, <2>1 DEF RecordAclOwner, RecordAclController
<1>10. ASSUME NEW u \in AclHolders, NEW p \in 1 .. MaxPages, NEW a \in Ants, RemoveAclOwner(a, u, p)
       PROVE  AclInv'
  <2>1. <<a, "owner">> \in AclEntry /\ \A b \in Ants : <<a, "owner">> # <<b, "controller">>
    BY DEF AclEntry
  <2>. QED BY <1>8, <1>10, <2>1 DEF RemoveAclOwner
<1>11. ASSUME NEW u \in AclHolders, NEW p \in 1 .. MaxPages, NEW a \in Ants, RemoveAclController(a, u, p)
       PROVE  AclInv'
  <2>1. <<a, "controller">> \in AclEntry /\ \A b \in Ants : <<a, "controller">> = <<b, "controller">> => b = a
    BY DEF AclEntry
  <2>. QED BY <1>8, <1>11, <2>1 DEF RemoveAclController, AclControllerAccounts
<1>. QED BY <1>3, <1>4, <1>5, <1>6, <1>9, <1>10, <1>11, Zenon DEF AclNext

(* The instructions that move a list and its index entries together. *)
LEMMA ControllerIndexed ==
  ASSUME AntInv, AclInv, NEW a \in Ants, NEW c \in Holders, NEW u \in AclHolders, NEW p \in 1 .. MaxPages,
         AddController(a, c, u, p) \/ RemoveController(a, c, u, p)
  PROVE  AclInv'
<1>. DEFINE e == <<a, "controller">>
<1>0. /\ acl \in Acl /\ \A v \in Holders : Counted(acl, v)
      /\ u \in Holders /\ e \in AclEntry /\ controllers[a] # Closed
      /\ acl[u] # Closed /\ p \in DOMAIN acl[u].pages
  BY AntAssumption DEF AclInv, AclEntry, AddController, AddControllerAccounts, RemoveController,
     RemoveControllerAccounts, PageBelongs, ManageAccounts
<1>1. ControllersNow(a) \subseteq controllers[a]
  BY DEF ControllersNow
<1>2. controllers \in [Ants -> (SUBSET Grant) \cup {Closed}]
  BY DEF AntInv, AccountsTypeOK
<1>3. ASSUME NEW b \in Ants, controllers[b] # Closed, NEW g \in controllers[b], g.user # g.by
      PROVE  OnPage(acl, g.user, <<b, "controller">>) /\ g.user \in Holders /\ <<b, "controller">> \in AclEntry
  BY <1>3, GrantTypes DEF AclInv, ListIndexed
<1>4. CASE AddController(a, c, u, p)
  <2>. DEFINE g0 == [user |-> u, by |-> nft[a]]
              L == ControllersNow(a) \cup {g0}
  <2>1. /\ controllers' = [controllers EXCEPT ![a] = L] /\ acl' = PagePush(acl, u, p, e)
        /\ e \notin acl[u].pages[p] /\ g0.user = u
    BY <1>4 DEF AddController, CanPush
  <2>2. \A g \in L : g \in controllers[a] \/ g.user = u
    <3>. HIDE DEF g0
    <3>. QED BY <1>1, <2>1
  <2>. HIDE DEF e, L
  <2>3. /\ acl' \in Acl /\ \A v \in Holders : Counted(acl', v)
        /\ OnPage(acl', u, e)
        /\ \A v \in Holders, d \in AclEntry : OnPage(acl, v, d) => OnPage(acl', v, d)
    BY <1>0, <2>1, PushIndexed
  <2>4. ASSUME NEW b \in Ants, controllers'[b] # Closed, NEW g \in controllers'[b], g.user # g.by
        PROVE  OnPage(acl', g.user, <<b, "controller">>)
    <3>1. CASE b = a /\ g.user = u
      BY <2>3, <3>1 DEF e
    <3>2. CASE ~(b = a /\ g.user = u)
      <4>1. controllers[b] # Closed /\ g \in controllers[b]
        BY <1>0, <1>2, <2>1, <2>2, <2>4, <3>2
      <4>. QED BY <1>3, <2>3, <2>4, <4>1
    <3>. QED BY <3>1, <3>2
  <2>. QED BY <2>3, <2>4, IndexMoves
<1>5. CASE RemoveController(a, c, u, p)
  <2>. DEFINE L == {g \in ControllersNow(a) : g.user # u}
  <2>1. /\ controllers' = [controllers EXCEPT ![a] = L] /\ acl' = PageRemove(acl, u, p, e)
        /\ e \in acl[u].pages[p]
    BY <1>5 DEF RemoveController
  <2>2. \A g \in L : g \in controllers[a] /\ g.user # u
    BY <1>1
  <2>. HIDE DEF e, L
  <2>3. /\ acl' \in Acl /\ \A v \in Holders : Counted(acl', v)
        /\ \A v \in Holders, d \in AclEntry : OnPage(acl, v, d) /\ (v # u \/ d # e) => OnPage(acl', v, d)
    BY <1>0, <2>1, RemoveIndexed
  <2>4. ASSUME NEW b \in Ants, controllers'[b] # Closed, NEW g \in controllers'[b], g.user # g.by
        PROVE  OnPage(acl', g.user, <<b, "controller">>)
    <3>1. controllers[b] # Closed /\ g \in controllers[b] /\ (b = a => g.user # u)
      BY <1>0, <1>2, <2>1, <2>2, <2>4
    <3>2. g.user # u \/ <<b, "controller">> # e
      BY <3>1 DEF e
    <3>. QED BY <1>3, <2>3, <2>4, <3>1, <3>2
  <2>. QED BY <2>3, <2>4, IndexMoves
<1>. QED BY <1>4, <1>5

LEMMA TransferIndexed ==
  ASSUME AntInv, AclInv, NEW a \in Ants, NEW c \in Holders, NEW u \in AclHolders,
         NEW p \in 1 .. MaxPages, NEW q \in 1 .. MaxPages, Transfer(a, c, u, p, q)
  PROVE  AclInv'
<1>. DEFINE e == <<a, "owner">>
            f == PagePush(acl, u, q, e)
<1>0. /\ acl \in Acl /\ \A v \in Holders : Counted(acl, v)
      /\ u \in Holders /\ c # u /\ e \in AclEntry
      /\ acl[u] # Closed /\ q \in DOMAIN acl[u].pages /\ e \notin acl[u].pages[q]
      /\ acl[c] # Closed /\ p \in DOMAIN acl[c].pages /\ e \in acl[c].pages[p]
      /\ acl' = PageRemove(f, c, p, e) /\ controllers' = [controllers EXCEPT ![a] = {}]
  BY AntAssumption DEF AclInv, AclEntry, Transfer, TransferAccounts, PageBelongs, CanPush
<1>1. \A b \in Ants : e # <<b, "controller">>
  OBVIOUS
<1>2. controllers \in [Ants -> (SUBSET Grant) \cup {Closed}]
  BY DEF AntInv, AccountsTypeOK
<1>. HIDE DEF e
<1>3. /\ f \in Acl /\ \A v \in Holders : Counted(f, v)
      /\ \A v \in Holders \ {u} : f[v] = acl[v]
      /\ \A v \in Holders, d \in AclEntry : OnPage(acl, v, d) => OnPage(f, v, d)
  BY <1>0, PushIndexed
<1>4. f[c] = acl[c]
  BY <1>0, <1>3
<1>. HIDE DEF f
<1>5. /\ acl' \in Acl /\ \A v \in Holders : Counted(acl', v)
      /\ \A v \in Holders, d \in AclEntry : OnPage(f, v, d) /\ (v # c \/ d # e) => OnPage(acl', v, d)
  <2>1. f[c] # Closed /\ p \in DOMAIN f[c].pages /\ e \in f[c].pages[p]
    BY <1>0, <1>4
  <2>. QED BY <1>0, <1>3, <2>1, RemoveIndexed
<1>6. ASSUME NEW b \in Ants, controllers'[b] # Closed, NEW g \in controllers'[b], g.user # g.by
      PROVE  OnPage(acl', g.user, <<b, "controller">>)
  <2>1. controllers[b] # Closed /\ g \in controllers[b]
    BY <1>0, <1>2, <1>6
  <2>2. OnPage(acl, g.user, <<b, "controller">>) /\ g.user \in Holders /\ <<b, "controller">> \in AclEntry
    BY <1>6, <2>1, GrantTypes DEF AclInv, ListIndexed
  <2>3. OnPage(f, g.user, <<b, "controller">>)
    BY <1>3, <2>2
  <2>. QED BY <1>1, <1>5, <2>2, <2>3
<1>. QED BY <1>5, <1>6, IndexMoves

(* AclInv is inductive relative to AntInv. *)
LEMMA AclStepInv ==
  ASSUME AntInv, AclInv, [AntNext]_antVars
  PROVE  AclInv'
<1>0. controllers \in [Ants -> (SUBSET Grant) \cup {Closed}]
  BY DEF AntInv, AccountsTypeOK
<1>1. ASSUME NEW a \in Ants, controllers[a] # Closed, Reconciled(a), acl' = acl PROVE AclInv'
  <2>1. controllers' = [controllers EXCEPT ![a] = ControllersNow(a)]
    BY <1>1 DEF Reconciled
  <2>2. ControllersNow(a) \subseteq controllers[a]
    BY DEF ControllersNow
  <2>. QED BY <1>0, <1>1, <2>1, <2>2, ListsShrink
<1>2. ASSUME NEW a \in Ants, NEW c \in Holders, Initialize(a, c) PROVE AclInv'
  <2>. DEFINE g0 == [user |-> c, by |-> c]
  <2>1. controllers' = [controllers EXCEPT ![a] = {g0}] /\ acl' = acl /\ g0.user = g0.by
    BY <1>2 DEF Initialize
  <2>. HIDE DEF g0
  <2>. QED BY <1>0, <2>1, ListsShrink
<1>3. CASE RecordNext
  <2>1. ASSUME NEW a \in Ants, NEW c \in Holders, NEW n \in Undernames,
               NEW o \in Holders \cup {NoHolder}, SetRecord(a, n, c, o)
        PROVE  AclInv'
    BY <1>1, <2>1 DEF SetRecord, SetRecordAccounts, ManageAccounts
  <2>2. ASSUME NEW a \in Ants, NEW c \in Holders, NEW n \in Undernames, NEW b \in BOOLEAN,
               RemoveRecord(a, n, c, b)
        PROVE  AclInv'
    BY <1>1, <2>2 DEF RemoveRecord, RemoveRecordAccounts, ManageAccounts
  <2>3. ASSUME NEW a \in Ants, NEW c \in Holders, NEW n \in Undernames, NEW o \in Holders,
               TransferRecord(a, n, c, o)
        PROVE  AclInv'
    BY <1>1, <2>3 DEF TransferRecord, TransferRecordAccounts, ManageAccounts
  <2>. QED BY <1>2, <1>3, <2>1, <2>2, <2>3, ControllerIndexed, TransferIndexed, Zenon DEF RecordNext
<1>4. CASE MetadataNext
  <2>1. ASSUME NEW a \in Ants, NEW c \in Holders, ManageMetadata(a, c) PROVE AclInv'
    BY <1>1, <2>1 DEF ManageMetadata, ManageAccounts
  <2>2. ASSUME NEW a \in Ants, NEW c \in Holders, NEW n \in Described,
               SetRecordMetadata(a, n, c) \/ RemoveRecordMetadata(a, n, c)
        PROVE  AclInv'
    BY <1>1, <2>2 DEF SetRecordMetadata, SetRecordMetadataAccounts, RemoveRecordMetadata,
       RemoveRecordMetadataAccounts, ManageAccounts
  <2>3. ASSUME NEW a \in Ants, Reconcile(a) PROVE AclInv'
    BY <1>1, <2>3 DEF Reconcile, ReconcileAccounts, ManageAccounts
  <2>. QED BY <1>4, <2>1, <2>2, <2>3, Zenon
       DEF MetadataNext, SetName, SetTicker, SetDescription, SetKeywords, SetLogo
<1>5. CASE CloseNext
  <2>1. ASSUME NEW a \in Ants, controllers' = [controllers EXCEPT ![a] = Closed], acl' = acl PROVE AclInv'
    BY <1>0, <2>1, ListsShrink
  <2>2. ASSUME UNCHANGED <<controllers, acl>> PROVE AclInv'
    BY <2>2, ListsShrink
  <2>. QED BY <1>5, <2>1, <2>2, Zenon DEF CloseNext, CloseOrphanedRecordMetadata, CloseAntRecord,
       CloseAntRecordMetadataForOwner, CloseAntControllers, CloseAntConfig, AdminCloseOrphanedAntState
<1>6. CASE AclNext
  BY <1>6, AclNextIndexed
<1>7. ASSUME NEW a \in Ants, NEW u \in Holders, Trade(a, u) PROVE AclInv'
  BY <1>7, ListsShrink DEF Trade
<1>8. ASSUME NEW a \in Ants, Burn(a) PROVE AclInv'
  BY <1>8, ListsShrink DEF Burn
<1>9. CASE UNCHANGED antVars
  BY <1>9, ListsShrink DEF antVars
<1>. QED BY <1>3, <1>4, <1>5, <1>6, <1>7, <1>8, <1>9, Zenon DEF AntNext

(* The counter of an access index is the number of its entries, so that the     *)
(* saturating decrement of a removal never saturates, and every controller that *)
(* was added is on one of their pages for as long as a list names them.         *)
THEOREM AclIndexedHolds == AntSpec => []AclIndexed
<1>1. AntInv /\ AclInv /\ [AntNext]_antVars => AntInv' /\ AclInv'
  BY AntStepInv, AclStepInv
<1>2. AclInv => AclIndexed
  BY DEF AclInv, AclIndexed, Counted, EntriesOf, Entries, ListIndexed, OnPage
<1>. QED BY <1>1, <1>2, InitInv, InitAcl, PTL DEF AntSpec

(* The accounts of ario-ant and the pages of the index keep their types. *)
THEOREM AntTypeCorrect == AntSpec => []AntTypeOK
<1>1. AntInv /\ AclInv /\ [AntNext]_antVars => AntInv' /\ AclInv'
  BY AntStepInv, AclStepInv
<1>2. AntInv /\ AclInv => AntTypeOK
  BY DEF AntInv, AclInv, Acl, AntTypeOK
<1>. QED BY <1>1, <1>2, InitInv, InitAcl, PTL DEF AntSpec

-----------------------------------------------------------------------------
(***************************************************************************)
(* Primary names.  The invariant of ario-ant (AntInv) carries over: its    *)
(* steps are among those of the composition, and no other step touches its *)
(* accounts.                                                               *)
(***************************************************************************)
NamesInv == AntInv /\ NamesTypeOK /\ NamesPaired

(* Nothing is named at first. *)
LEMMA InitNames == Init => NamesInv
BY InitInv DEF Init, NamesInv, NamesTypeOK, NamesPaired

(* What a step does to the two accounts of a name: nothing, or it writes both *)
(* for a name whose lease runs, or it closes both.                           *)
LEMMA PairCases ==
  ASSUME NamesTypeOK, [Next]_vars
  PROVE  \/ UNCHANGED <<primary, reverse>>
         \/ \E u \in Holders, n \in Names : SetPair(u, n) /\ ValidateArnsRecordExists(BaseOf(n))
         \/ \E u \in Holders : primary[u] # Closed /\ Unset(u)
<1>. DEFINE Sets == \E u \in Holders, n \in Names : SetPair(u, n) /\ ValidateArnsRecordExists(BaseOf(n))
            Closes == \E u \in Holders : primary[u] # Closed /\ Unset(u)
            Goal == UNCHANGED <<primary, reverse>> \/ Sets \/ Closes
<1>1. CASE UNCHANGED vars
  BY <1>1 DEF vars, nameVars
<1>2. CASE Tick
  BY <1>2 DEF Tick
<1>3. ASSUME NEW b \in Bases, NEW r, ArnsChanges(b, r) PROVE Goal
  BY <1>3 DEF ArnsChanges
<1>4. CASE AntStep
  BY <1>4 DEF AntStep, nameVars
<1>5. ASSUME NEW u \in Holders, NEW n \in Names, RequestPrimaryName(u, n) PROVE Goal
  BY <1>5 DEF RequestPrimaryName
<1>6. ASSUME NEW u \in Holders, NEW n \in Names, NEW w, RequestPrimaryNameFromFundingPlan(u, n, w) PROVE Goal
  BY <1>6 DEF RequestPrimaryNameFromFundingPlan
<1>7. ASSUME NEW u \in Holders, NEW n \in Names, RequestAndSetPrimaryName(u, n) PROVE Goal
  <2>1. SetPair(u, n) /\ ValidateArnsRecordExists(BaseOf(n))
    BY <1>7 DEF RequestAndSetPrimaryName
  <2>. QED BY <2>1
<1>8. ASSUME NEW u \in Holders, NEW n \in Names, NEW w, RequestAndSetPrimaryNameFromFundingPlan(u, n, w)
      PROVE  Goal
  <2>1. SetPair(u, n) /\ ValidateArnsRecordExists(BaseOf(n))
    BY <1>8 DEF RequestAndSetPrimaryNameFromFundingPlan
  <2>. QED BY <2>1
<1>9. ASSUME NEW u \in Holders, NEW c \in Holders, ApprovePrimaryName(u, c) PROVE Goal
  <2>1. SetPair(u, request[u].name) /\ ValidateArnsRecordExists(BaseOf(request[u].name))
    BY <1>9 DEF ApprovePrimaryName
  <2>2. request[u].name \in Names
    BY <1>9 DEF ApprovePrimaryName, ApproveAccounts, NamesTypeOK, PrimaryNameRequest
  <2>. QED BY <2>1, <2>2
<1>10. ASSUME NEW u \in Holders, CloseExpiredRequest(u) PROVE Goal
  BY <1>10 DEF CloseExpiredRequest
<1>11. ASSUME NEW u \in Holders, RemovePrimaryName(u) PROVE Goal
  BY <1>11 DEF RemovePrimaryName, RemovePrimaryNameAccounts
<1>12. ASSUME NEW u \in Holders, NEW c \in Holders, RemovePrimaryNameForBaseName(u, c) PROVE Goal
  BY <1>12 DEF RemovePrimaryNameForBaseName, RemoveForBaseNameAccounts
<1>. HIDE DEF Goal
<1>13. Goal
  BY <1>1, <1>2, <1>3, <1>4, <1>5, <1>6, <1>7, <1>8, <1>9, <1>10, <1>11, <1>12, Zenon
     DEF Next, PrimaryNext, Goal
<1>. QED BY <1>13 DEF Goal

(* The accounts of ario-ant move by ario-ant's own steps. *)
LEMMA AntCarried ==
  ASSUME AntInv, [Next]_vars
  PROVE  AntInv'
<1>1. [AntNext]_antVars
  <2>1. CASE AntStep
    BY <2>1, Zenon DEF AntStep, AntNext, MetadataNext, CloseNext
  <2>2. CASE PrimaryNext
    BY <2>2, Zenon DEF PrimaryNext, RequestPrimaryName, RequestAndSetPrimaryName, ApprovePrimaryName,
       CloseExpiredRequest, RemovePrimaryName, RemovePrimaryNameForBaseName, Unset,
       RequestPrimaryNameFromFundingPlan, RequestAndSetPrimaryNameFromFundingPlan
  <2>. QED BY <2>1, <2>2, Zenon DEF Next, Tick, ArnsChanges, vars
<1>. QED BY <1>1, AntStepInv

(* The accounts of ario-core and the ArNS records it reads keep their types. *)
LEMMA NamesTypeStep ==
  ASSUME NamesTypeOK, [Next]_vars
  PROVE  NamesTypeOK'
<1>1. /\ primary' \in [Holders -> Names \cup {Closed}]
      /\ reverse' \in [Names -> Holders \cup {Closed}]
  <2>1. CASE UNCHANGED <<primary, reverse>>
    BY <2>1 DEF NamesTypeOK
  <2>2. ASSUME NEW u \in Holders, NEW n \in Names, SetPair(u, n)
        PROVE  /\ primary' \in [Holders -> Names \cup {Closed}]
               /\ reverse' \in [Names -> Holders \cup {Closed}]
    BY <2>2 DEF SetPair, NamesTypeOK
  <2>3. ASSUME NEW u \in Holders, Unset(u)
        PROVE  /\ primary' \in [Holders -> Names \cup {Closed}]
               /\ reverse' \in [Names -> Holders \cup {Closed}]
    BY <2>3 DEF Unset, NamesTypeOK
  <2>. QED BY <2>1, <2>2, <2>3, PairCases
<1>. DEFINE Req == [Holders -> PrimaryNameRequest \cup {Closed}]
            Arns == [Bases -> ArnsRecord \cup {Closed}]
            Rest == now' \in Nat /\ arns' \in Arns /\ request' \in Req
<1>2. now \in Nat /\ arns \in Arns /\ request \in Req
  BY DEF NamesTypeOK
<1>3. ASSUME UNCHANGED vars PROVE Rest
  BY <1>2, <1>3 DEF vars, nameVars
<1>4. ASSUME Tick PROVE Rest
  BY <1>2, <1>4 DEF Tick
<1>5. ASSUME NEW b \in Bases, NEW r \in ArnsRecord \cup {Closed}, ArnsChanges(b, r) PROVE Rest
  BY <1>2, <1>5 DEF ArnsChanges
<1>6. ASSUME AntStep PROVE Rest
  BY <1>2, <1>6 DEF AntStep, nameVars
<1>7. ASSUME NEW u \in Holders, NEW n \in Names, Requested(u, n), UNCHANGED <<now, arns>> PROVE Rest
  <2>. DEFINE x == [name |-> n, expires |-> now + RequestExpiry]
  <2>1. x \in PrimaryNameRequest
    BY <1>2, PrimaryAssumption DEF PrimaryNameRequest
  <2>2. request' = [request EXCEPT ![u] = x]
    BY <1>7 DEF Requested
  <2>. HIDE DEF x
  <2>. QED BY <1>2, <1>7, <2>1, <2>2
<1>8. ASSUME NEW u \in Holders, request' = request \/ request' = [request EXCEPT ![u] = Closed],
             UNCHANGED <<now, arns>>
      PROVE  Rest
  BY <1>2, <1>8
<1>9. ASSUME PrimaryNext PROVE Rest
  <2>. HIDE DEF Rest
  <2>. QED BY <1>7, <1>8, <1>9, Zenon DEF PrimaryNext, RequestPrimaryName, RequestAndSetPrimaryName,
       ApprovePrimaryName, CloseExpiredRequest, RemovePrimaryName, RemovePrimaryNameForBaseName, Unset,
       RequestPrimaryNameFromFundingPlan, RequestAndSetPrimaryNameFromFundingPlan
<1>10. Rest
  <2>. HIDE DEF Rest
  <2>. QED BY <1>3, <1>4, <1>5, <1>6, <1>9, Zenon DEF Next, Rest
<1>. QED BY <1>1, <1>10 DEF NamesTypeOK

(* Both accounts are written together, and only over a closed account or the pair itself. *)
LEMMA PairStep ==
  ASSUME NamesTypeOK, NamesPaired, [Next]_vars
  PROVE  NamesPaired'
<1>0. /\ primary \in [Holders -> Names \cup {Closed}] /\ reverse \in [Names -> Holders \cup {Closed}]
      /\ Closed \notin Names /\ Closed \notin Holders
  BY PrimaryAssumption, AntAssumption DEF NamesTypeOK
<1>1. CASE UNCHANGED <<primary, reverse>>
  BY <1>1 DEF NamesPaired
<1>2. ASSUME NEW u \in Holders, NEW n \in Names, SetPair(u, n) PROVE NamesPaired'
  <2>1. /\ primary' = [primary EXCEPT ![u] = n] /\ reverse' = [reverse EXCEPT ![n] = u]
        /\ primary[u] \in {Closed, n} /\ reverse[n] \in {Closed, u}
    BY <1>2 DEF SetPair, SetAccounts
  <2>. QED BY <1>0, <2>1 DEF NamesPaired
<1>3. ASSUME NEW u \in Holders, primary[u] # Closed, Unset(u) PROVE NamesPaired'
  <2>1. /\ primary' = [primary EXCEPT ![u] = Closed]
        /\ reverse' = [reverse EXCEPT ![primary[u]] = Closed]
    BY <1>3 DEF Unset
  <2>. QED BY <1>0, <1>3, <2>1 DEF NamesPaired
<1>. QED BY <1>1, <1>2, <1>3, PairCases

(* NamesInv is inductive. *)
LEMMA NamesStep == NamesInv /\ [Next]_vars => NamesInv'
BY AntCarried, NamesTypeStep, PairStep DEF NamesInv

(* A wallet's name leads back to the wallet, however requests, approvals and *)
(* removals interleave with ario-ant and ario-arns.                          *)
THEOREM NamesPairedHolds == Spec => []NamesPaired
<1>1. NamesInv => NamesPaired
  BY DEF NamesInv
<1>. QED BY <1>1, InitNames, NamesStep, PTL DEF Spec

(* ario-core's reading of the AntRecord and AntConfig names the holder, or a *)
(* delegate of the holder, whenever the config is up to date.                *)
LEMMA DecidesRightful ==
  ASSUME NamesInv, NEW c \in Holders, NEW n \in Names, arns[BaseOf(n)] # Closed, Decides(c, n),
         config[arns[BaseOf(n)].ant] = nft[arns[BaseOf(n)].ant]
  PROVE  Rightful(c, arns[BaseOf(n)].ant, UndernameOf(n))
<1>1. BaseOf(n) \in Bases /\ UndernameOf(n) \in Undernames
  BY DEF Names, BaseOf, UndernameOf
<1>2. arns[BaseOf(n)].ant \in Ants
  BY <1>1 DEF NamesInv, NamesTypeOK, ArnsRecord
<1>3. PICK a \in Ants, m \in Undernames : a = arns[BaseOf(n)].ant /\ m = UndernameOf(n)
  BY <1>1, <1>2
<1>4. /\ record[a][m] # Closed /\ config[a] # Closed /\ ReadAntRecordOwner(a, m) = c /\ config[a] = nft[a]
  BY <1>3 DEF Decides, RecordReadable
<1>5. record[a][m].by = record[a][m].lro
  BY <1>4 DEF NamesInv, AntInv, Stamped
<1>6. Rightful(c, a, m)
  BY <1>4, <1>5 DEF ReadAntRecordOwner, Rightful
<1>. QED BY <1>3, <1>6

(* A name is given only while its lease runs, and unless the asset was sold   *)
(* and not reconciled since, on the word of the holder or the holder's        *)
(* delegate, as they are at the approval.                                     *)
THEOREM NamesByRightHolds == Spec => NamesByRight
<1>. DEFINE Right(u) ==
       primary'[u] \notin {primary[u], Closed} =>
         LET n == primary'[u]
             r == arns[BaseOf(n)] IN
         /\ r # Closed
         /\ r.end = Permanent \/ now <= r.end + GracePeriod
         /\ config[r.ant] = nft[r.ant] =>
              \A c \in Holders : Gives(c, u, n) => Rightful(c, r.ant, UndernameOf(n))
<1>1. ASSUME NamesInv, [Next]_vars, NEW u \in Holders PROVE Right(u)
  <2>. SUFFICES ASSUME NEW n, n = primary'[u], n \notin {primary[u], Closed}
                PROVE  /\ arns[BaseOf(n)] # Closed
                       /\ arns[BaseOf(n)].end = Permanent \/ now <= arns[BaseOf(n)].end + GracePeriod
                       /\ config[arns[BaseOf(n)].ant] = nft[arns[BaseOf(n)].ant] =>
                            \A c \in Holders : Gives(c, u, n) => Rightful(c, arns[BaseOf(n)].ant, UndernameOf(n))
    OBVIOUS
  <2>0. NamesTypeOK /\ primary \in [Holders -> Names \cup {Closed}]
    BY <1>1 DEF NamesInv, NamesTypeOK
  <2>1. n \in Names /\ ValidateArnsRecordExists(BaseOf(n))
    <3>1. ASSUME NEW v \in Holders, NEW m \in Names, SetPair(v, m), ValidateArnsRecordExists(BaseOf(m))
          PROVE  n \in Names /\ ValidateArnsRecordExists(BaseOf(n))
      <4>1. primary' = [primary EXCEPT ![v] = m]
        BY <3>1 DEF SetPair
      <4>2. n = m
        BY <2>0, <4>1
      <4>. QED BY <3>1, <4>2
    <3>2. ASSUME NEW v \in Holders, Unset(v) PROVE FALSE
      <4>1. primary' = [primary EXCEPT ![v] = Closed]
        BY <3>2 DEF Unset
      <4>. QED BY <2>0, <4>1
    <3>. QED BY <1>1, <2>0, <3>1, <3>2, PairCases
  <2>2. arns[BaseOf(n)] # Closed /\ RecordActive(BaseOf(n))
    BY <2>1 DEF ValidateArnsRecordExists
  <2>3. arns[BaseOf(n)].end = Permanent \/ now <= arns[BaseOf(n)].end + GracePeriod
    <3>1. BaseOf(n) \in Bases
      BY <2>1 DEF Names, BaseOf
    <3>2. arns[BaseOf(n)].end \in LeaseEnds \cup {Permanent} /\ now \in Nat
      BY <2>0, <2>2, <3>1 DEF NamesTypeOK, ArnsRecord
    <3>. QED BY <2>2, <3>2, PrimaryAssumption DEF RecordActive
  <2>4. ASSUME NEW c \in Holders, Gives(c, u, n) PROVE Decides(c, n)
    <3>1. CASE c = u /\ RequestAndSetPrimaryName(u, n)
      BY <3>1 DEF RequestAndSetPrimaryName
    <3>2. ASSUME c = u, NEW w, RequestAndSetPrimaryNameFromFundingPlan(u, n, w) PROVE Decides(c, n)
      BY <3>2 DEF RequestAndSetPrimaryNameFromFundingPlan
    <3>3. CASE ApprovePrimaryName(u, c)
      <4>1. Decides(c, request[u].name) /\ primary' = [primary EXCEPT ![u] = request[u].name]
        BY <3>3 DEF ApprovePrimaryName, SetPair
      <4>2. n = request[u].name
        BY <2>0, <4>1
      <4>. QED BY <4>1, <4>2
    <3>. QED BY <2>4, <3>1, <3>2, <3>3, Zenon DEF Gives
  <2>. QED BY <1>1, <2>1, <2>2, <2>3, <2>4, DecidesRightful
<1>2. NamesInv /\ [Next]_vars => [\A u \in Holders : Right(u)]_vars
  BY <1>1
<1>. QED BY <1>2, InitNames, NamesStep, PTL DEF Spec, NamesByRight
=============================================================================
