-------------------------- MODULE EscrowAntProofs --------------------------
(***************************************************************************)
(* Proofs about EscrowAnt, for every set of users, assets and recipients   *)
(* and every bound: custody is complete, and the escrow implements         *)
(* AntCustody.                                                             *)
(***************************************************************************)
EXTENDS EscrowAnt, TLAPS

\* The nonce of an escrow names the slot in which its recipient was last set
\* and its depositor.
NonceBinds ==
  \A a \in Assets : escrow[a] # NoEscrow =>
    escrow[a].nonce[1] = since[a] /\ escrow[a].nonce[3] = escrow[a].depositor

\* The consent that a signed message stands for.
ConsentOf(m) ==
  [asset |-> m.asset, depositor |-> m.nonce[3], recipient |-> m.recipient,
   claimant |-> m.claimant, since |-> m.nonce[1]]

\* Every signature is a consent given under the trust its nonce names, and
\* nothing is attested that was not signed.
SignedIsGiven == (\A m \in signatures : ConsentOf(m) \in log) /\ attested \subseteq signatures

Inv == TypeOK /\ InCustody /\ NonceBinds /\ SignedIsGiven

(* An open escrow is not a closed one. *)
LEMMA RecordIsOpen == ASSUME NEW e, EscrowAntRecord(e) PROVE e # NoEscrow
BY DEF EscrowAntRecord, NoEscrow

(* deposit_ant leaves a record of the account's type. *)
LEMMA DepositRecord ==
  ASSUME TypeOK, NEW a \in Assets, NEW d \in Users, NEW r \in Recipients, DepositAnt(a, d, r)
  PROVE  /\ escrow'[a] = [depositor |-> d, recipient |-> r, nonce |-> <<slot, a, d>>,
                          deposit_slot |-> slot, rotations |-> 0]
         /\ EscrowAntRecord(escrow'[a])
         /\ \A b \in Assets \ {a} : escrow'[b] = escrow[b]
<1>1. /\ escrow'[a] = [depositor |-> d, recipient |-> r, nonce |-> <<slot, a, d>>,
                       deposit_slot |-> slot, rotations |-> 0]
      /\ \A b \in Assets \ {a} : escrow'[b] = escrow[b]
  BY DEF DepositAnt, TypeOK, InitialNonce
<1>2. slot \in Nat
  BY DEF TypeOK
<1>3. EscrowAntRecord(escrow'[a])
  BY <1>1, <1>2 DEF EscrowAntRecord
<1>. QED BY <1>1, <1>3

(* update_recipient rewrites the recipient and the nonce and nothing else. *)
LEMMA UpdatedRecord ==
  ASSUME TypeOK, NEW a \in Assets, NEW d \in Users, NEW r \in Recipients,
         UpdateRecipient(a, d, r)
  PROVE  /\ EscrowAntRecord(escrow[a]) /\ EscrowAntRecord(escrow'[a])
         /\ escrow'[a].recipient = r /\ escrow'[a].depositor = escrow[a].depositor
         /\ escrow'[a].deposit_slot = escrow[a].deposit_slot
         /\ escrow'[a].nonce = <<slot, a, escrow[a].depositor, escrow[a].nonce>>
         /\ \A b \in Assets \ {a} : escrow'[b] = escrow[b]
<1>. DEFINE e == escrow[a]
            n == <<slot, a, e.depositor, e.nonce>>
<1>1. EscrowAntRecord(e)
  BY DEF UpdateRecipient, UpdateRecipientAccounts, TypeOK
<1>2. escrow'[a] = [e EXCEPT !.recipient = r, !.nonce = n, !.rotations = @ + 1]
  BY DEF UpdateRecipient, TypeOK, RotatedNonce
<1>3. \A b \in Assets \ {a} : escrow'[b] = escrow[b]
  BY DEF UpdateRecipient, TypeOK
<1>4. /\ escrow'[a].recipient = r /\ escrow'[a].depositor = e.depositor
      /\ escrow'[a].deposit_slot = e.deposit_slot
      /\ escrow'[a].nonce = n
      /\ escrow'[a].rotations = e.rotations + 1
      /\ DOMAIN escrow'[a] = DOMAIN e
  <2>. HIDE DEF e, n
  <2>. QED BY <1>1, <1>2 DEF EscrowAntRecord
<1>5. EscrowAntRecord(escrow'[a])
  BY <1>1, <1>4 DEF EscrowAntRecord
<1>. QED BY <1>1, <1>3, <1>4, <1>5

(* A cancel, a claim or a purge closes one escrow and leaves the others. *)
LEMMA ClosedEscrow ==
  ASSUME TypeOK, NEW a \in Assets, CloseEscrow(a)
  PROVE  /\ DOMAIN escrow' = Assets /\ escrow'[a] = NoEscrow
         /\ \A b \in Assets \ {a} : escrow'[b] = escrow[b]
BY DEF CloseEscrow, TypeOK

(* Every step keeps the types of the accounts. *)
LEMMA TypeStep == TypeOK /\ [Next]_vars => TypeOK'
<1>. SUFFICES ASSUME TypeOK, [Next]_vars PROVE TypeOK'
  OBVIOUS
<1>0. /\ slot \in Nat /\ owner \in [Assets -> Users \cup {Escrow, Burned}]
      /\ DOMAIN ua = Assets /\ DOMAIN escrow = Assets /\ since \in [Assets -> Nat]
      /\ \A b \in Assets : escrow[b] # NoEscrow => EscrowAntRecord(escrow[b])
  BY DEF TypeOK
<1>1. ASSUME NEW a \in Assets, NEW d \in Users, NEW r \in Recipients, DepositAnt(a, d, r)
      PROVE  TypeOK'
  <2>1. \A b \in Assets : escrow'[b] # NoEscrow => EscrowAntRecord(escrow'[b])
    BY <1>0, <1>1, DepositRecord
  <2>2. /\ slot' \in Nat /\ owner' \in [Assets -> Users \cup {Escrow, Burned}]
        /\ DOMAIN ua' = Assets /\ DOMAIN escrow' = Assets /\ since' \in [Assets -> Nat]
    BY <1>0, <1>1 DEF DepositAnt, TransferByWallet, SetUaByWallet
  <2>. QED BY <2>1, <2>2 DEF TypeOK, EscrowAntRecord
<1>2. ASSUME NEW a \in Assets, NEW u \in Users \cup {Burned}, CloseEscrow(a),
             owner' = [owner EXCEPT ![a] = u], DOMAIN ua' = Assets, UNCHANGED <<slot, since>>
      PROVE  TypeOK'
  <2>1. \A b \in Assets : escrow'[b] # NoEscrow => EscrowAntRecord(escrow'[b])
    BY <1>0, <1>2, ClosedEscrow
  <2>2. /\ slot' \in Nat /\ owner' \in [Assets -> Users \cup {Escrow, Burned}]
        /\ DOMAIN ua' = Assets /\ DOMAIN escrow' = Assets /\ since' \in [Assets -> Nat]
    BY <1>0, <1>2, ClosedEscrow
  <2>. QED BY <2>1, <2>2 DEF TypeOK, EscrowAntRecord
<1>3. ASSUME NEW a \in Assets, NEW d \in Users, CancelDeposit(a, d)
      PROVE  TypeOK'
  BY <1>0, <1>2, <1>3 DEF CancelDeposit, TransferByPda, SetUaByPda
<1>4. ASSUME NEW a \in Assets, NEW c \in Users, ReleaseTo(a, c)
      PROVE  TypeOK'
  BY <1>0, <1>2, <1>4 DEF ReleaseTo, TransferByPda, SetUaByPda
<1>5. ASSUME NEW a \in Assets, NEW u \in Users, AdminPurgeUnclaimedAnt(a, u)
      PROVE  TypeOK'
  BY <1>0, <1>2, <1>5 DEF AdminPurgeUnclaimedAnt, BurnByPda
<1>6. ASSUME NEW a \in Assets, NEW d \in Users, NEW r \in Recipients, UpdateRecipient(a, d, r)
      PROVE  TypeOK'
  <2>1. \A b \in Assets : escrow'[b] # NoEscrow => EscrowAntRecord(escrow'[b])
    BY <1>0, <1>6, UpdatedRecord
  <2>2. /\ slot' \in Nat /\ owner' \in [Assets -> Users \cup {Escrow, Burned}]
        /\ DOMAIN ua' = Assets /\ DOMAIN escrow' = Assets /\ since' \in [Assets -> Nat]
    BY <1>0, <1>6 DEF UpdateRecipient
  <2>. QED BY <2>1, <2>2 DEF TypeOK, EscrowAntRecord
<1>7. ASSUME escrow' = escrow, UNCHANGED since, slot' \in Nat, DOMAIN ua' = Assets,
             owner' \in [Assets -> Users \cup {Escrow, Burned}]
      PROVE  TypeOK'
  BY <1>0, <1>7 DEF TypeOK, EscrowAntRecord
<1>8. ASSUME NEW a \in Assets, NEW c \in Users, Sign(a, c) PROVE TypeOK'
  BY <1>0, <1>7, <1>8 DEF Sign
<1>9. ASSUME NEW m \in signatures, Attest(m) PROVE TypeOK'
  BY <1>0, <1>7, <1>9 DEF Attest
<1>10. ASSUME NEW a \in Assets, NEW u \in Users \cup {Escrow}, Trade(a, u) PROVE TypeOK'
  BY <1>0, <1>7, <1>10 DEF Trade
<1>11. ASSUME NEW a \in Assets, NEW u \in Users, HandOverUa(a, u) PROVE TypeOK'
  BY <1>0, <1>7, <1>11 DEF HandOverUa
<1>12. CASE Advance
  BY <1>0, <1>7, <1>12 DEF Advance
<1>13. CASE UNCHANGED vars
  BY <1>0, <1>7, <1>13 DEF vars
<1>. QED
  BY <1>1, <1>3, <1>4, <1>5, <1>6, <1>8, <1>9, <1>10, <1>11, <1>12, <1>13
     DEF Next, EscrowNext, ClaimAntEthereum, ClaimAntArweaveAttested

(* The accounts of the escrow program keep their types, for any sets and bounds. *)
THEOREM TypeCorrect == Spec => []TypeOK
<1>1. Init => TypeOK
  BY DEF Init, TypeOK
<1>. QED BY <1>1, TypeStep, PTL DEF Spec

(* Nothing but the escrow's own instructions moves what the PDA holds. *)
LEMMA CustodyStep == TypeOK /\ InCustody /\ [Next]_vars => InCustody'
<1>. SUFFICES ASSUME TypeOK, InCustody, [Next]_vars PROVE InCustody'
  OBVIOUS
<1>0. /\ owner \in [Assets -> Users \cup {Escrow, Burned}] /\ DOMAIN ua = Assets
      /\ \A b \in Assets : escrow[b] # NoEscrow => owner[b] = Escrow /\ ua[b] = Escrow
      /\ Escrow \notin Users
  BY EscrowAssumption DEF TypeOK, InCustody
<1>1. ASSUME NEW a \in Assets, NEW d \in Users, NEW r \in Recipients, DepositAnt(a, d, r)
      PROVE  InCustody'
  <2>1. /\ owner' = [owner EXCEPT ![a] = Escrow] /\ ua' = [ua EXCEPT ![a] = Escrow]
        /\ \A b \in Assets \ {a} : escrow'[b] = escrow[b]
    BY <1>1, DepositRecord DEF DepositAnt, TransferByWallet, SetUaByWallet
  <2>. QED BY <1>0, <2>1 DEF InCustody
<1>2. ASSUME NEW a \in Assets, CloseEscrow(a),
             \A b \in Assets \ {a} : owner'[b] = owner[b] /\ ua'[b] = ua[b]
      PROVE  InCustody'
  BY <1>0, <1>2, ClosedEscrow DEF InCustody
<1>3. ASSUME NEW a \in Assets, NEW d \in Users, CancelDeposit(a, d)
      PROVE  InCustody'
  BY <1>0, <1>2, <1>3 DEF CancelDeposit, TransferByPda, SetUaByPda
<1>4. ASSUME NEW a \in Assets, NEW c \in Users, ReleaseTo(a, c)
      PROVE  InCustody'
  BY <1>0, <1>2, <1>4 DEF ReleaseTo, TransferByPda, SetUaByPda
<1>5. ASSUME NEW a \in Assets, NEW u \in Users, AdminPurgeUnclaimedAnt(a, u)
      PROVE  InCustody'
  BY <1>0, <1>2, <1>5 DEF AdminPurgeUnclaimedAnt, BurnByPda
<1>6. ASSUME NEW a \in Assets, NEW d \in Users, NEW r \in Recipients, UpdateRecipient(a, d, r)
      PROVE  InCustody'
  <2>1. /\ UNCHANGED <<owner, ua>> /\ escrow[a] # NoEscrow
        /\ \A b \in Assets \ {a} : escrow'[b] = escrow[b]
    BY <1>6, UpdatedRecord DEF UpdateRecipient, UpdateRecipientAccounts
  <2>. QED BY <1>0, <2>1 DEF InCustody
<1>7. ASSUME NEW a \in Assets, NEW u \in Users \cup {Escrow}, Trade(a, u) PROVE InCustody'
  BY <1>0, <1>7 DEF Trade, InCustody
<1>8. ASSUME NEW a \in Assets, NEW u \in Users, HandOverUa(a, u) PROVE InCustody'
  BY <1>0, <1>8 DEF HandOverUa, InCustody
<1>9. ASSUME UNCHANGED <<owner, ua, escrow>> PROVE InCustody'
  BY <1>0, <1>9 DEF InCustody
<1>10. ASSUME NEW a \in Assets, NEW c \in Users, Sign(a, c) PROVE InCustody'
  BY <1>9, <1>10 DEF Sign
<1>11. ASSUME NEW m \in signatures, Attest(m) PROVE InCustody'
  BY <1>9, <1>11 DEF Attest
<1>12. CASE Advance
  BY <1>9, <1>12 DEF Advance
<1>13. CASE UNCHANGED vars
  BY <1>9, <1>13 DEF vars
<1>. QED
  BY <1>1, <1>3, <1>4, <1>5, <1>6, <1>7, <1>8, <1>10, <1>11, <1>12, <1>13
     DEF Next, EscrowNext, ClaimAntEthereum, ClaimAntArweaveAttested

(* While an escrow account exists, the PDA is owner and update authority of  *)
(* its asset: a cancel, a claim or a purge never meets an asset it cannot    *)
(* move, and nobody else moves it.                                           *)
THEOREM InCustodyHolds == Spec => []InCustody
<1>1. Init => InCustody
  BY DEF Init, InCustody
<1>. QED BY <1>1, CustodyStep, TypeCorrect, PTL DEF Spec

(* The nonce keeps naming the slot and the depositor of the present trust. *)
LEMMA NonceStep == TypeOK /\ NonceBinds /\ [Next]_vars => NonceBinds'
<1>. SUFFICES ASSUME TypeOK, NonceBinds, [Next]_vars PROVE NonceBinds'
  OBVIOUS
<1>0. /\ since \in [Assets -> Nat]
      /\ \A b \in Assets : escrow[b] # NoEscrow =>
           escrow[b].nonce[1] = since[b] /\ escrow[b].nonce[3] = escrow[b].depositor
  BY DEF TypeOK, NonceBinds
<1>1. ASSUME NEW a \in Assets, NEW d \in Users, NEW r \in Recipients, DepositAnt(a, d, r)
      PROVE  NonceBinds'
  <2>1. since' = [since EXCEPT ![a] = slot]
    BY <1>1 DEF DepositAnt
  <2>0. /\ escrow'[a] = [depositor |-> d, recipient |-> r, nonce |-> <<slot, a, d>>,
                         deposit_slot |-> slot, rotations |-> 0]
        /\ \A b \in Assets \ {a} : escrow'[b] = escrow[b]
    BY <1>1, DepositRecord, Zenon
  <2>2. /\ escrow'[a].nonce = <<slot, a, d>> /\ escrow'[a].depositor = d
        /\ \A b \in Assets \ {a} : escrow'[b] = escrow[b]
    BY <2>0
  <2>3. escrow'[a].nonce[1] = slot /\ escrow'[a].nonce[3] = d
    BY <2>2
  <2>. QED BY <1>0, <2>1, <2>2, <2>3 DEF NonceBinds
<1>2. ASSUME NEW a \in Assets, NEW d \in Users, NEW r \in Recipients, UpdateRecipient(a, d, r)
      PROVE  NonceBinds'
  <2>1. since' = [since EXCEPT ![a] = slot]
    BY <1>2 DEF UpdateRecipient
  <2>2. /\ escrow'[a].nonce = <<slot, a, escrow[a].depositor, escrow[a].nonce>>
        /\ escrow'[a].depositor = escrow[a].depositor
        /\ \A b \in Assets \ {a} : escrow'[b] = escrow[b]
    BY <1>2, UpdatedRecord
  <2>3. escrow'[a].nonce[1] = slot /\ escrow'[a].nonce[3] = escrow'[a].depositor
    BY <2>2
  <2>. QED BY <1>0, <2>1, <2>2, <2>3 DEF NonceBinds
<1>3. ASSUME NEW a \in Assets, CloseEscrow(a), UNCHANGED since PROVE NonceBinds'
  BY <1>0, <1>3, ClosedEscrow DEF NonceBinds
<1>4. ASSUME UNCHANGED <<escrow, since>> PROVE NonceBinds'
  BY <1>0, <1>4 DEF NonceBinds
<1>5. ASSUME NEW a \in Assets, NEW d \in Users, CancelDeposit(a, d) PROVE NonceBinds'
  BY <1>3, <1>5 DEF CancelDeposit
<1>6. ASSUME NEW a \in Assets, NEW c \in Users, ReleaseTo(a, c) PROVE NonceBinds'
  BY <1>3, <1>6 DEF ReleaseTo
<1>7. ASSUME NEW a \in Assets, NEW u \in Users, AdminPurgeUnclaimedAnt(a, u) PROVE NonceBinds'
  BY <1>3, <1>7 DEF AdminPurgeUnclaimedAnt
<1>8. ASSUME \/ \E a \in Assets, c \in Users : Sign(a, c)
             \/ \E m \in signatures : Attest(m)
             \/ \E a \in Assets, u \in Users \cup {Escrow} : Trade(a, u)
             \/ \E a \in Assets, u \in Users : HandOverUa(a, u)
             \/ Advance
             \/ UNCHANGED vars
      PROVE  NonceBinds'
  BY <1>4, <1>8 DEF Sign, Attest, Trade, HandOverUa, Advance, vars
<1>. QED
  BY <1>1, <1>2, <1>5, <1>6, <1>7, <1>8
     DEF Next, EscrowNext, ClaimAntEthereum, ClaimAntArweaveAttested

(* Only the recipient's signature adds a message, and its consent with it. *)
LEMMA SignedStep ==
  TypeOK /\ NonceBinds /\ SignedIsGiven /\ [Next]_vars => SignedIsGiven'
<1>. SUFFICES ASSUME TypeOK, NonceBinds, SignedIsGiven, [Next]_vars PROVE SignedIsGiven'
  OBVIOUS
<1>1. ASSUME NEW a \in Assets, NEW c \in Users, Sign(a, c) PROVE SignedIsGiven'
  <2>. DEFINE m == MessageFor(a, c)
  <2>1. /\ escrow[a] # NoEscrow /\ signatures' = signatures \cup {m} /\ attested' = attested
        /\ log' = log \cup {[asset |-> a, depositor |-> escrow[a].depositor,
                             recipient |-> escrow[a].recipient, claimant |-> c,
                             since |-> since[a]]}
    BY <1>1 DEF Sign
  <2>2. /\ m.asset = a /\ m.recipient = escrow[a].recipient /\ m.claimant = c
        /\ m.nonce = escrow[a].nonce
    BY DEF MessageFor, ClaimMessage
  <2>3. m.nonce[3] = escrow[a].depositor /\ m.nonce[1] = since[a]
    BY <2>1, <2>2 DEF NonceBinds
  <2>. HIDE DEF m
  <2>4. ConsentOf(m) \in log'
    BY <2>1, <2>2, <2>3 DEF ConsentOf
  <2>. QED BY <2>1, <2>4 DEF SignedIsGiven, ConsentOf
<1>2. ASSUME NEW m \in signatures, Attest(m) PROVE SignedIsGiven'
  BY <1>2 DEF Attest, SignedIsGiven, ConsentOf
<1>3. ASSUME UNCHANGED <<signatures, attested, log>> PROVE SignedIsGiven'
  BY <1>3 DEF SignedIsGiven, ConsentOf
<1>4. ASSUME EscrowNext PROVE SignedIsGiven'
  BY <1>3, <1>4
     DEF EscrowNext, ClaimAntEthereum, ClaimAntArweaveAttested, DepositAnt, CancelDeposit,
         UpdateRecipient, ReleaseTo, AdminPurgeUnclaimedAnt
<1>5. ASSUME \/ \E a \in Assets, u \in Users \cup {Escrow} : Trade(a, u)
             \/ \E a \in Assets, u \in Users : HandOverUa(a, u)
             \/ Advance
             \/ UNCHANGED vars
      PROVE  SignedIsGiven'
  BY <1>3, <1>5 DEF Trade, HandOverUa, Advance, vars
<1>. QED BY <1>1, <1>2, <1>4, <1>5 DEF Next

(* The inductive invariant of the refinement. *)
LEMMA InvHolds == Spec => []Inv
<1>1. Init => NonceBinds /\ SignedIsGiven
  BY DEF Init, NonceBinds, SignedIsGiven
<1>. QED
  BY <1>1, TypeCorrect, InCustodyHolds, NonceStep, SignedStep, PTL DEF Spec, Inv

-----------------------------------------------------------------------------
(* The refinement.                                                         *)

\* The abstract trusts, as the refinement mapping gives them.
Trusts == [a \in Assets |-> TrustOf(a)]

(* An open escrow is a trust of its depositor, a closed one is none. *)
LEMMA TrustCases ==
  ASSUME TypeOK, NEW a \in Assets
  PROVE  /\ Trusts[a] = TrustOf(a)
         /\ escrow[a] = NoEscrow => Trusts[a] = NoEscrow
         /\ escrow[a] # NoEscrow =>
              /\ Trusts[a] # NoEscrow
              /\ Trusts[a].depositor = escrow[a].depositor
              /\ Trusts[a].recipient = escrow[a].recipient
              /\ Trusts[a].since = since[a]
              /\ Trusts[a].opened = escrow[a].deposit_slot
<1>1. Trusts[a] = TrustOf(a)
  BY DEF Trusts
<1>2. \A x, y, z, w :
        [depositor |-> x, recipient |-> y, since |-> z, opened |-> w] # NoEscrow
  BY DEF NoEscrow
<1>. QED BY <1>1, <1>2 DEF TrustOf

(* A step that leaves the escrows and their history alone keeps every trust. *)
LEMMA TrustsKept ==
  ASSUME UNCHANGED <<escrow, since>>
  PROVE  Trusts' = Trusts
BY DEF Trusts, TrustOf

(* deposit_ant is Entrust. *)
LEMMA DepositEntrusts ==
  ASSUME TypeOK, TypeOK', NEW a \in Assets, NEW d \in Users, NEW r \in Recipients,
         DepositAnt(a, d, r)
  PROVE  Custody!Entrust(a, r)
<1>0. /\ escrow'[a] = [depositor |-> d, recipient |-> r, nonce |-> <<slot, a, d>>,
                       deposit_slot |-> slot, rotations |-> 0]
      /\ \A b \in Assets \ {a} : escrow'[b] = escrow[b]
  BY DepositRecord, Zenon
<1>1. /\ escrow'[a].depositor = d /\ escrow'[a].recipient = r /\ escrow'[a].deposit_slot = slot
      /\ since \in [Assets -> Nat] /\ owner \in [Assets -> Users \cup {Escrow, Burned}]
      /\ since' = [since EXCEPT ![a] = slot]
      /\ owner' = [owner EXCEPT ![a] = Escrow] /\ owner[a] = d
      /\ escrow[a] = NoEscrow /\ UNCHANGED <<slot, log>>
  BY <1>0 DEF TypeOK, DepositAnt, DepositAntAccounts, TransferByWallet
<1>2. escrow'[a] # NoEscrow
  BY DepositRecord, RecordIsOpen
<1>3. Trusts'[a] = [depositor |-> d, recipient |-> r, since |-> slot, opened |-> slot]
  BY <1>1, <1>2 DEF Trusts, TrustOf
<1>4. \A b \in Assets \ {a} : Trusts'[b] = Trusts[b]
  BY <1>0, <1>1 DEF Trusts, TrustOf
<1>5. Trusts' = [Trusts EXCEPT ![a] = [depositor |-> d, recipient |-> r,
                                       since |-> slot, opened |-> slot]]
  BY <1>3, <1>4 DEF Trusts
<1>6. Trusts[a] = NoEscrow
  BY <1>1, TrustCases
<1>. QED BY <1>1, <1>5, <1>6 DEF Custody!Entrust, Trusts

(* update_recipient is Retarget. *)
LEMMA UpdateRetargets ==
  ASSUME TypeOK, NEW a \in Assets, NEW d \in Users, NEW r \in Recipients,
         UpdateRecipient(a, d, r)
  PROVE  Custody!Retarget(a, r)
<1>0. /\ EscrowAntRecord(escrow[a]) /\ EscrowAntRecord(escrow'[a])
      /\ escrow'[a].recipient = r /\ escrow'[a].depositor = escrow[a].depositor
      /\ escrow'[a].deposit_slot = escrow[a].deposit_slot
      /\ \A b \in Assets \ {a} : escrow'[b] = escrow[b]
  BY UpdatedRecord
<1>1. /\ since \in [Assets -> Nat] /\ since' = [since EXCEPT ![a] = slot]
      /\ escrow[a] # NoEscrow /\ escrow'[a] # NoEscrow /\ UNCHANGED <<slot, owner, log>>
  BY <1>0, RecordIsOpen DEF TypeOK, UpdateRecipient, UpdateRecipientAccounts
<1>2. /\ Trusts[a] # NoEscrow
      /\ Trusts[a].depositor = escrow[a].depositor
      /\ Trusts[a].opened = escrow[a].deposit_slot
  BY <1>1, TrustCases
<1>3. Trusts'[a] = [depositor |-> escrow[a].depositor, recipient |-> r,
                    since |-> slot, opened |-> escrow[a].deposit_slot]
  BY <1>0, <1>1 DEF Trusts, TrustOf
<1>4. \A b \in Assets \ {a} : Trusts'[b] = Trusts[b]
  BY <1>0, <1>1 DEF Trusts, TrustOf
<1>5. Trusts' = [Trusts EXCEPT ![a] = [depositor |-> Trusts[a].depositor, recipient |-> r,
                                       since |-> slot, opened |-> Trusts[a].opened]]
  BY <1>2, <1>3, <1>4 DEF Trusts
<1>. QED BY <1>1, <1>2, <1>5 DEF Custody!Retarget, Trusts

(* Whatever closes an escrow and hands its asset to h is Settle. *)
LEMMA ClosingSettles ==
  ASSUME TypeOK, NEW a \in Assets, NEW h, escrow[a] # NoEscrow, owner[a] = Escrow,
         owner' = [owner EXCEPT ![a] = h], CloseEscrow(a), UNCHANGED <<slot, since, log>>
  PROVE  Custody!Settle(a, h)
<1>1. /\ escrow'[a] = NoEscrow
      /\ \A b \in Assets \ {a} : escrow'[b] = escrow[b]
  BY ClosedEscrow
<1>2. Trusts[a] # NoEscrow
  BY TrustCases
<1>3. Trusts' = [Trusts EXCEPT ![a] = NoEscrow]
  <2>1. Trusts'[a] = NoEscrow
    BY <1>1 DEF Trusts, TrustOf
  <2>2. \A b \in Assets \ {a} : Trusts'[b] = Trusts[b]
    BY <1>1 DEF Trusts, TrustOf
  <2>. QED BY <2>1, <2>2 DEF Trusts
<1>. QED BY <1>2, <1>3 DEF Custody!Settle, Trusts

(* cancel_deposit is Return. *)
LEMMA CancelReturns ==
  ASSUME TypeOK, InCustody, NEW a \in Assets, NEW d \in Users, CancelDeposit(a, d)
  PROVE  Custody!Return(a)
<1>1. /\ escrow[a] # NoEscrow /\ escrow[a].depositor = d /\ owner[a] = Escrow
      /\ owner' = [owner EXCEPT ![a] = d] /\ CloseEscrow(a) /\ UNCHANGED <<slot, since, log>>
  BY DEF CancelDeposit, CancelDepositAccounts, TransferByPda
<1>2. Custody!Settle(a, d)
  BY <1>1, ClosingSettles
<1>3. Trusts[a] # NoEscrow /\ Trusts[a].depositor = d
  BY <1>1, TrustCases
<1>. QED BY <1>2, <1>3 DEF Custody!Return, Trusts

(* A claim on either chain is Deliver: the message the program rebuilds from *)
(* the escrow was signed under the trust now in force.                       *)
LEMMA ClaimDelivers ==
  ASSUME Inv, NEW a \in Assets, NEW c \in Users, escrow[a] # NoEscrow,
         MessageFor(a, c) \in signatures, ReleaseTo(a, c)
  PROVE  Custody!Deliver(a, c)
<1>. DEFINE m == MessageFor(a, c)
<1>0. TypeOK /\ NonceBinds /\ SignedIsGiven
  BY DEF Inv
<1>1. /\ owner[a] = Escrow /\ owner' = [owner EXCEPT ![a] = c]
      /\ CloseEscrow(a) /\ UNCHANGED <<slot, since, log>>
  BY DEF ReleaseTo, TransferByPda
<1>2. Custody!Settle(a, c)
  BY <1>0, <1>1, ClosingSettles
<1>3. /\ Trusts[a] # NoEscrow
      /\ Trusts[a].depositor = escrow[a].depositor
      /\ Trusts[a].recipient = escrow[a].recipient
      /\ Trusts[a].since = since[a]
  BY <1>0, TrustCases
<1>4. /\ m.asset = a /\ m.recipient = escrow[a].recipient /\ m.claimant = c
      /\ m.nonce = escrow[a].nonce
  BY DEF MessageFor, ClaimMessage
<1>5. m.nonce[3] = escrow[a].depositor /\ m.nonce[1] = since[a]
  BY <1>0, <1>4 DEF NonceBinds
<1>6. ConsentOf(m) \in log
  BY <1>0 DEF SignedIsGiven
<1>7. [asset |-> a, depositor |-> Trusts[a].depositor, recipient |-> Trusts[a].recipient,
       claimant |-> c, since |-> Trusts[a].since] \in log
  <2>. HIDE DEF m
  <2>. QED BY <1>3, <1>4, <1>5, <1>6 DEF ConsentOf
<1>. QED BY <1>2, <1>3, <1>7 DEF Custody!Deliver, Custody!ConsentTo, Trusts

(* admin_purge_unclaimed_ant is Abandon. *)
LEMMA PurgeAbandons ==
  ASSUME TypeOK, InCustody, NEW a \in Assets, NEW u \in Users, AdminPurgeUnclaimedAnt(a, u)
  PROVE  Custody!Abandon(a)
<1>1. /\ escrow[a] # NoEscrow /\ owner[a] = Escrow
      /\ slot - escrow[a].deposit_slot >= PurgeGrace
      /\ owner' = [owner EXCEPT ![a] = Burned] /\ CloseEscrow(a)
      /\ UNCHANGED <<slot, since, log>>
  BY DEF AdminPurgeUnclaimedAnt, PurgeAccounts, BurnByPda
<1>2. Custody!Settle(a, Burned)
  BY <1>1, ClosingSettles
<1>3. Trusts[a] # NoEscrow /\ Trusts[a].opened = escrow[a].deposit_slot
  BY <1>1, TrustCases
<1>. QED BY <1>1, <1>2, <1>3 DEF Custody!Abandon, Trusts

(* A recipient's signature is Consent to the trust as it stands. *)
LEMMA SignConsents ==
  ASSUME TypeOK, NEW a \in Assets, NEW c \in Users, Sign(a, c)
  PROVE  Custody!Consent(a, c)
<1>1. /\ escrow[a] # NoEscrow /\ UNCHANGED <<slot, owner, escrow, since>>
      /\ log' = log \cup {[asset |-> a, depositor |-> escrow[a].depositor,
                           recipient |-> escrow[a].recipient, claimant |-> c,
                           since |-> since[a]]}
  BY DEF Sign
<1>2. /\ Trusts[a] # NoEscrow /\ Trusts[a].depositor = escrow[a].depositor
      /\ Trusts[a].recipient = escrow[a].recipient /\ Trusts[a].since = since[a]
  BY <1>1, TrustCases
<1>3. Trusts' = Trusts
  BY <1>1, TrustsKept
<1>. QED BY <1>1, <1>2, <1>3 DEF Custody!Consent, Custody!ConsentTo, Trusts

(* Every step of the escrow is a step of AntCustody, or leaves it alone. *)
LEMMA StepRefines == Inv /\ Inv' /\ [Next]_vars => [Custody!Next]_Custody!vars
<1>. SUFFICES ASSUME Inv, Inv', [Next]_vars PROVE [Custody!Next]_Custody!vars
  OBVIOUS
<1>0. TypeOK /\ TypeOK' /\ InCustody
  BY DEF Inv
<1>1. ASSUME NEW a \in Assets, NEW d \in Users, NEW r \in Recipients, DepositAnt(a, d, r)
      PROVE  Custody!Next
  BY <1>0, <1>1, DepositEntrusts DEF Custody!Next
<1>2. ASSUME NEW a \in Assets, NEW d \in Users, CancelDeposit(a, d)
      PROVE  Custody!Next
  BY <1>0, <1>2, CancelReturns DEF Custody!Next
<1>3. ASSUME NEW a \in Assets, NEW d \in Users, NEW r \in Recipients, UpdateRecipient(a, d, r)
      PROVE  Custody!Next
  BY <1>0, <1>3, UpdateRetargets DEF Custody!Next
<1>4. ASSUME NEW a \in Assets, NEW c \in Users, NEW n, ClaimAntEthereum(a, c, n)
      PROVE  Custody!Next
  <2>1. escrow[a] # NoEscrow /\ MessageFor(a, c) \in signatures /\ ReleaseTo(a, c)
    BY <1>4 DEF ClaimAntEthereum, ClaimAntAccounts, ClaimVerified, VerifyPersonalSign
  <2>. QED BY <2>1, ClaimDelivers DEF Custody!Next
<1>5. ASSUME NEW a \in Assets, NEW c \in Users, NEW n, ClaimAntArweaveAttested(a, c, n)
      PROVE  Custody!Next
  <2>1. escrow[a] # NoEscrow /\ MessageFor(a, c) \in attested /\ ReleaseTo(a, c)
    BY <1>5 DEF ClaimAntArweaveAttested, ClaimAntArweaveAttestedAccounts, ClaimVerified,
                VerifyAttestedSignature
  <2>2. MessageFor(a, c) \in signatures
    BY <2>1 DEF Inv, SignedIsGiven
  <2>. QED BY <2>1, <2>2, ClaimDelivers DEF Custody!Next
<1>6. ASSUME NEW a \in Assets, NEW u \in Users, AdminPurgeUnclaimedAnt(a, u)
      PROVE  Custody!Next
  BY <1>0, <1>6, PurgeAbandons DEF Custody!Next
<1>7. ASSUME NEW a \in Assets, NEW c \in Users, Sign(a, c)
      PROVE  Custody!Next
  BY <1>0, <1>7, SignConsents DEF Custody!Next
<1>8. ASSUME NEW a \in Assets, NEW u \in Users \cup {Escrow}, Trade(a, u)
      PROVE  Custody!Next
  <2>1. Trusts' = Trusts
    BY <1>8, TrustsKept DEF Trade
  <2>2. Custody!Trade(a, u)
    BY <1>8, <2>1 DEF Trade, Custody!Trade, Trusts
  <2>. QED BY <2>2 DEF Custody!Next
<1>9. CASE Advance
  <2>1. Trusts' = Trusts
    BY <1>9, TrustsKept DEF Advance
  <2>2. Custody!Advance
    BY <1>9, <2>1 DEF Advance, Custody!Advance, Trusts
  <2>. QED BY <2>2 DEF Custody!Next
<1>10. ASSUME UNCHANGED <<slot, owner, escrow, since, log>>
       PROVE  UNCHANGED Custody!vars
  BY <1>10, TrustsKept DEF Custody!vars, Trusts
<1>11. ASSUME NEW m \in signatures, Attest(m) PROVE UNCHANGED Custody!vars
  BY <1>10, <1>11 DEF Attest
<1>12. ASSUME NEW a \in Assets, NEW u \in Users, HandOverUa(a, u) PROVE UNCHANGED Custody!vars
  BY <1>10, <1>12 DEF HandOverUa
<1>13. CASE UNCHANGED vars
  BY <1>10, <1>13 DEF vars
<1>. QED
  BY <1>1, <1>2, <1>3, <1>4, <1>5, <1>6, <1>7, <1>8, <1>9, <1>11, <1>12, <1>13
     DEF Next, EscrowNext

(* The escrow implements AntCustody: for any users, assets, recipients and   *)
(* bounds, an ANT leaves escrow only back to its depositor, to a claimant    *)
(* consented to under the trust in force, or burned when abandoned, however  *)
(* signatures and attestations are delayed, kept and replayed.               *)
THEOREM CustodyKeptHolds == Spec => CustodyKept
<1>1. Init => Custody!Init
  BY DEF Init, Custody!Init, TrustOf
<1>. QED BY <1>1, StepRefines, InvHolds, PTL DEF Spec, CustodyKept, Custody!Spec
=============================================================================
