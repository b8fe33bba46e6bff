------------------------------ MODULE AntCustody ------------------------------
(***************************************************************************)
(* What the ANT escrow promises, without messages, nonces or signatures:   *)
(* an ANT in escrow stands under a trust set by its depositor, and leaves  *)
(* it in one of three ways: back to that depositor, to a claimant the      *)
(* recipient of this very trust has agreed to, or into the fire when the   *)
(* trust has been abandoned.  A trust is identified by the depositor, the  *)
(* recipient and the slot it was set in: consent given under a trust of    *)
(* another slot never moves the ANT.                                       *)
(***************************************************************************)
EXTENDS Integers

CONSTANTS Users, Assets, Recipients, Escrow, Burned, NoTrust, PurgeGrace, MaxSlot

VARIABLES
  slot,    \* the chain's slot
  holder,  \* asset -> user, Escrow or Burned
  trust,   \* asset -> [depositor, recipient, since, opened] or NoTrust
  given    \* consents given: [asset, depositor, recipient, claimant, since]

vars == <<slot, holder, trust, given>>

Init ==
  /\ slot = 0
  /\ holder \in [Assets -> Users]
  /\ trust = [a \in Assets |-> NoTrust]
  /\ given = {}

\* Owners trade ANTs outside the escrow, and may send one to its address.
Trade(a, u) ==
  /\ holder[a] \in Users
  /\ holder' = [holder EXCEPT ![a] = u]
  /\ UNCHANGED <<slot, trust, given>>

Entrust(a, r) ==
  /\ trust[a] = NoTrust
  /\ holder[a] \in Users
  /\ trust' = [trust EXCEPT ![a] = [depositor |-> holder[a], recipient |-> r,
                                    since |-> slot, opened |-> slot]]
  /\ holder' = [holder EXCEPT ![a] = Escrow]
  /\ UNCHANGED <<slot, given>>

Retarget(a, r) ==
  /\ trust[a] # NoTrust
  /\ trust' = [trust EXCEPT ![a] = [depositor |-> @.depositor, recipient |-> r,
                                    since |-> slot, opened |-> @.opened]]
  /\ UNCHANGED <<slot, holder, given>>

\* The consent that the trust over a, as it stands, asks of its recipient.
ConsentTo(a, c) ==
  [asset |-> a, depositor |-> trust[a].depositor, recipient |-> trust[a].recipient,
   claimant |-> c, since |-> trust[a].since]

Consent(a, c) ==
  /\ trust[a] # NoTrust
  /\ given' = given \cup {ConsentTo(a, c)}
  /\ UNCHANGED <<slot, holder, trust>>

Settle(a, h) ==
  /\ trust[a] # NoTrust
  /\ holder[a] = Escrow
  /\ holder' = [holder EXCEPT ![a] = h]
  /\ trust' = [trust EXCEPT ![a] = NoTrust]
  /\ UNCHANGED <<slot, given>>

Return(a) == trust[a] # NoTrust /\ Settle(a, trust[a].depositor)

Deliver(a, c) == trust[a] # NoTrust /\ ConsentTo(a, c) \in given /\ Settle(a, c)

Abandon(a) ==
  trust[a] # NoTrust /\ slot - trust[a].opened >= PurgeGrace /\ Settle(a, Burned)

Advance == slot < MaxSlot /\ slot' = slot + 1 /\ UNCHANGED <<holder, trust, given>>

Next ==
  \/ \E a \in Assets, u \in Users \cup {Escrow} : Trade(a, u)
  \/ \E a \in Assets, r \in Recipients : Entrust(a, r) \/ Retarget(a, r)
  \/ \E a \in Assets, c \in Users : Consent(a, c) \/ Deliver(a, c)
  \/ \E a \in Assets : Return(a) \/ Abandon(a)
  \/ Advance

Spec == Init /\ [][Next]_vars
=============================================================================
