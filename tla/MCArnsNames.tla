----------------------------- MODULE MCArnsNames -----------------------------
(* A small instance of ArnsNames. *)
EXTENDS ArnsNames, TLC

CONSTANTS u1, u2, n1, n2, a1, a2

MCFees == <<1, 40>>
MCLengthOf == n1 :> 1 @@ n2 :> 1
MCPurse(source) == [s \in Sources |-> IF s = "balance" THEN 1 ELSE IF s = source THEN 2 ELSE 0]
MCPurses ==
  {u1 :> MCPurse(source) @@ u2 :> [s \in Sources |-> 0] : source \in Sources \ {"balance"}}
MCImported == n1 :> 0
MCReservations ==
  n1 :> {} @@ n2 :> {[for |-> u1, expires |-> Permanent], [for |-> None, expires |-> 2]}
MCSymmetry == Permutations({a1, a2})
=============================================================================
