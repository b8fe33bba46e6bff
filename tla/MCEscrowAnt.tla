----------------------------- MODULE MCEscrowAnt -----------------------------
(* Small instances of EscrowAnt for TLC. *)
EXTENDS EscrowAnt, TLC

CONSTANTS u1, u2, ar, eth, x1

=============================================================================
