--------------------------- MODULE MCEscrowTokens ---------------------------
(* Small instances of EscrowTokens for TLC. *)
EXTENDS EscrowTokens, TLC

CONSTANTS u1, u2, ar, eth, x1

MCSymmetry == Permutations({u1, u2})
MCDefaults == <<1, 2>>
MCBounds == {<<2, 2>>}
=============================================================================
