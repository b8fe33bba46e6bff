--------------------------- MODULE MCPrimaryNames ---------------------------
(* Small instances of PrimaryNames for TLC. *)
EXTENDS PrimaryNames, TLC

CONSTANTS h1, h2, ant, base

MCFunds == [h \in {h1, h2} |-> [wallet |-> 1, stake |-> 1]]

Interchangeable == Permutations({h1, h2})
=============================================================================
