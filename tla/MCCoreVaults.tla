---------------------------- MODULE MCCoreVaults ----------------------------
(* Small instances of CoreVaults for TLC. *)
EXTENDS CoreVaults

CONSTANTS u1, u2

MCLocks == {-1, 1, 2}
MCDefaults == <<1, 2>>
MCBounds == {<<0, 1>>}
MCImports == {[amount |-> 1, end |-> 1, controller |-> NoUser, revocable |-> FALSE]}
MCSnapshots == {<<1, 2, 1>>}
=============================================================================
