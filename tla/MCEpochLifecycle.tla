-------------------------- MODULE MCEpochLifecycle --------------------------
(***************************************************************************)
(* Small instances of EpochLifecycle for TLC.                              *)
(***************************************************************************)
EXTENDS EpochLifecycle, TLC

\* Gateways are interchangeable; not used where liveness is checked.
MCSymmetry == Permutations(Operators)
=============================================================================
