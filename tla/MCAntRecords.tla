---------------------------- MODULE MCAntRecords ----------------------------
(* Small instances of AntRecords for TLC. *)
EXTENDS AntRecords, TLC

CONSTANTS h1, h2, h3, ant

\* h3 is the administrator and has no ACL of its own.
Interchangeable == Permutations({h1, h2})
=============================================================================
