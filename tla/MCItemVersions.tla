--------------------------- MODULE MCItemVersions ---------------------------
(* Instances of ItemVersions for TLC. *)
EXTENDS ItemVersions, TLC

\* Requests are interchangeable: used by the runs that check safety only.
RequestSymmetry == Permutations(Requests)
=============================================================================
