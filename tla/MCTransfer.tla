----------------------------- MODULE MCTransfer -----------------------------
(* Instances of Transfer for TLC. *)
EXTENDS Transfer, TLC

\* The code treats its workers alike.
Symmetry == Permutations(Workers)
===========================================================================
