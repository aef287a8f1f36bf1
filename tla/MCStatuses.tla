----------------------------- MODULE MCStatuses -----------------------------
(***************************************************************************)
(* Instances of Statuses for TLC.                                          *)
(***************************************************************************)
EXTENDS Statuses, TLC

Symmetry == Permutations(Statuses) \cup Permutations(Buffers) \cup Permutations(Errors)
=============================================================================
