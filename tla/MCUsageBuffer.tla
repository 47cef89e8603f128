----------------------------- MODULE MCUsageBuffer ----------------------------
(***************************************************************************)
(* Small instances of UsageBuffer for TLC.                                 *)
(***************************************************************************)
EXTENDS UsageBuffer, TLC

(* Records are interchangeable. *)
Symmetry == Permutations(Records)

===============================================================================
