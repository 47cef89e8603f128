----------------------------- MODULE MCStreamPump -----------------------------
(***************************************************************************)
(* Small instances of StreamPump for TLC.                                  *)
(***************************************************************************)
EXTENDS StreamPump, TLC

(* Streams are interchangeable. *)
Symmetry == Permutations(Streams)

===============================================================================
