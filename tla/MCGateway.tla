------------------------------- MODULE MCGateway ------------------------------
(***************************************************************************)
(* A small instance of Gateway for TLC.                                    *)
(***************************************************************************)
EXTENDS Gateway, TLC

(* Requests are interchangeable; record ids are not, being ordered. *)
Symmetry == Permutations(Reservations)
===============================================================================
