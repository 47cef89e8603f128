--------------------------------- MODULE Sums ---------------------------------
(***************************************************************************)
(* Sums of natural amounts over finite sets, as the SQL aggregates of the  *)
(* budget store compute them (SUM(...) GROUP BY key).                      *)
(*                                                                         *)
(* A sum is defined by counting: an amount f[r] is a bag of f[r] units,    *)
(* and the sum over S is the number of units the elements of S own.  The   *)
(* definition needs no recursion, so the facts a ledger needs about it     *)
(* (SumTheorems) follow from the first-order facts about Cardinality.      *)
(***************************************************************************)
EXTENDS Integers, FiniteSets

(* The units that one element owns, and those that the elements of S own. *)
UnitsOf(r, f) == {r} \X (1 .. f[r])
Units(S, f)   == UNION {UnitsOf(r, f) : r \in S}

(* The sum of f over S, for a finite S and natural amounts. *)
Total(S, f) == Cardinality(Units(S, f))

===============================================================================
