---------------------------- MODULE MCBudgetLedger ----------------------------
(***************************************************************************)
(* Small instances of BudgetLedger for TLC.                                *)
(***************************************************************************)
EXTENDS BudgetLedger, TLC, FiniteSetsExt

(* Reservation ids are interchangeable. *)
Symmetry == Permutations(Reservations)

(* Total agrees with the sum by folding, on small inputs. *)
ASSUME TotalIsTheSum ==
    \A n \in 0 .. 3 : \A f \in [1 .. n -> 0 .. 3] :
        Total(1 .. n, f) = MapThenSumSet(LAMBDA i : f[i], 1 .. n)

===============================================================================
