------------------------- MODULE MCBudgetTransactions -------------------------
(***************************************************************************)
(* Small instances of BudgetTransactions for TLC.                          *)
(***************************************************************************)
EXTENDS BudgetTransactions, TLC

(* Requests and reapers are interchangeable. *)
Symmetry == Permutations(Requests) \cup Permutations(Reapers)

(* Several keys, on each of which some reservations are pending and past    *)
(* their TTL: where the ordinary specification gets after all the requests  *)
(* have reserved on keys without a limit.  From here handlers settle late   *)
(* while reapers sweep batches that span keys.                              *)
InitOverdue ==
    \E owner \in [Requests -> Keys] :
        /\ \A k \in Keys : Cardinality({r \in Requests : owner[r] = k}) >= 2
        /\ now = MaxNow
        /\ vk = [k \in Keys |-> [exists |-> TRUE, revoked |-> FALSE, allowed |-> Models]]
        /\ rv = [r \in Requests |->
                    [state |-> "pending", key |-> owner[r], window |-> 0, est |-> 1,
                     actual |-> 0, late |-> FALSE, expires |-> TTL]]
        /\ kb = [k \in Keys |->
                    [window |-> 0, limit |-> NoLimit, spent |-> 0,
                     reserved |-> Cardinality({r \in Requests : owner[r] = k})]]
        /\ holds = [p \in Procs |-> {}]
        /\ pc = [p \in Procs |-> IF p \in Requests THEN "granted" ELSE "idle"]
        /\ req = [p \in Requests |-> [NotStarted EXCEPT !.key = owner[p], !.est = 1]]
        /\ sweep = [a \in Reapers |-> NoSweep]
        /\ upd = [a \in Admins |-> NoUpdate]
        /\ reply = [p \in Requests |-> [NoReply EXCEPT !.err = "granted"]]
        /\ failures = 0
        /\ ceiling = [k \in Keys |-> NoLimit]

SpecOverdue == InitOverdue /\ [][Next]_vars

===============================================================================
