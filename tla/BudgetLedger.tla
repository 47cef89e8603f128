----------------------------- MODULE BudgetLedger -----------------------------
(***************************************************************************)
(* The budget ledger of internal/store, one action per committed           *)
(* transaction: the materialised balance of every key (key_budgets) beside *)
(* the append-only log it caches (budget_reservations).                    *)
(*                                                                         *)
(* A request reserves its estimate, and later settles what it really cost; *)
(* the reaper expires the reservations whose owner never came back; the    *)
(* spending window rotates lazily, inside a reserve.  This is the          *)
(* specification that the statement-level module BudgetTransactions        *)
(* implements: who may reserve (revocation, allowed models) is decided     *)
(* there, what a reserve, a settle and a sweep do to the money is here.    *)
(*                                                                         *)
(* Money is counted in natural units of numeric(20,10), months of UTC are  *)
(* numbered from 0, and time is abstracted to what the SQL compares: the   *)
(* current month, and whether expires_at has passed (due).                 *)
(***************************************************************************)
EXTENDS Integers, FiniteSets, Sums

CONSTANTS
    Keys,           \* virtual keys
    Reservations,   \* reservation ids, fresh uuids
    Amounts,        \* estimates and actual costs
    Limits,         \* the values limit_usd may be given
    NoLimit,        \* limit_usd IS NULL
    MaxMonth        \* bound on the clock

ASSUME KeysNonEmpty == Keys # {}
ASSUME ReservationsFinite == IsFiniteSet(Reservations)
ASSUME AmountsNatural == Amounts \subseteq Nat
ASSUME LimitsNatural == Limits \subseteq Nat
ASSUME NoLimitIsNoAmount == NoLimit \notin Nat
ASSUME MaxMonthNatural == MaxMonth \in Nat

VARIABLES
    month,      \* date_trunc('month', now() AT TIME ZONE 'UTC')
    keys,       \* the keys that have been created
    budget,     \* key_budgets: [window, limit, spent, reserved] of each key
    res,        \* budget_reservations: one row per id, state "none" if absent
    ceiling     \* history: the limit under which a key's last reserve passed

vars == <<month, keys, budget, res, ceiling>>

LimitValues == Limits \cup {NoLimit}
Months == 0 .. MaxMonth

BudgetRow == [window: Months, limit: LimitValues, spent: Nat, reserved: Nat]

ReservationRow ==
    [state: {"none", "pending", "settled", "expired"}, key: Keys, window: Months,
     est: Nat, actual: Nat, late: BOOLEAN, due: BOOLEAN]

(* The row of an id no reserve has used yet; its columns carry no meaning. *)
AbsentRow == [state |-> "none", key |-> CHOOSE k \in Keys : TRUE, window |-> 0,
              est |-> 0, actual |-> 0, late |-> FALSE, due |-> FALSE]

(* The type invariant.  That spent and reserved are natural numbers is what *)
(* the CHECK constraints of key_budgets demand: a double release would      *)
(* drive reserved below zero.                                               *)
TypeOK ==
    /\ month \in Months
    /\ keys \subseteq Keys
    /\ budget \in [Keys -> BudgetRow]
    /\ res \in [Reservations -> ReservationRow]
    /\ ceiling \in [Keys -> Nat \cup {NoLimit}]

-------------------------------------------------------------------------------
(* The log, read the way reconciliation reads it. *)

Estimates == [r \in Reservations |-> res[r].est]
Actuals   == [r \in Reservations |-> res[r].actual]

Pending(k) == {r \in Reservations : res[r].state = "pending" /\ res[r].key = k}

SettledIn(k, w) ==
    {r \in Reservations :
        res[r].state = "settled" /\ res[r].key = k /\ res[r].window = w}

LogReserved(k) == Total(Pending(k), Estimates)
LogSpent(k)    == Total(SettledIn(k, budget[k].window), Actuals)

-------------------------------------------------------------------------------
(* Reserve.  A transaction sees now() as of its start, so t may lie before  *)
(* the current month, and before a rotation that committed meanwhile:       *)
(* GREATEST keeps the newer window, and spent is zeroed only when the       *)
(* window really moves.  expires_at counts from that start as well, so a    *)
(* transaction that waited longer than the TTL inserts a row already due.   *)

Rotated(k, t) == budget[k].window < t
SpentAt(k, t) == IF Rotated(k, t) THEN 0 ELSE budget[k].spent
(* Mutant of WindowAt: the window is overwritten instead of GREATEST. *)
WindowOverwritten(k, t) == t

WindowAt(k, t) == IF Rotated(k, t) THEN t ELSE budget[k].window

(* Mutant of Affordable: what others have reserved is forgotten. *)
AffordableIgnoringReserved(k, t, est) ==
    budget[k].limit # NoLimit => SpentAt(k, t) + est <= budget[k].limit

Affordable(k, t, est) ==
    budget[k].limit # NoLimit =>
        SpentAt(k, t) + budget[k].reserved + est <= budget[k].limit

Reserve(k, r, t, est, due) ==
    /\ k \in keys
    /\ t <= month
    /\ res[r].state = "none"
    /\ Affordable(k, t, est)
    /\ budget' = [budget EXCEPT ![k].spent = SpentAt(k, t),
                                ![k].window = WindowAt(k, t),
                                ![k].reserved = @ + est]
    /\ res' = [res EXCEPT ![r] =
                  [state |-> "pending", key |-> k, window |-> WindowAt(k, t),
                   est |-> est, actual |-> 0, late |-> FALSE, due |-> due]]
    /\ ceiling' = [ceiling EXCEPT ![k] = budget[k].limit]
    /\ UNCHANGED <<month, keys>>

(* Settle.  The estimate is released unless the reaper has released it      *)
(* already; the actual cost counts against the balance only while the       *)
(* window of the reserve is still the current one.  A settle that finds the *)
(* row settled changes nothing, and is a stuttering step here.              *)

(* Mutants of Released and Charged: the estimate is released again after    *)
(* the reaper released it; a cost is charged to whatever window is current. *)
ReleasedTwice(r) == res[r].est
ChargedAnyWindow(r, actual) == actual

Released(r) == IF res[r].state = "expired" THEN 0 ELSE res[r].est
Charged(r, actual) ==
    IF budget[res[r].key].window = res[r].window THEN actual ELSE 0

Settle(r, actual) ==
    /\ res[r].state \in {"pending", "expired"}
    /\ res' = [res EXCEPT ![r].state = "settled",
                          ![r].actual = actual,
                          ![r].late = (res[r].state = "expired")]
    /\ budget' = [budget EXCEPT ![res[r].key].reserved = @ - Released(r),
                                ![res[r].key].spent = @ + Charged(r, actual)]
    /\ UNCHANGED <<month, keys, ceiling>>

(* One sweep of the reaper: it expires a set of pending reservations that   *)
(* are past their TTL, and releases, key by key, the sum of what they held. *)
(* Which of them a sweep takes (the oldest, up to a batch, skipping locked  *)
(* rows) is decided in BudgetTransactions.                                  *)
Reapable == {r \in Reservations : res[r].state = "pending" /\ res[r].due}

ClaimsOf(B, k) == {r \in B : res[r].key = k}

Reap(B) ==
    /\ B # {}
    /\ B \subseteq Reapable
    /\ res' = [r \in Reservations |->
                  IF r \in B THEN [res[r] EXCEPT !.state = "expired"] ELSE res[r]]
    /\ budget' = [k \in Keys |->
                     [budget[k] EXCEPT !.reserved = @ - Total(ClaimsOf(B, k), Estimates)]]
    /\ UNCHANGED <<month, keys, ceiling>>

-------------------------------------------------------------------------------
(* Administration, and the passing of time. *)

CreateKey(k, limit, t) ==
    /\ k \notin keys
    /\ t <= month
    /\ keys' = keys \cup {k}
    /\ budget' = [budget EXCEPT ![k] =
                     [window |-> t, limit |-> limit, spent |-> 0, reserved |-> 0]]
    /\ UNCHANGED <<month, res, ceiling>>

(* UpdateKey, as far as it concerns the ledger: a limit may be set below    *)
(* what is already spent.                                                   *)
UpdateLimit(k, limit) ==
    /\ k \in keys
    /\ budget' = [budget EXCEPT ![k].limit = limit]
    /\ UNCHANGED <<month, keys, res, ceiling>>

(* The clock moves: the month may turn, and any reservations may pass       *)
(* their expires_at.                                                        *)
TimePasses(m, D) ==
    /\ m \in {month, month + 1}
    /\ m <= MaxMonth
    /\ D \subseteq {r \in Reservations : res[r].state # "none"}
    /\ month' = m
    /\ res' = [r \in Reservations |->
                  IF r \in D THEN [res[r] EXCEPT !.due = TRUE] ELSE res[r]]
    /\ UNCHANGED <<keys, budget, ceiling>>

-------------------------------------------------------------------------------
Init ==
    /\ month = 0
    /\ keys = {}
    /\ budget = [k \in Keys |->
                    [window |-> 0, limit |-> NoLimit, spent |-> 0, reserved |-> 0]]
    /\ res = [r \in Reservations |-> AbsentRow]
    /\ ceiling = [k \in Keys |-> 0]

Next ==
    \/ \E k \in Keys, r \in Reservations, t \in Months, est \in Amounts,
          due \in BOOLEAN :
           Reserve(k, r, t, est, due)
    \/ \E r \in Reservations, actual \in Amounts : Settle(r, actual)
    \/ \E B \in SUBSET Reservations : Reap(B)
    \/ \E k \in Keys, limit \in LimitValues, t \in Months : CreateKey(k, limit, t)
    \/ \E k \in Keys, limit \in LimitValues : UpdateLimit(k, limit)
    \/ \E m \in Months, D \in SUBSET Reservations : TimePasses(m, D)

Spec == Init /\ [][Next]_vars

-------------------------------------------------------------------------------
(* Properties. *)

(* The first reconciliation check: the materialised balance equals what the *)
(* log says, spent for the settled rows of the current window and reserved  *)
(* for the pending rows.  Reserve, Settle, a late Settle, a rotation and a  *)
(* sweep of several keys all have to keep the two in step.                  *)
BalanceMatchesLog ==
    \A k \in Keys :
        /\ budget[k].spent = LogSpent(k)
        /\ budget[k].reserved = LogReserved(k)

(* How far one settled request went beyond what its reserve was admitted    *)
(* for: all of its cost if the reaper had already given its room away, else *)
(* the part of its cost above its estimate.                                 *)
Excess == [r \in Reservations |->
              IF res[r].late THEN res[r].actual
              ELSE IF res[r].actual > res[r].est THEN res[r].actual - res[r].est
              ELSE 0]

(* The hard stop.  What is spent and reserved never exceeds the limit the   *)
(* key's last reserve was admitted under, except by the excess of requests  *)
(* of this window that overshot their estimate or settled after expiry: no  *)
(* interleaving of reserves, settles, sweeps and rotations creates room.    *)
SpendWithinCeiling ==
    \A k \in Keys :
        ceiling[k] # NoLimit =>
            budget[k].spent + budget[k].reserved
                <= ceiling[k] + Total(SettledIn(k, budget[k].window), Excess)

(* Every row of the log belongs to a key that exists, and to a window no    *)
(* later than that key's current one: a rotation therefore starts from an   *)
(* empty window, which is why zeroing spent agrees with the log.            *)
LogWithinWindow ==
    \A r \in Reservations :
        res[r].state # "none" =>
            /\ res[r].key \in keys
            /\ res[r].window <= budget[res[r].key].window

(* The inductive invariant that the proofs of BudgetLedgerProofs rest on. *)
LedgerInv ==
    /\ TypeOK
    /\ LogWithinWindow
    /\ BalanceMatchesLog
    /\ SpendWithinCeiling

(* A spending window never moves back, though a reserve may run with a      *)
(* now() older than the rotation another reserve committed.                 *)
WindowNeverGoesBack ==
    [][\A k \in keys : budget'[k].window >= budget[k].window]_vars

===============================================================================
