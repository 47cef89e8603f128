-------------------------- MODULE BudgetTransactions --------------------------
(***************************************************************************)
(* The budget store of internal/store statement by statement: what         *)
(* BudgetLedger does in one step is here a READ COMMITTED transaction that *)
(* takes row locks one by one, waits for those of others, and may be       *)
(* rolled back half way.  Handlers reserve and settle, reapers sweep, and  *)
(* administrators update and revoke keys, all at once.                     *)
(*                                                                         *)
(* What Postgres does is modelled from how this code depends on it: an     *)
(* UPDATE finds its row in the snapshot of its statement, waits for the    *)
(* row's lock, and evaluates its predicate again on the committed row      *)
(* (only on the row it updates: the virtual_keys row it joins keeps the    *)
(* version of the snapshot); now() is the start of the transaction; writes *)
(* become visible, and locks are released, at the end of the transaction;  *)
(* a cycle of waits is broken by aborting one of its transactions.         *)
(*                                                                         *)
(* A reservation is named after the request that takes it.                 *)
(***************************************************************************)
EXTENDS Integers, FiniteSets, Sums

CONSTANTS
    NKeys,          \* keys are 1 .. NKeys, so that the reaper can order them
    Requests,       \* calls of the proxy handler; also their reservation ids
    Reapers,        \* replicas running the reaper
    Admins,         \* calls of PATCH and DELETE /admin/keys
    Models,         \* what a request may ask for
    Amounts,        \* estimates and actual costs
    Limits, NoLimit,
    Keep,           \* a field absent from an UpdateKey call
    TTL,            \* COSTLANE_RESERVATION_TTL, in ticks of the clock
    MonthTicks,     \* ticks in a month
    ReapLimit,      \* rows one sweep may claim
    MaxNow,         \* bound on the clock
    MaxFailures     \* bound on failures from outside

(* A request that never reached its provider settles at zero. *)
ASSUME ZeroIsAnAmount == 0 \in Amounts
ASSUME AmountsNatural == Amounts \subseteq Nat
ASSUME LimitsNatural == Limits \subseteq Nat /\ NoLimit \notin Nat
ASSUME KeysAndModels == NKeys \in Nat \ {0} /\ Models # {}
ASSUME RequestsFinite == IsFiniteSet(Requests)
ASSUME ClockAssumption == TTL \in Nat /\ MonthTicks \in Nat \ {0} /\ MaxNow \in Nat
ASSUME FailuresAssumption == MaxFailures \in Nat
(* A process is one of the three, and does the work of that kind only. *)
ASSUME ProcessesDistinct ==
    Requests \cap Reapers = {} /\ Requests \cap Admins = {} /\ Reapers \cap Admins = {}

Keys == 1 .. NKeys
Procs == Requests \cup Reapers \cup Admins
LimitValues == Limits \cup {NoLimit}

VARIABLES
    now,        \* the database clock
    vk,         \* virtual_keys, committed: [exists, revoked, allowed]
    kb,         \* key_budgets, committed: [window, limit, spent, reserved]
    rv,         \* budget_reservations, committed, by request
    holds,      \* the row locks each process holds
    pc,         \* where each process is
    req,        \* the call of each request: inputs, tx start, what it has read
    sweep,      \* what each reaper has claimed, and the budgets left to lock
    upd,        \* the call of each administrator
    reply,      \* what each request's reserve answered
    failures,   \* failures so far
    ceiling     \* history: the limit under which a key's last reserve passed

tables == <<vk, kb, rv, ceiling>>
locals == <<req, sweep, upd>>
vars == <<now, vk, kb, rv, holds, pc, req, sweep, upd, reply, failures, ceiling>>

MonthOf(instant) == instant \div MonthTicks
Months == 0 .. MonthOf(MaxNow)

-------------------------------------------------------------------------------
(* Row locks.  A row is <<table, id>>.  Postgres's KEY SHARE, taken on the  *)
(* key by the foreign key of an inserted reservation, is compatible with    *)
(* the lock of an UPDATE that changes no key column, and not with FOR       *)
(* UPDATE; every other pair conflicts, except two KEY SHAREs.               *)

Lock(table, id, mode) == [row |-> <<table, id>>, mode |-> mode]
Share(k) == Lock("vk", k, "key share")
NoKey(table, id) == Lock(table, id, "no key update")
ForUpdate(table, id) == Lock(table, id, "update")

Conflicts(a, b) ==
    /\ a.row = b.row
    /\ ~ (/\ "key share" \in {a.mode, b.mode}
          /\ {a.mode, b.mode} \subseteq {"key share", "no key update"})

Blocks(q, l) == \E m \in holds[q] : Conflicts(m, l)
Free(p, l) == \A q \in Procs \ {p} : ~Blocks(q, l)

Take(p, l) == Free(p, l) /\ holds' = [holds EXCEPT ![p] = @ \cup {l}]
ReleaseAll(p) == holds' = [holds EXCEPT ![p] = {}]
Goto(p, label) == pc' = [pc EXCEPT ![p] = label]

(* Mutant of LowestFirst: no ORDER BY. *)
AnyOrder(a) == sweep[a].todo

(* SELECT ... ORDER BY key_id FOR UPDATE: a sweep locks the lowest of the   *)
(* budgets it still has to lock.                                            *)
LowestFirst(a) == {j \in sweep[a].todo : \A i \in sweep[a].todo : j <= i}

(* The lock that the next statement of a process needs. *)
Wanted(p) ==
    CASE pc[p] = "reserve_lock"  -> {NoKey("kb", req[p].key)}
      [] pc[p] = "reserve_insert" -> {Share(req[p].key)}
      [] pc[p] = "settle_row"    -> {NoKey("rv", p)}
      [] pc[p] = "settle_budget" -> {NoKey("kb", req[p].key)}
      [] pc[p] = "reap_lock"     -> {ForUpdate("kb", k) : k \in LowestFirst(p)}
      [] pc[p] = "update_lock"   -> {ForUpdate("vk", upd[p].key)}
      [] pc[p] = "update_limit"  -> {NoKey("kb", upd[p].key)}
      [] OTHER -> {}

WaitsFor(p, q) == q # p /\ \E l \in Wanted(p) : Blocks(q, l)

(* Processes none of which can go on before another of them does. *)
Stuck(S) == S # {} /\ \A p \in S : \E q \in S : WaitsFor(p, q)
Cycle(S) == Stuck(S) /\ \A T \in SUBSET S : Stuck(T) => T = S

-------------------------------------------------------------------------------
(* Reserve. *)

NotStarted == [key |-> 1, model |-> CHOOSE m \in Models : TRUE, est |-> 0,
               start |-> 0, actual |-> 0, late |-> FALSE, revokedAtStart |-> FALSE,
               again |-> FALSE]

BeginReserve(p, k, m, est) ==
    /\ pc[p] = "idle"
    /\ now + TTL < MaxNow
    /\ req' = [req EXCEPT ![p] = [NotStarted EXCEPT
                  !.key = k, !.model = m, !.est = est, !.start = now,
                  !.revokedAtStart = vk[k].revoked]]
    /\ Goto(p, "reserve_scan")
    /\ UNCHANGED <<now, vk, kb, rv, ceiling, holds, sweep, upd, reply, failures>>

(* The predicate of reserveSQL: who may reserve, and whether the estimate   *)
(* fits under the limit once the window is rotated.                         *)
(* Mutant of Admitted: revoked_at is not looked at. *)
AdmittedThoughRevoked(k, m) == vk[k].exists /\ m \in vk[k].allowed

Admitted(k, m) == vk[k].exists /\ ~vk[k].revoked /\ m \in vk[k].allowed

StartMonth(p) == MonthOf(req[p].start)
Rotated(p) == kb[req[p].key].window < StartMonth(p)
SpentNow(p) == IF Rotated(p) THEN 0 ELSE kb[req[p].key].spent
WindowNow(p) == IF Rotated(p) THEN StartMonth(p) ELSE kb[req[p].key].window

Affordable(p) ==
    LET b == kb[req[p].key]
    IN  b.limit # NoLimit => SpentNow(p) + b.reserved + req[p].est <= b.limit

(* The UPDATE's snapshot.  A row that does not match is never waited for. *)
ReserveScan(p) ==
    /\ pc[p] = "reserve_scan"
    /\ Goto(p, IF Admitted(req[p].key, req[p].model) /\ Affordable(p)
               THEN "reserve_lock" ELSE "diagnose")
    /\ UNCHANGED <<now, tables, holds, locals, reply, failures>>

(* Mutant of ReserveLock: the predicate is not evaluated again. *)
ReserveLockUnchecked(p) ==
    /\ pc[p] = "reserve_lock"
    /\ Take(p, NoKey("kb", req[p].key))
    /\ Goto(p, "reserve_insert")
    /\ UNCHANGED <<now, tables, locals, reply, failures>>

(* The row's lock, and the predicate again on the committed balance. *)
ReserveLock(p) ==
    /\ pc[p] = "reserve_lock"
    /\ Take(p, NoKey("kb", req[p].key))
    /\ Goto(p, IF Affordable(p) THEN "reserve_insert" ELSE "diagnose")
    /\ UNCHANGED <<now, tables, locals, reply, failures>>

(* INSERT INTO budget_reservations: the foreign key share-locks the key. *)
ReserveInsert(p) ==
    /\ pc[p] = "reserve_insert"
    /\ Take(p, Share(req[p].key))
    /\ Goto(p, "reserve_commit")
    /\ UNCHANGED <<now, tables, locals, reply, failures>>

(* The commit makes the balance and the row visible.  When its answer is    *)
(* lost the handler reports an error, and nobody will settle the row.       *)
ReserveCommit(p, answered) ==
    LET k == req[p].key IN
    /\ pc[p] = "reserve_commit"
    /\ answered \/ failures < MaxFailures
    /\ kb' = [kb EXCEPT ![k].spent = SpentNow(p), ![k].window = WindowNow(p),
                        ![k].reserved = @ + req[p].est]
    /\ rv' = [rv EXCEPT ![p] =
                 [state |-> "pending", key |-> k, window |-> WindowNow(p),
                  est |-> req[p].est, actual |-> 0, late |-> FALSE,
                  expires |-> req[p].start + TTL]]
    /\ ceiling' = [ceiling EXCEPT ![k] = kb[k].limit]
    /\ reply' = [reply EXCEPT ![p].err = IF answered THEN "granted" ELSE "error"]
    /\ failures' = IF answered THEN failures ELSE failures + 1
    /\ ReleaseAll(p)
    /\ Goto(p, IF answered THEN "granted" ELSE "gone")
    /\ UNCHANGED <<now, vk, locals>>

(* diagnoseReserve: a second query, on the read pool, while the transaction *)
(* that was refused is still open; then its rollback.                       *)
Refusal(p) ==
    LET k == req[p].key
        b == kb[k]
        answer(e) == [err |-> e, limit |-> NoLimit, spent |-> 0, reserved |-> 0]
    IN  IF ~vk[k].exists THEN answer("not found")
        ELSE IF vk[k].revoked THEN answer("revoked")
        ELSE IF req[p].model \notin vk[k].allowed THEN answer("model not allowed")
        ELSE [err |-> "budget exceeded", limit |-> b.limit, spent |-> b.spent,
              reserved |-> b.reserved]

Diagnose(p) ==
    /\ pc[p] = "diagnose"
    /\ reply' = [reply EXCEPT ![p] = Refusal(p)]
    /\ ReleaseAll(p)
    /\ Goto(p, "gone")
    /\ UNCHANGED <<now, tables, locals, failures>>

-------------------------------------------------------------------------------
(* Settle. *)

(* The handler settles once its upstream call has ended.  If it panics      *)
(* after that, its deferred release settles the same reservation at zero.   *)
BeginSettle(p, actual) ==
    /\ pc[p] = "granted"
    /\ req' = [req EXCEPT ![p].actual = actual]
    /\ Goto(p, "settle_row")
    /\ UNCHANGED <<now, tables, holds, sweep, upd, reply, failures>>

DeferredRelease(p) ==
    /\ pc[p] \in {"settled", "settle_failed"}
    /\ ~req[p].again
    /\ req' = [req EXCEPT ![p].actual = 0, ![p].again = TRUE]
    /\ Goto(p, "settle_row")
    /\ UNCHANGED <<now, tables, holds, sweep, upd, reply, failures>>

(* Mutant of ReturnedLate: the state is read after it was set to settled. *)
ReturnedTooLate(p) == FALSE

(* settled_after_expiry, computed from the state the row had before. *)
ReturnedLate(p) == rv[p].state = "expired"

(* UPDATE budget_reservations ... WHERE state IN ('pending', 'expired').    *)
(* Matching nothing is the no-op that an already settled row calls for.     *)
SettleRow(p) ==
    /\ pc[p] = "settle_row"
    /\ Free(p, NoKey("rv", p))
    /\ IF rv[p].state \in {"pending", "expired"}
       THEN /\ Take(p, NoKey("rv", p))
            /\ req' = [req EXCEPT ![p].late = ReturnedLate(p)]
            /\ Goto(p, "settle_budget")
       ELSE /\ Goto(p, "settled")
            /\ UNCHANGED <<holds, req>>
    /\ UNCHANGED <<now, tables, sweep, upd, reply, failures>>

SettleBudget(p) ==
    /\ pc[p] = "settle_budget"
    /\ Take(p, NoKey("kb", req[p].key))
    /\ Goto(p, "settle_commit")
    /\ UNCHANGED <<now, tables, locals, reply, failures>>

SettleCommit(p, answered) ==
    LET k == req[p].key IN
    /\ pc[p] = "settle_commit"
    /\ answered \/ failures < MaxFailures
    /\ rv' = [rv EXCEPT ![p].state = "settled", ![p].actual = req[p].actual,
                        ![p].late = req[p].late]
    /\ kb' = [kb EXCEPT
                 ![k].reserved = @ - (IF req[p].late THEN 0 ELSE rv[p].est),
                 ![k].spent = @ + (IF kb[k].window = rv[p].window
                                   THEN req[p].actual ELSE 0)]
    /\ failures' = IF answered THEN failures ELSE failures + 1
    /\ ReleaseAll(p)
    /\ Goto(p, IF answered THEN "settled" ELSE "settle_failed")
    /\ UNCHANGED <<now, vk, ceiling, locals, reply>>

-------------------------------------------------------------------------------
(* The reaper. *)

NoSweep == [claims |-> {}, todo |-> {}]

(* Mutant of Expired: the comparison is swapped. *)
NotYetExpired == {r \in Requests : rv[r].state = "pending" /\ rv[r].expires > now}

(* SELECT ... ORDER BY expires_at LIMIT n FOR UPDATE SKIP LOCKED. *)
Expired == {r \in Requests : rv[r].state = "pending" /\ rv[r].expires < now}
Claimable(a) == {r \in Expired : Free(a, ForUpdate("rv", r))}

OldestOf(B, S) ==
    /\ B \subseteq S
    /\ Cardinality(B) = IF Cardinality(S) < ReapLimit THEN Cardinality(S) ELSE ReapLimit
    /\ \A r \in B, q \in S \ B : rv[r].expires <= rv[q].expires

ReapSelect(a, B) ==
    /\ pc[a] = "idle"
    /\ B # {}
    /\ OldestOf(B, Claimable(a))
    /\ holds' = [holds EXCEPT ![a] = {ForUpdate("rv", r) : r \in B}]
    /\ sweep' = [sweep EXCEPT ![a] = [claims |-> B, todo |-> {rv[r].key : r \in B}]]
    /\ Goto(a, "reap_lock")
    /\ UNCHANGED <<now, tables, req, upd, reply, failures>>

(* SELECT 1 FROM key_budgets ... ORDER BY key_id FOR UPDATE, row by row. *)
ReapLock(a) ==
    /\ pc[a] = "reap_lock"
    /\ \E k \in LowestFirst(a) :
          /\ Take(a, ForUpdate("kb", k))
          /\ sweep' = [sweep EXCEPT ![a].todo = @ \ {k}]
          /\ Goto(a, IF sweep[a].todo = {k} THEN "reap_commit" ELSE "reap_lock")
    /\ UNCHANGED <<now, tables, req, upd, reply, failures>>

(* The rows expire, and each key gets back the sum of what they held. *)
ClaimedBy(a, k) ==
    Total({r \in sweep[a].claims : rv[r].key = k}, [r \in Requests |-> rv[r].est])

ReapCommit(a) ==
    /\ pc[a] = "reap_commit"
    /\ rv' = [r \in Requests |-> IF r \in sweep[a].claims /\ rv[r].state = "pending"
                                 THEN [rv[r] EXCEPT !.state = "expired"] ELSE rv[r]]
    /\ kb' = [k \in Keys |-> [kb[k] EXCEPT !.reserved = @ - ClaimedBy(a, k)]]
    /\ sweep' = [sweep EXCEPT ![a] = NoSweep]
    /\ ReleaseAll(a)
    /\ Goto(a, "idle")
    /\ UNCHANGED <<now, vk, ceiling, req, upd, reply, failures>>

-------------------------------------------------------------------------------
(* Key administration. *)

NoUpdate == [key |-> 1, limit |-> Keep, allowed |-> Keep]

(* The key is fresh: nobody can have presented it before. *)
CreateKey(k, limit, allowed) ==
    /\ ~vk[k].exists
    /\ \A p \in Requests : pc[p] # "idle" => req[p].key # k
    /\ vk' = [vk EXCEPT ![k] = [exists |-> TRUE, revoked |-> FALSE, allowed |-> allowed]]
    /\ kb' = [kb EXCEPT ![k] = [window |-> MonthOf(now), limit |-> limit,
                                spent |-> 0, reserved |-> 0]]
    /\ UNCHANGED <<now, rv, ceiling, holds, pc, locals, reply, failures>>

(* One statement, in a transaction of its own. *)
RevokeKey(a, k) ==
    /\ pc[a] = "idle"
    /\ vk[k].exists
    /\ Free(a, NoKey("vk", k))
    /\ vk' = [vk EXCEPT ![k].revoked = TRUE]
    /\ Goto(a, "gone")
    /\ UNCHANGED <<now, kb, rv, ceiling, holds, locals, reply, failures>>

BeginUpdate(a, k, limit, allowed) ==
    /\ pc[a] = "idle"
    /\ upd' = [upd EXCEPT ![a] = [key |-> k, limit |-> limit, allowed |-> allowed]]
    /\ Goto(a, "update_lock")
    /\ UNCHANGED <<now, tables, holds, req, sweep, reply, failures>>

(* SELECT true FROM virtual_keys ... FOR UPDATE. *)
UpdateLock(a) ==
    /\ pc[a] = "update_lock"
    /\ IF vk[upd[a].key].exists
       THEN /\ Take(a, ForUpdate("vk", upd[a].key))
            /\ Goto(a, IF upd[a].limit = Keep THEN "update_commit" ELSE "update_limit")
       ELSE Goto(a, "gone") /\ UNCHANGED holds
    /\ UNCHANGED <<now, tables, locals, reply, failures>>

(* Mutant of UpdateLimit: the new limit does not wait for the row. *)
UpdateLimitUnlocked(a) ==
    /\ pc[a] = "update_limit"
    /\ Goto(a, "update_commit")
    /\ UNCHANGED <<now, tables, holds, locals, reply, failures>>

(* UPDATE key_budgets SET limit_usd. *)
UpdateLimit(a) ==
    /\ pc[a] = "update_limit"
    /\ Take(a, NoKey("kb", upd[a].key))
    /\ Goto(a, "update_commit")
    /\ UNCHANGED <<now, tables, locals, reply, failures>>

UpdateCommit(a) ==
    LET u == upd[a] IN
    /\ pc[a] = "update_commit"
    /\ vk' = [vk EXCEPT ![u.key].allowed = IF u.allowed = Keep THEN @ ELSE u.allowed]
    /\ kb' = [kb EXCEPT ![u.key].limit = IF u.limit = Keep THEN @ ELSE u.limit]
    /\ ReleaseAll(a)
    /\ Goto(a, "gone")
    /\ UNCHANGED <<now, rv, ceiling, locals, reply, failures>>

-------------------------------------------------------------------------------
(* Rollbacks and crashes. *)

InReserve == {"reserve_scan", "reserve_lock", "reserve_insert", "reserve_commit", "diagnose"}
InSettle  == {"settle_row", "settle_budget", "settle_commit"}
InSweep   == {"reap_lock", "reap_commit"}
InUpdate  == {"update_lock", "update_limit", "update_commit"}

(* The transaction of p ends without effect.  A failed settle is logged and *)
(* not tried again; a failed sweep is left to the next one.                 *)
RollBack(p) ==
    /\ ReleaseAll(p)
    /\ \/ /\ pc[p] \in InReserve
          /\ reply' = [reply EXCEPT ![p].err = "error"]
          /\ Goto(p, "gone")
          /\ UNCHANGED sweep
       \/ /\ pc[p] \in InSettle
          /\ Goto(p, "settle_failed")
          /\ UNCHANGED <<reply, sweep>>
       \/ /\ pc[p] \in InSweep
          /\ sweep' = [sweep EXCEPT ![p] = NoSweep]
          /\ Goto(p, "idle")
          /\ UNCHANGED reply
       \/ /\ pc[p] \in InUpdate
          /\ Goto(p, "gone")
          /\ UNCHANGED <<reply, sweep>>
    /\ UNCHANGED <<now, tables, req, upd>>

(* A cancelled context, a timeout, a lost connection. *)
Fail(p) ==
    /\ failures < MaxFailures
    /\ failures' = failures + 1
    /\ RollBack(p)

(* Postgres aborts one transaction of a cycle (SQLSTATE 40P01). *)
DeadlockAbort(p) ==
    /\ \E S \in SUBSET Procs : p \in S /\ Cycle(S)
    /\ RollBack(p)
    /\ UNCHANGED failures

(* The gateway dies with a reservation open: its transaction is rolled      *)
(* back, and nobody is left to settle.                                      *)
Crash(p) ==
    /\ pc[p] \in InSettle \cup {"granted"}
    /\ failures < MaxFailures
    /\ failures' = failures + 1
    /\ ReleaseAll(p)
    /\ Goto(p, "gone")
    /\ UNCHANGED <<now, tables, locals, reply>>

Tick ==
    /\ now < MaxNow
    /\ now' = now + 1
    /\ UNCHANGED <<tables, holds, pc, locals, reply, failures>>

-------------------------------------------------------------------------------
NoReservation == [state |-> "none", key |-> CHOOSE k \in Keys : TRUE, window |-> 0,
                  est |-> 0, actual |-> 0, late |-> FALSE, expires |-> 0]
NoReply == [err |-> "none", limit |-> NoLimit, spent |-> 0, reserved |-> 0]

Init ==
    /\ now = 0
    /\ vk = [k \in Keys |-> [exists |-> FALSE, revoked |-> FALSE, allowed |-> {}]]
    /\ kb = [k \in Keys |-> [window |-> 0, limit |-> NoLimit, spent |-> 0, reserved |-> 0]]
    /\ rv = [r \in Requests |-> NoReservation]
    /\ holds = [p \in Procs |-> {}]
    /\ pc = [p \in Procs |-> "idle"]
    /\ req = [p \in Requests |-> NotStarted]
    /\ sweep = [a \in Reapers |-> NoSweep]
    /\ upd = [a \in Admins |-> NoUpdate]
    /\ reply = [p \in Requests |-> NoReply]
    /\ failures = 0
    /\ ceiling = [k \in Keys |-> 0]

RequestStep(p) ==
    \/ ReserveScan(p) \/ ReserveLock(p) \/ ReserveInsert(p)
    \/ \E answered \in BOOLEAN : ReserveCommit(p, answered)
    \/ Diagnose(p)
    \/ SettleRow(p) \/ SettleBudget(p)
    \/ \E answered \in BOOLEAN : SettleCommit(p, answered)

ReaperStep(a) ==
    \/ \E B \in SUBSET Requests : ReapSelect(a, B)
    \/ ReapLock(a) \/ ReapCommit(a)

AdminStep(a) == UpdateLock(a) \/ UpdateLimit(a) \/ UpdateCommit(a)

Next ==
    \/ \E p \in Requests, k \in Keys, m \in Models, est \in Amounts :
           BeginReserve(p, k, m, est)
    \/ \E p \in Requests : RequestStep(p)
    \/ \E p \in Requests, actual \in Amounts : BeginSettle(p, actual)
    \/ \E p \in Requests : DeferredRelease(p)
    \/ \E a \in Reapers : ReaperStep(a)
    \/ \E k \in Keys, limit \in LimitValues, allowed \in SUBSET Models :
           CreateKey(k, limit, allowed)
    \/ \E a \in Admins, k \in Keys : RevokeKey(a, k)
    \/ \E a \in Admins, k \in Keys, limit \in LimitValues \cup {Keep},
          allowed \in (SUBSET Models) \cup {Keep} :
           BeginUpdate(a, k, limit, allowed)
    \/ \E a \in Admins : AdminStep(a)
    \/ \E p \in Procs : Fail(p) \/ DeadlockAbort(p)
    \/ \E p \in Requests : Crash(p)
    \/ Tick

(* Started transactions run on, the database looks for deadlocks, the       *)
(* reaper keeps sweeping and the clock keeps ticking; nothing obliges a     *)
(* client to come, an upstream to answer or a failure to happen.            *)
Fairness ==
    /\ WF_vars(Tick)
    /\ \A p \in Requests : WF_vars(RequestStep(p))
    /\ \A a \in Reapers : WF_vars(ReaperStep(a))
    /\ \A a \in Admins : WF_vars(AdminStep(a))
    /\ \A p \in Procs : WF_vars(DeadlockAbort(p))

Spec == Init /\ [][Next]_vars
FairSpec == Spec /\ Fairness

-------------------------------------------------------------------------------
(* What the transactions implement. *)

CreatedKeys == {k \in Keys : vk[k].exists}

LogRow(r) ==
    [state |-> rv[r].state, key |-> rv[r].key, window |-> rv[r].window,
     est |-> rv[r].est, actual |-> rv[r].actual, late |-> rv[r].late,
     due |-> rv[r].state # "none" /\ rv[r].expires < now]
Log == [r \in Requests |-> LogRow(r)]

Ledger == INSTANCE BudgetLedger WITH
    Keys <- Keys, Reservations <- Requests, Amounts <- Amounts,
    MaxMonth <- MonthOf(MaxNow), month <- MonthOf(now),
    keys <- CreatedKeys, budget <- kb, res <- Log, ceiling <- ceiling

(* Every committed transaction is one step of the ledger, and every other   *)
(* step changes nothing a reader can see: however the statements of         *)
(* reserves, settles, sweeps and updates interleave, wait, fail and abort,  *)
(* the balance moves as if they ran one after another.                      *)
ImplementsLedger == Ledger!Spec

(* The type invariant. *)
TypeOK ==
    /\ now \in 0 .. MaxNow
    /\ vk \in [Keys -> [exists: BOOLEAN, revoked: BOOLEAN, allowed: SUBSET Models]]
    /\ kb \in [Keys -> Ledger!BudgetRow]
    /\ \A r \in Requests : rv[r].key \in Keys /\ rv[r].expires \in 0 .. MaxNow
    /\ \A p \in Procs : pc[p] \in InReserve \cup InSettle \cup InSweep \cup InUpdate \cup
                          {"idle", "granted", "settled", "settle_failed", "gone"}
    /\ failures \in 0 .. MaxFailures

(* Handlers and reapers never deadlock among themselves: a settle takes its *)
(* row before the balance, a sweep skips rows that are locked and takes     *)
(* balances in key order, and a reserve takes one balance.  Only UpdateKey, *)
(* which locks the key before the balance while a reserve does the reverse, *)
(* can close a cycle.                                                       *)
NoDeadlockWithoutUpdate ==
    \A S \in SUBSET (Requests \cup Reapers) : ~Stuck(S)

(* A reserve that begins once a key's revocation has committed is never     *)
(* granted, whatever it waits for.                                          *)
RevocationIsImmediate ==
    \A p \in Requests : reply[p].err = "granted" => ~req[p].revokedAtStart

(* Every reservation is eventually closed, though its handler may have      *)
(* died, its settle may have failed, and the sweep that claimed it may have *)
(* been rolled back.                                                        *)
PendingCloses ==
    \A r \in Requests : rv[r].state = "pending" ~> rv[r].state # "pending"

-------------------------------------------------------------------------------
(* Why: what a process has locked, and what it knows of a row it has locked. *)

Locks == [row: ({"vk", "kb"} \X Keys) \cup ({"rv"} \X Requests),
          mode: {"key share", "no key update", "update"}]
Balances == [window: Nat, limit: LimitValues, spent: Int, reserved: Int]
Rows == [state: {"none", "pending", "settled", "expired"}, key: Keys, window: Nat,
         est: Nat, actual: Nat, late: BOOLEAN, expires: 0 .. MaxNow]
Call == [key: Keys, model: Models, est: Amounts, start: Nat, actual: Amounts,
         late: BOOLEAN, revokedAtStart: BOOLEAN, again: BOOLEAN]
Labels == InReserve \cup InSettle \cup InSweep \cup InUpdate \cup
          {"idle", "granted", "settled", "settle_failed", "gone"}

Answers == [err: {"none", "granted", "error", "not found", "revoked", "model not allowed",
                  "budget exceeded"},
            limit: LimitValues, spent: Int, reserved: Int]

StateInv ==
    /\ now \in 0 .. MaxNow
    /\ failures \in 0 .. MaxFailures
    /\ vk \in [Keys -> [exists: BOOLEAN, revoked: BOOLEAN, allowed: SUBSET Models]]
    /\ kb \in [Keys -> Balances]
    /\ rv \in [Requests -> Rows]
    /\ holds \in [Procs -> SUBSET Locks]
    /\ pc \in [Procs -> Labels]
    /\ req \in [Requests -> Call]
    /\ sweep \in [Reapers -> [claims: SUBSET Requests, todo: SUBSET Keys]]
    /\ upd \in [Admins -> [key: Keys, limit: LimitValues \cup {Keep},
                           allowed: (SUBSET Models) \cup {Keep}]]
    /\ reply \in [Requests -> Answers]

(* No two transactions hold locks that conflict; so a row that is locked    *)
(* for writing has one owner.                                               *)
Exclusive ==
    \A p, q \in Procs : p # q =>
        \A l \in holds[p], m \in holds[q] : ~Conflicts(l, m)

Owns(p, row) == \E l \in holds[p] : l.row = row /\ l.mode # "key share"

RequestInv(p) ==
    /\ pc[p] \in InReserve \cup InSettle
                   \cup {"idle", "granted", "settled", "settle_failed", "gone"}
    /\ req[p].start <= now
    /\ pc[p] # "idle" => req[p].start + TTL < MaxNow
    /\ pc[p] \in InReserve \cup {"idle"} => rv[p].state = "none"
    /\ rv[p].state # "none" => rv[p].key = req[p].key
    /\ pc[p] \in {"reserve_lock", "reserve_insert", "reserve_commit"} =>
           vk[req[p].key].exists /\ ~req[p].revokedAtStart
    /\ pc[p] \in {"reserve_insert", "reserve_commit"} =>
           Owns(p, <<"kb", req[p].key>>) /\ Affordable(p)
    /\ pc[p] \in {"settle_budget", "settle_commit"} =>
           /\ Owns(p, <<"rv", p>>)
           /\ rv[p].state \in {"pending", "expired"}
           /\ req[p].late <=> rv[p].state = "expired"
    /\ pc[p] = "settle_commit" => Owns(p, <<"kb", req[p].key>>)
    /\ req[p].revokedAtStart => pc[p] # "idle" /\ vk[req[p].key].revoked
    /\ reply[p].err = "granted" => pc[p] # "idle" /\ ~req[p].revokedAtStart

ReaperInv(a) ==
    /\ pc[a] \in InSweep \cup {"idle"}
    /\ pc[a] \in InSweep =>
           /\ sweep[a].claims # {}
           /\ \A r \in sweep[a].claims :
                 /\ Owns(a, <<"rv", r>>)
                 /\ rv[r].state = "pending" /\ rv[r].expires < now
                 /\ rv[r].key \in sweep[a].todo \/ Owns(a, <<"kb", rv[r].key>>)
    /\ pc[a] = "reap_commit" => sweep[a].todo = {}

AdminInv(a) ==
    /\ pc[a] \in InUpdate \cup {"idle", "gone"}
    /\ pc[a] \in {"update_limit", "update_commit"} => vk[upd[a].key].exists
    /\ (pc[a] = "update_commit" /\ upd[a].limit # Keep) => Owns(a, <<"kb", upd[a].key>>)

TransactionInv ==
    /\ StateInv
    /\ Exclusive
    /\ \A p \in Requests : RequestInv(p)
    /\ \A a \in Reapers : ReaperInv(a)
    /\ \A a \in Admins : AdminInv(a)

(* The order of locking: a request that holds a balance waits at most for   *)
(* the key, which only UpdateKey locks against it, and a sweep that waits   *)
(* for a balance holds only balances of lower keys.                         *)
HoldsRow(p, row) == \E l \in holds[p] : l.row = row

RequestOrder(p) ==
    /\ \A k \in Keys : HoldsRow(p, <<"kb", k>>) =>
          pc[p] \in {"reserve_insert", "reserve_commit", "diagnose", "settle_commit"}
    /\ \A r \in Requests : HoldsRow(p, <<"rv", r>>) => r = p
    /\ \A k \in Keys : ~Owns(p, <<"vk", k>>)

ReaperOrder(a) ==
    /\ pc[a] = "idle" => holds[a] = {}
    /\ pc[a] = "reap_lock" => sweep[a].todo # {}
    /\ \A k \in Keys : /\ ~HoldsRow(a, <<"vk", k>>)
                       /\ HoldsRow(a, <<"kb", k>>) => \A j \in sweep[a].todo : k < j

LockOrder ==
    /\ \A p \in Requests : RequestOrder(p)
    /\ \A a \in Reapers : ReaperOrder(a)

===============================================================================
