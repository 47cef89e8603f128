------------------------------- MODULE Gateway --------------------------------
(***************************************************************************)
(* The gateway around its ledger: ServeHTTP and serveStream                *)
(* (internal/proxy/handler.go, stream_handler.go) as they reserve, call    *)
(* the provider, settle and record; the administrator's requests and       *)
(* reconciliation (internal/api, internal/store/reconcile.go); the reaper  *)
(* and the retention loop.  The ledger is BudgetLedger, one step per       *)
(* transaction, and the accounting rows are UsageStore's.                  *)
(*                                                                         *)
(* The two are written by different statements, on purpose and with no     *)
(* transaction around them: each may fail by itself, neither is retried,   *)
(* and the process may die between them.  What the operator has to tell is *)
(* the report of GET /admin/reconcile.  The handler that main serves has   *)
(* no usage buffer, since proxy.New has copied its options before main     *)
(* sets one, and records are written synchronously.                        *)
(*                                                                         *)
(* A request is its reservation, prices are abstracted to what they come   *)
(* out at (Pricing models how), and months are the only clock.             *)
(***************************************************************************)
EXTENDS UsageStore

CONSTANTS
    Keys,           \* virtual keys, each with its credential
    Reservations,   \* requests, and their reservations
    Amounts,        \* estimates and costs
    Limits,         \* the values limit_usd may be given
    NoLimit,        \* limit_usd IS NULL
    MaxMonth,       \* bound on the clock
    MaxFaults       \* bound on failing statements and crashes

ASSUME GatewayAssumption ==
    /\ Keys # {} /\ IsFiniteSet(Reservations)
    /\ Amounts \subseteq Nat /\ Limits \subseteq Nat /\ NoLimit \notin Nat
    /\ MaxMonth \in Nat

VARIABLES
    month, keys, budget, res, ceiling,  \* the ledger
    revoked,        \* keys whose revoked_at is set
    req,            \* the handler of each request
    spotless,       \* history: no row has been lost or pruned, none withheld
    faults          \* statements that failed and crashes so far

(* An unpriced request reserves nothing, and a release settles nothing. *)
Ledger == INSTANCE BudgetLedger WITH Amounts <- Amounts \cup {0}

ledger == <<month, keys, budget, res, ceiling>>
vars == <<ledger, records, revoked, req, spotless, faults>>

Idle == [at |-> "idle", key |-> CHOOSE k \in Keys : TRUE, unpriced |-> FALSE,
         cost |-> NoCost, limited |-> FALSE]

Goto(q, label) == req' = [req EXCEPT ![q].at = label]
(* The handler returns: nothing of it is left but what is in the tables. *)
Finish(q) == req' = [req EXCEPT ![q] = [Idle EXCEPT !.at = "done"]]

HasLimit(k) == k \in keys /\ budget[k].limit # NoLimit

Fault == faults < MaxFaults /\ faults' = faults + 1 /\ spotless' = FALSE

-------------------------------------------------------------------------------
(* ServeHTTP. *)

(* Everything that needs no database comes first: a credential, a body that *)
(* parses, a model, a route, a price.  A request that lacks one is refused. *)
RefuseEarly(q) ==
    /\ req[q].at = "idle"
    /\ Finish(q)
    /\ UNCHANGED <<ledger, records, revoked, spotless, faults>>

(* The others go on to the reserve; one whose model has no active price     *)
(* estimates at zero and must ask for the key's budget before.              *)
Receive(q, k, unpriced) ==
    /\ req[q].at = "idle"
    /\ req' = [req EXCEPT ![q] =
                  [at |-> IF unpriced THEN "check" ELSE "reserve", key |-> k,
                   unpriced |-> unpriced, cost |-> NoCost, limited |-> HasLimit(k)]]
    /\ UNCHANGED <<ledger, records, revoked, spotless, faults>>

(* Mutant of KeyHasBudget: a limit counts only once something is spent. *)
KeyHasSpent(k) == HasLimit(k) /\ budget[k].spent > 0

KeyHasBudget(k) == HasLimit(k)

(* An unknown or revoked key is refused here as by the reserve. *)
CheckBudget(q) ==
    LET k == req[q].key IN
    /\ req[q].at = "check"
    /\ IF k \notin keys \ revoked \/ KeyHasBudget(k)
       THEN Finish(q) ELSE Goto(q, "reserve")
    /\ UNCHANGED <<ledger, records, revoked, spotless, faults>>

Reserve(q, est) ==
    LET k == req[q].key IN
    /\ req[q].at = "reserve"
    /\ k \notin revoked
    /\ est \in IF req[q].unpriced THEN {0} ELSE Amounts
    /\ Ledger!Reserve(k, q, month, est, FALSE)
    /\ Goto(q, "call")
    /\ UNCHANGED <<records, revoked, spotless, faults>>

(* WriteReserveError: no row matched. *)
ReserveRefused(q, est) ==
    LET k == req[q].key IN
    /\ req[q].at = "reserve"
    /\ est \in IF req[q].unpriced THEN {0} ELSE Amounts
    /\ k \notin keys \ revoked \/ ~Ledger!Affordable(k, month, est)
    /\ Finish(q)
    /\ UNCHANGED <<ledger, records, revoked, spotless, faults>>

(* The provider answers, and the response comes out at a cost, or at none   *)
(* when the model it served has no active price.                            *)
Complete(q, cost) ==
    /\ req[q].at = "call"
    /\ req' = [req EXCEPT ![q].at = "settle", ![q].cost = cost]
    /\ UNCHANGED <<ledger, records, revoked, spotless, faults>>

(* The provider refuses or cannot be reached, or the handler panics and its *)
(* deferred settle runs: the reservation is released at zero, and there is  *)
(* no record.                                                               *)
UpstreamFails(q) ==
    /\ req[q].at = "call"
    /\ Goto(q, "release")
    /\ spotless' = FALSE
    /\ UNCHANGED <<ledger, records, revoked, faults>>

(* settleFailure, releaseReservation and the deferred settle. *)
Release(q) ==
    /\ req[q].at = "release"
    /\ Ledger!Settle(q, 0)
    /\ Finish(q)
    /\ UNCHANGED <<records, revoked, spotless, faults>>

Settle(q) ==
    /\ req[q].at = "settle"
    /\ Ledger!Settle(q, CostOf(req[q]))
    /\ Goto(q, "record")
    /\ UNCHANGED <<records, revoked, spotless, faults>>

(* A settle that fails is logged, and the handler goes on. *)
SettleFails(q) ==
    /\ req[q].at \in {"settle", "release"}
    /\ Fault
    /\ IF req[q].at = "settle" THEN Goto(q, "record") ELSE Finish(q)
    /\ UNCHANGED <<ledger, records, revoked>>

(* Mutant of RecordOf: the record is filed under the month it is written.   *)
RecordOfToday(q, id) ==
    [id |-> id, key |-> req[q].key, res |-> q, window |-> month,
     cost |-> req[q].cost, created |-> month]

(* The window is that of the reserve, whenever the response came. *)
RecordOf(q, id) ==
    [id |-> id, key |-> req[q].key, res |-> q, window |-> res[q].window,
     cost |-> req[q].cost, created |-> month]

(* Mutant of Record: a write that went through is tried again. *)
RecordAgain(q, id) ==
    /\ req[q].at = "record"
    /\ FreshId(id)
    /\ WriteUsageRecord(RecordOf(q, id))
    /\ UNCHANGED <<ledger, revoked, req, spotless, faults>>

Record(q, id) ==
    /\ req[q].at = "record"
    /\ FreshId(id)
    /\ WriteUsageRecord(RecordOf(q, id))
    /\ Finish(q)
    /\ UNCHANGED <<ledger, revoked, spotless, faults>>

RecordFails(q) ==
    /\ req[q].at = "record"
    /\ Fault
    /\ Finish(q)
    /\ UNCHANGED <<ledger, records, revoked>>

(* The process dies with every request in flight; the database stays. *)
Crash ==
    /\ \E q \in Reservations : req[q].at \notin {"idle", "done"}
    /\ Fault
    /\ req' = [q \in Reservations |->
                  IF req[q].at \in {"idle", "done"} THEN req[q]
                  ELSE [Idle EXCEPT !.at = "done"]]
    /\ UNCHANGED <<ledger, records, revoked>>

-------------------------------------------------------------------------------
(* The reaper, retention and the clock. *)

Reap(B) ==
    /\ Ledger!Reap(B)
    /\ UNCHANGED <<records, revoked, req, spotless, faults>>

Retain(B) ==
    /\ ApplyRetention(month, B)
    /\ spotless' = FALSE
    /\ UNCHANGED <<ledger, revoked, req, faults>>

(* The clock moves far enough for what is pending now to be overdue. *)
Tick(m) ==
    /\ Ledger!TimePasses(m, UNION {Ledger!Pending(k) : k \in Keys})
    /\ UNCHANGED <<records, revoked, req, spotless, faults>>

-------------------------------------------------------------------------------
(* The administrator, whom requireMaster has let through. *)

handleCreateKey(k, limit) ==
    /\ Ledger!CreateKey(k, limit, month)
    /\ UNCHANGED <<records, revoked, req, spotless, faults>>

(* limit_usd absent is no step, null lifts the limit. *)
handleUpdateKey(k, limit) ==
    /\ limit # budget[k].limit
    /\ Ledger!UpdateLimit(k, limit)
    /\ req' = [q \in Reservations |->
                  IF req[q].key = k /\ limit = NoLimit
                  THEN [req[q] EXCEPT !.limited = FALSE] ELSE req[q]]
    /\ UNCHANGED <<records, revoked, spotless, faults>>

(* Revoking again keeps the first revoked_at. *)
handleRevokeKey(k) ==
    /\ k \in keys \ revoked
    /\ revoked' = revoked \cup {k}
    /\ UNCHANGED <<ledger, records, req, spotless, faults>>

(* Reconcile: three queries, each over the snapshot of its statement. *)

BalanceDrift == {k \in keys : budget[k].spent # Ledger!LogSpent(k)
                           \/ budget[k].reserved # Ledger!LogReserved(k)}

(* Mutant of SettledWithoutUsageRecord: the join is on the key. *)
SettledWithoutAnyRecord ==
    {r \in Reservations : /\ res[r].state = "settled"
                          /\ ~\E u \in records : u.key = res[r].key}

SettledWithoutUsageRecord ==
    {r \in Reservations : /\ res[r].state = "settled"
                          /\ ~\E u \in records : u.res = r}

(* Only groups with a priced record are compared. *)
CostWindowMismatch ==
    {g \in {<<u.key, u.window>> : u \in {v \in records : v.cost # NoCost}} :
        CostSum({u \in records : <<u.key, u.window>> = g})
            # Total(Ledger!SettledIn(g[1], g[2]), Ledger!Actuals)}

(* ReconcileReport.OK, which handleReconcile turns into 200 or 409, for     *)
(* checks that run over a database that stands still.                       *)
ReportOK ==
    BalanceDrift = {} /\ SettledWithoutUsageRecord = {} /\ CostWindowMismatch = {}

-------------------------------------------------------------------------------
(* Readers: whose rows a caller may ask for.  resolveScope is evaluated at  *)
(* every request, so that a revoked key reads nothing more.                 *)
Scopes == {Master} \cup (keys \ revoked)

-------------------------------------------------------------------------------
Init ==
    /\ Ledger!Init
    /\ StoreInit
    /\ revoked = {}
    /\ req = [q \in Reservations |-> Idle]
    /\ spotless = TRUE
    /\ faults = 0

Handler(q) ==
    \/ RefuseEarly(q)
    \/ \E k \in Keys, u \in BOOLEAN : Receive(q, k, u)
    \/ CheckBudget(q)
    \/ \E est \in Amounts \cup {0} : Reserve(q, est) \/ ReserveRefused(q, est)
    \/ \E cost \in Amounts \cup {NoCost} : Complete(q, cost)
    \/ UpstreamFails(q)
    \/ Release(q) \/ Settle(q) \/ SettleFails(q)
    \/ \E id \in RecordIds : Record(q, id)
    \/ RecordFails(q)

Background ==
    \/ Crash
    \/ \E B \in SUBSET Reservations : Reap(B)
    \/ \E B \in SUBSET records : Retain(B)
    \/ \E m \in 0 .. MaxMonth : Tick(m)

Admin ==
    \/ \E k \in Keys, limit \in Limits \cup {NoLimit} :
           handleCreateKey(k, limit) \/ handleUpdateKey(k, limit)
    \/ \E k \in Keys : handleRevokeKey(k)

Next == (\E q \in Reservations : Handler(q)) \/ Background \/ Admin

Spec == Init /\ [][Next]_vars

-------------------------------------------------------------------------------
(* Properties. *)

Row == [id: RecordIds, key: Keys, res: Reservations, window: 0 .. MaxMonth,
        cost: Amounts \cup {NoCost}, created: 0 .. MaxMonth]

HandlerState ==
    [at: {"idle", "check", "reserve", "call", "settle", "release", "record", "done"},
     key: Keys, unpriced: BOOLEAN, limited: BOOLEAN, cost: Amounts \cup {NoCost}]

HandlersTyped == month \in 0 .. MaxMonth /\ req \in [Reservations -> HandlerState]

(* The type invariant: ids are unique, and no reservation has two records.  *)
TypeOK ==
    /\ Ledger!TypeOK
    /\ records \subseteq Row
    /\ \A u, v \in records : u.id = v.id \/ u.res = v.res => u = v
    /\ revoked \subseteq keys
    /\ HandlersTyped
    /\ spotless \in BOOLEAN

Booked(r) == IF res[r].state = "settled" THEN res[r].actual ELSE 0

(* What a clean report means.  When the three checks ran over a database    *)
(* that stood still and found nothing, every record costs what its          *)
(* reservation was charged, and GET /v1/usage reports for every key what it *)
(* was charged: a settle that failed and a record that failed cannot hide   *)
(* each other in the sums of a window, whatever expired or was pruned.      *)
CleanReportIsTrue ==
    ReportOK =>
        /\ \A u \in records : CostOf(u) = Booked(u.res)
        /\ \A k \in Keys :
              LET usage == QueryUsage(Master, 0, MaxMonth + 1, [u \in records |-> u.key])
                  charged == Total({r \in Reservations : res[r].key = k},
                                   [r \in Reservations |-> Booked(r)])
              IN charged = IF k \in DOMAIN usage THEN usage[k].cost ELSE 0

(* No false alarm.  While no statement failed, no process died, no provider *)
(* refused and nothing was pruned, a report over a database that stands     *)
(* still is clean, unless a request is just between its settle and its      *)
(* record.  Late settles, month boundaries and unpriced responses included. *)
NoFalseAlarm ==
    (spotless /\ \A q \in Reservations : req[q].at # "record") => ReportOK

(* An unpriced model estimates at zero, so that no limit would stop it:     *)
(* a key that has had a limit ever since the request came in is never let   *)
(* through.  A limit set between the check and the reserve comes too late   *)
(* for that request, and only for that one.                                 *)
UnpricedOnlyUnlimited ==
    \A q \in Reservations :
        (req[q].unpriced /\ res[q].state # "none") => ~req[q].limited

(* Where a cursor may point, the row it was taken from being pruned or not. *)
Cursors == [created: 0 .. MaxMonth, id: RecordIds]

(* The pages of GET /v1/usage/requests.  From wherever a client stands in a *)
(* listing, a page and what its cursor leaves to read are the rest of the   *)
(* listing, nothing twice and nothing passed over, down to the end: over a  *)
(* table that others write and prune between two pages, a client therefore  *)
(* sees every row that is there throughout exactly once.  Rows may tie in   *)
(* created_at, a cursor may outlive its row, and a page is never larger     *)
(* than its limit.                                                          *)
PagesPartition ==
    \A scope \in Scopes, from, to \in 0 .. MaxMonth + 1 :
        LET rows == Selected(scope, from, to) IN
        (rows # {} /\ RangeAccepted(from, to)) =>
            \A limit \in PageLimits, cursor \in {NoCursor} \cup Cursors :
                LET page == QueryRequests(rows, cursor, limit)
                    left == IF page.next = NoCursor THEN {} ELSE After(rows, page.next)
                IN /\ page.data \cup left = After(rows, cursor)
                   /\ page.data \cap left = {}
                   /\ Cardinality(page.data) <= PageLimit(limit)

-------------------------------------------------------------------------------
(* The inductive invariant that the proofs of GatewayProofs rest on. *)

(* Where a handler stands tells how far its reservation can have got: only  *)
(* the handler settles it, and a settle that failed is never made good.     *)
HandlerInv(q) ==
    /\ req[q].at \in {"idle", "check", "reserve"} => res[q].state = "none"
    /\ req[q].at \in {"call", "settle", "release", "record"} =>
          res[q].state # "none" /\ res[q].key = req[q].key
    /\ req[q].at \in {"call", "settle", "release"} => res[q].state # "settled"
    /\ (req[q].at = "record" /\ res[q].state = "settled") =>
          res[q].actual = CostOf(req[q])

(* A handler that remembers a limit belongs to a key that has one, and one  *)
(* past the check without a price remembers none.                           *)
LimitInv(q) ==
    /\ req[q].limited => HasLimit(req[q].key)
    /\ (req[q].unpriced /\ req[q].at # "check") => ~req[q].limited

(* A record tells the key, the window and, if it was settled, the cost of   *)
(* its reservation, and outlives the handler that wrote it.                 *)
RecordInv(u) ==
    /\ req[u.res].at = "done" /\ res[u.res].state # "none"
    /\ u.key = res[u.res].key /\ u.window = res[u.res].window
    /\ res[u.res].state = "settled" => res[u.res].actual = CostOf(u)

(* While nothing failed, what was settled is recorded, or about to be, and  *)
(* what was recorded is settled.                                            *)
SpotlessInv(q) ==
    /\ req[q].at # "release"
    /\ req[q].at = "record" => res[q].state = "settled"
    /\ res[q].state = "settled" => req[q].at = "record" \/ \E u \in records : u.res = q
    /\ \A u \in records : u.res = q => res[q].state = "settled"

GatewayInv ==
    /\ TypeOK
    /\ \A q \in Reservations : HandlerInv(q) /\ LimitInv(q)
    /\ \A u \in records : RecordInv(u)
    /\ spotless => \A q \in Reservations : SpotlessInv(q)
===============================================================================
