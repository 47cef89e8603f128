------------------------------ MODULE UsageStore ------------------------------
(***************************************************************************)
(* The accounting rows of internal/store: usage_records (usage.go), the    *)
(* retention that prunes them, and the queries of GET /v1/usage and GET    *)
(* /v1/usage/requests (queries.go, internal/api/usage.go).  Gateway        *)
(* composes these operations with the handler that writes the rows and the *)
(* ledger they are compared with.  Stored prompts (request_payloads) are   *)
(* left out: nothing reads them back.                                      *)
(*                                                                         *)
(* A record keeps the columns that the queries and reconciliation read.    *)
(* created_at is a tick of the clock, coarse enough that rows tie, which   *)
(* rows of one batch always do; ids are uuids, of which the order matters. *)
(* A page is a set, since the order inside it is the query's.              *)
(***************************************************************************)
EXTENDS Integers, FiniteSets, Sums

CONSTANTS
    RecordIds,          \* ids of usage records, ordered as uuids are
    NoCost,             \* cost_usd IS NULL: unknown, never free
    Master,             \* the scope of the master credential
    PageLimits,         \* the limits a client asks for
    MaxPage,            \* 1000: a larger limit, or none, is replaced
    DefaultPage,        \* 100: by this one
    MaxQueryWindow,     \* COSTLANE_MAX_QUERY_WINDOW
    UsageRetention,     \* COSTLANE_USAGE_RETENTION, 0 keeps rows for ever
    BatchSize           \* RetentionPolicy.BatchSize

ASSUME RecordIdsAssumption == RecordIds \subseteq Nat /\ IsFiniteSet(RecordIds)
ASSUME NoCostAssumption == NoCost \notin Nat
ASSUME PageAssumption ==
    /\ PageLimits \subseteq Int
    /\ MaxPage \in Nat \ {0} /\ DefaultPage \in 1 .. MaxPage
    /\ BatchSize \in Nat \ {0} /\ MaxQueryWindow \in Nat \ {0}
ASSUME RetentionAssumption == UsageRetention \in Nat

VARIABLE records        \* usage_records

IdsOf(rows) == {r.id : r \in rows}

(* cost_usd as SUM takes it: a null adds nothing. *)
CostOf(r) == IF r.cost = NoCost THEN 0 ELSE r.cost
CostSum(rows) == Total(rows, [r \in rows |-> CostOf(r)])

-------------------------------------------------------------------------------
(* Writes. *)

(* uuid.New: an id that no row has. *)
FreshId(id) == id \in RecordIds \ IdsOf(records)

WriteUsageRecord(row) == records' = records \cup {row}

-------------------------------------------------------------------------------
(* ApplyRetention, in the loop of runRetention: at most a batch of the rows *)
(* past their lifetime in one statement.                                    *)

Past(now) ==
    IF UsageRetention = 0 THEN {} ELSE {r \in records : r.created < now - UsageRetention}

(* LIMIT without ORDER BY: any rows of that number. *)
Batches(rows) ==
    {B \in SUBSET rows :
        Cardinality(B) = IF Cardinality(rows) < BatchSize THEN Cardinality(rows)
                         ELSE BatchSize}

ApplyRetention(now, B) ==
    /\ B # {}
    /\ B \in Batches(Past(now))
    /\ records' = records \ B

-------------------------------------------------------------------------------
(* Reads.  resolveScope is Gateway's: it needs to know who is revoked.      *)

Allows(scope, k) == scope = Master \/ scope = k

(* The range and scope predicates that both queries share. *)
Selected(scope, from, to) ==
    {r \in records : Allows(scope, r.key) /\ from <= r.created /\ r.created < to}

(* timeRange, and the bound both queries put on it. *)
RangeAccepted(from, to) == from < to /\ to - from <= MaxQueryWindow

(* QueryUsage: one bucket per group; grouping by nothing is one bucket.  A  *)
(* grouping is a function of the records.                                   *)
Bucket(rows) ==
    [requests |-> Cardinality(rows), cost |-> CostSum(rows),
     unpriced |-> Cardinality({r \in rows : r.cost = NoCost})]
QueryUsage(scope, from, to, group) ==
    LET rows == Selected(scope, from, to)
    IN [g \in {group[r] : r \in rows} |-> Bucket({r \in rows : group[r] = g})]

NoCursor == [created |-> -1, id |-> -1]
Position(r) == [created |-> r.created, id |-> r.id]

(* Mutant of Below: the cursor compares the timestamp alone. *)
BelowByTime(a, b) == a.created < b.created

(* (u.created_at, u.id) < (b.created_at, b.id) *)
Below(a, b) == a.created < b.created \/ (a.created = b.created /\ a.id < b.id)

(* ORDER BY created_at DESC, id DESC LIMIT n *)
Precedes(a, b) == a.created > b.created \/ (a.created = b.created /\ a.id > b.id)
Top(rows, n) == {r \in rows : Cardinality({s \in rows : Precedes(s, r)}) < n}
Last(rows) == CHOOSE r \in rows : \A s \in rows \ {r} : Precedes(s, r)

PageLimit(limit) == IF limit <= 0 \/ limit > MaxPage THEN DefaultPage ELSE limit

(* The rows of a listing that come after its cursor. *)
After(rows, cursor) == {r \in rows : cursor = NoCursor \/ Below(r, cursor)}

(* QueryRequests, for the rows its scope and range select: one row more     *)
(* than the page tells whether there is a next page, and the cursor is the  *)
(* last row of this one.                                                    *)
QueryRequests(rows, cursor, limit) ==
    LET n    == PageLimit(limit)
        rest == After(rows, cursor)
        data == Top(rest, n)
    IN [data |-> data,
        next |-> IF Cardinality(Top(rest, n + 1)) > n THEN Position(Last(data))
                 ELSE NoCursor]

StoreInit == records = {}
===============================================================================
