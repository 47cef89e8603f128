---------------------------- MODULE GatewayProofs -----------------------------
(***************************************************************************)
(* Proofs about the gateway around its ledger.  Every step of it is a step *)
(* of BudgetLedger or leaves the ledger alone, so that what is proved of   *)
(* the ledger holds of the gateway; what the records tell is proved on top *)
(* of that, from GatewayInv.                                               *)
(***************************************************************************)
EXTENDS Gateway, SumTheorems, FiniteSetTheorems, WellFoundedInduction, TLAPS

-------------------------------------------------------------------------------
(* The handlers' own state. *)

LEMMA HandlerFields ==
  ASSUME NEW x \in HandlerState
  PROVE  /\ x.at \in {"idle", "check", "reserve", "call", "settle", "release",
                      "record", "done"}
         /\ x.key \in Keys /\ x.unpriced \in BOOLEAN /\ x.limited \in BOOLEAN
         /\ x.cost \in Amounts \cup {NoCost}
BY DEF HandlerState

LEMMA HandlerBuilt ==
  ASSUME NEW at \in {"idle", "check", "reserve", "call", "settle", "release",
                     "record", "done"},
         NEW key \in Keys, NEW unpriced \in BOOLEAN, NEW limited \in BOOLEAN,
         NEW cost \in Amounts \cup {NoCost}
  PROVE  [at |-> at, key |-> key, unpriced |-> unpriced, cost |-> cost,
          limited |-> limited] \in HandlerState
BY DEF HandlerState

(* Moving on keeps the rest of a handler. *)
LEMMA HandlerMoved ==
  ASSUME NEW x \in HandlerState,
         NEW at \in {"idle", "check", "reserve", "call", "settle", "release",
                     "record", "done"}
  PROVE  /\ [x EXCEPT !.at = at] \in HandlerState
         /\ [x EXCEPT !.at = at].at = at
         /\ [x EXCEPT !.at = at].key = x.key
         /\ [x EXCEPT !.at = at].unpriced = x.unpriced
         /\ [x EXCEPT !.at = at].limited = x.limited
         /\ [x EXCEPT !.at = at].cost = x.cost
BY DEF HandlerState

LEMMA HandlerCosted ==
  ASSUME NEW x \in HandlerState, NEW cost \in Amounts \cup {NoCost}
  PROVE  LET y == [[x EXCEPT !.at = "settle"] EXCEPT !.cost = cost] IN
         /\ y \in HandlerState
         /\ y.at = "settle" /\ y.key = x.key /\ y.unpriced = x.unpriced
         /\ y.limited = x.limited /\ y.cost = cost
BY DEF HandlerState

LEMMA HandlerUnlimited ==
  ASSUME NEW x \in HandlerState
  PROVE  LET y == [x EXCEPT !.limited = FALSE] IN
         /\ y \in HandlerState
         /\ y.at = x.at /\ y.key = x.key /\ y.unpriced = x.unpriced
         /\ y.limited = FALSE /\ y.cost = x.cost
BY DEF HandlerState

LEMMA IdleTyped ==
  /\ Idle \in HandlerState
  /\ Idle.at = "idle" /\ Idle.unpriced = FALSE /\ Idle.limited = FALSE
<1>1. (CHOOSE k \in Keys : TRUE) \in Keys
  BY GatewayAssumption
<1> QED
  BY <1>1 DEF Idle, HandlerState

LEMMA DoneTyped ==
  LET y == [Idle EXCEPT !.at = "done"] IN
  /\ y \in HandlerState
  /\ y.at = "done" /\ y.unpriced = FALSE /\ y.limited = FALSE
BY IdleTyped, HandlerMoved

LEMMA ReceivedTyped ==
  ASSUME NEW at \in {"check", "reserve"}, NEW k \in Keys, NEW u \in BOOLEAN,
         NEW l \in BOOLEAN
  PROVE  LET y == [at |-> at, key |-> k, unpriced |-> u, cost |-> NoCost, limited |-> l] IN
         /\ y \in HandlerState
         /\ y.at = at /\ y.key = k /\ y.unpriced = u /\ y.limited = l
<1>1. [at |-> at, key |-> k, unpriced |-> u, cost |-> NoCost, limited |-> l] \in HandlerState
  BY HandlerBuilt
<1> QED
  BY <1>1

-------------------------------------------------------------------------------
(* Every handler is somewhere in ServeHTTP, whatever the others do. *)

LEMMA HandlersKept ==
  ASSUME HandlersTyped, NEW q \in Reservations, NEW x \in HandlerState,
         req' = [req EXCEPT ![q] = x]
  PROVE  /\ req' \in [Reservations -> HandlerState]
         /\ req'[q] = x
         /\ \A p \in Reservations \ {q} : req'[p] = req[p]
BY DEF HandlersTyped

(* What Goto and Finish do to the handlers. *)
LEMMA GotoMoves ==
  ASSUME HandlersTyped, NEW q \in Reservations,
         NEW label \in {"reserve", "call", "settle", "release", "record"},
         Goto(q, label)
  PROVE  /\ req' \in [Reservations -> HandlerState]
         /\ req'[q] = [req[q] EXCEPT !.at = label]
         /\ \A p \in Reservations \ {q} : req'[p] = req[p]
<1>1. req[q] \in HandlerState
  BY DEF HandlersTyped
<1>2. [req[q] EXCEPT !.at = label] \in HandlerState
  BY <1>1, HandlerMoved
<1>3. req' = [req EXCEPT ![q] = [req[q] EXCEPT !.at = label]]
  BY DEF Goto
<1> QED
  BY <1>2, <1>3, HandlersKept

LEMMA FinishMoves ==
  ASSUME HandlersTyped, NEW q \in Reservations, Finish(q)
  PROVE  /\ req' \in [Reservations -> HandlerState]
         /\ req'[q] = [Idle EXCEPT !.at = "done"]
         /\ \A p \in Reservations \ {q} : req'[p] = req[p]
<1>1. [Idle EXCEPT !.at = "done"] \in HandlerState
  BY DoneTyped
<1> QED
  BY <1>1, HandlersKept DEF Finish

LEMMA ReceiveMoves ==
  ASSUME HandlersTyped, NEW q \in Reservations, NEW k \in Keys, NEW u \in BOOLEAN,
         Receive(q, k, u)
  PROVE  /\ req' \in [Reservations -> HandlerState]
         /\ req'[q].at = IF u THEN "check" ELSE "reserve"
         /\ req'[q].key = k /\ req'[q].unpriced = u /\ req'[q].limited = HasLimit(k)
         /\ \A p \in Reservations \ {q} : req'[p] = req[p]
<1> DEFINE at == IF u THEN "check" ELSE "reserve"
           l == HasLimit(k)
           x == [at |-> at, key |-> k, unpriced |-> u, cost |-> NoCost, limited |-> l]
<1>1. at \in {"check", "reserve"} /\ l \in BOOLEAN
  BY DEF HasLimit
<1>2. req' = [req EXCEPT ![q] = x]
  BY DEF Receive
<1> HIDE DEF at, l
<1>3. x \in HandlerState /\ x.at = at /\ x.key = k /\ x.unpriced = u /\ x.limited = l
  BY <1>1, ReceivedTyped
<1> HIDE DEF x
<1>4. /\ req' \in [Reservations -> HandlerState]
      /\ req'[q] = x
      /\ \A p \in Reservations \ {q} : req'[p] = req[p]
  BY <1>2, <1>3, HandlersKept
<1> QED
  BY <1>3, <1>4 DEF at, l

LEMMA CompleteMoves ==
  ASSUME HandlersTyped, NEW q \in Reservations, NEW cost \in Amounts \cup {NoCost},
         Complete(q, cost)
  PROVE  /\ req' \in [Reservations -> HandlerState]
         /\ req'[q].at = "settle" /\ req'[q].key = req[q].key
         /\ req'[q].unpriced = req[q].unpriced /\ req'[q].limited = req[q].limited
         /\ req'[q].cost = cost
         /\ \A p \in Reservations \ {q} : req'[p] = req[p]
<1> DEFINE x == [[req[q] EXCEPT !.at = "settle"] EXCEPT !.cost = cost]
<1>1. req[q] \in HandlerState
  BY DEF HandlersTyped
<1>2. /\ x \in HandlerState
      /\ x.at = "settle" /\ x.key = req[q].key /\ x.unpriced = req[q].unpriced
      /\ x.limited = req[q].limited /\ x.cost = cost
  BY <1>1, HandlerCosted
<1>3. req' = [req EXCEPT ![q] = x]
  BY <1>1 DEF Complete, HandlersTyped
<1> HIDE DEF x
<1> QED
  BY <1>2, <1>3, HandlersKept

LEMMA CrashMoves ==
  ASSUME HandlersTyped, Crash
  PROVE  /\ req' \in [Reservations -> HandlerState]
         /\ \A p \in Reservations :
               IF req[p].at \in {"idle", "done"} THEN req'[p] = req[p]
               ELSE req'[p] = [Idle EXCEPT !.at = "done"]
<1>1. [Idle EXCEPT !.at = "done"] \in HandlerState
  BY DoneTyped
<1> QED
  BY <1>1 DEF Crash, HandlersTyped

LEMMA UpdateMoves ==
  ASSUME HandlersTyped, NEW k \in Keys, NEW limit, handleUpdateKey(k, limit)
  PROVE  /\ req' \in [Reservations -> HandlerState]
         /\ \A p \in Reservations :
               /\ req'[p].at = req[p].at /\ req'[p].key = req[p].key
               /\ req'[p].unpriced = req[p].unpriced /\ req'[p].cost = req[p].cost
               /\ req'[p].limited = (req[p].limited /\ ~(req[p].key = k /\ limit = NoLimit))
<1>1. ASSUME NEW p \in Reservations
      PROVE  /\ req'[p] \in HandlerState
             /\ req'[p].at = req[p].at /\ req'[p].key = req[p].key
             /\ req'[p].unpriced = req[p].unpriced /\ req'[p].cost = req[p].cost
             /\ req'[p].limited = (req[p].limited /\ ~(req[p].key = k /\ limit = NoLimit))
  <2> DEFINE y == [req[p] EXCEPT !.limited = FALSE]
  <2>1. req[p] \in HandlerState
    BY DEF HandlersTyped
  <2>2. /\ y \in HandlerState
        /\ y.at = req[p].at /\ y.key = req[p].key /\ y.unpriced = req[p].unpriced
        /\ y.limited = FALSE /\ y.cost = req[p].cost
    BY <2>1, HandlerUnlimited
  <2>3. req'[p] = IF req[p].key = k /\ limit = NoLimit THEN y ELSE req[p]
    BY DEF handleUpdateKey
  <2>4. req[p].limited \in BOOLEAN
    BY <2>1, HandlerFields
  <2> HIDE DEF y
  <2>5. CASE req[p].key = k /\ limit = NoLimit
    BY <2>2, <2>3, <2>5
  <2>6. CASE ~(req[p].key = k /\ limit = NoLimit)
    BY <2>1, <2>3, <2>4, <2>6
  <2> QED
    BY <2>5, <2>6
<1>2. req' = [p \in Reservations |-> req'[p]]
  BY DEF handleUpdateKey
<1> QED
  BY <1>1, <1>2

-------------------------------------------------------------------------------
(* The ledger inside the gateway. *)

LEMMA InitTyped == Init => HandlersTyped
BY IdleTyped, GatewayAssumption DEF Init, Ledger!Init, HandlersTyped

LEMMA ReserveTyped ==
  ASSUME HandlersTyped, NEW q \in Reservations, NEW est \in Amounts \cup {0},
         Reserve(q, est)
  PROVE  /\ req[q].key \in Keys /\ month \in 0 .. MaxMonth /\ month' = month
         /\ Ledger!Reserve(req[q].key, q, month, est, FALSE)
         /\ Goto(q, "call")
BY HandlerFields DEF HandlersTyped, Reserve, Ledger!Reserve

LEMMA SettleTyped ==
  ASSUME HandlersTyped, NEW q \in Reservations, Settle(q)
  PROVE  /\ CostOf(req[q]) \in Amounts \cup {0} /\ month' = month
         /\ Ledger!Settle(q, CostOf(req[q]))
         /\ Goto(q, "record")
BY HandlerFields DEF HandlersTyped, Settle, Ledger!Settle, CostOf

LEMMA NextTyped == HandlersTyped /\ [Next]_vars => HandlersTyped'
<1> SUFFICES ASSUME HandlersTyped, [Next]_vars PROVE HandlersTyped'
  OBVIOUS
<1> USE DEF HandlersTyped
<1>1. ASSUME NEW q \in Reservations, Handler(q) PROVE HandlersTyped'
  <2>1. CASE RefuseEarly(q)
    BY <2>1, FinishMoves DEF RefuseEarly, ledger
  <2>2. ASSUME NEW k \in Keys, NEW u \in BOOLEAN, Receive(q, k, u) PROVE HandlersTyped'
    BY <2>2, ReceiveMoves DEF Receive, ledger
  <2>3. CASE CheckBudget(q)
    BY <2>3, FinishMoves, GotoMoves DEF CheckBudget, ledger
  <2>4. ASSUME NEW est \in Amounts \cup {0}, Reserve(q, est) PROVE HandlersTyped'
    BY <2>4, ReserveTyped, GotoMoves
  <2>5. ASSUME NEW est \in Amounts \cup {0}, ReserveRefused(q, est) PROVE HandlersTyped'
    BY <2>5, FinishMoves DEF ReserveRefused, ledger
  <2>6. ASSUME NEW cost \in Amounts \cup {NoCost}, Complete(q, cost) PROVE HandlersTyped'
    BY <2>6, CompleteMoves DEF Complete, ledger
  <2>7. CASE UpstreamFails(q)
    BY <2>7, GotoMoves DEF UpstreamFails, ledger
  <2>8. CASE Release(q)
    BY <2>8, FinishMoves DEF Release, Ledger!Settle
  <2>9. CASE Settle(q)
    BY <2>9, SettleTyped, GotoMoves
  <2>10. CASE SettleFails(q)
    BY <2>10, FinishMoves, GotoMoves DEF SettleFails, ledger
  <2>11. ASSUME NEW id \in RecordIds, Record(q, id) PROVE HandlersTyped'
    BY <2>11, FinishMoves DEF Record, ledger
  <2>12. CASE RecordFails(q)
    BY <2>12, FinishMoves DEF RecordFails, ledger
  <2> QED
    BY <1>1, <2>1, <2>2, <2>3, <2>4, <2>5, <2>6, <2>7, <2>8, <2>9, <2>10, <2>11, <2>12
    DEF Handler
<1>2. CASE Background
  <2>1. CASE Crash
    BY <2>1, CrashMoves DEF Crash, ledger
  <2>2. ASSUME NEW B \in SUBSET Reservations, Reap(B) PROVE HandlersTyped'
    BY <2>2 DEF Reap, Ledger!Reap
  <2>3. ASSUME NEW B \in SUBSET records, Retain(B) PROVE HandlersTyped'
    BY <2>3 DEF Retain, ledger
  <2>4. ASSUME NEW m \in 0 .. MaxMonth, Tick(m) PROVE HandlersTyped'
    BY <2>4 DEF Tick, Ledger!TimePasses
  <2> QED
    BY <1>2, <2>1, <2>2, <2>3, <2>4 DEF Background
<1>3. CASE Admin
  <2>1. ASSUME NEW k \in Keys, NEW limit \in Limits \cup {NoLimit}, handleCreateKey(k, limit)
        PROVE  HandlersTyped'
    BY <2>1 DEF handleCreateKey, Ledger!CreateKey
  <2>2. ASSUME NEW k \in Keys, NEW limit \in Limits \cup {NoLimit}, handleUpdateKey(k, limit)
        PROVE  HandlersTyped'
    BY <2>2, UpdateMoves DEF handleUpdateKey, Ledger!UpdateLimit
  <2>3. ASSUME NEW k \in Keys, handleRevokeKey(k) PROVE HandlersTyped'
    BY <2>3 DEF handleRevokeKey, ledger
  <2> QED
    BY <1>3, <2>1, <2>2, <2>3 DEF Admin
<1>4. CASE UNCHANGED vars
  BY <1>4 DEF vars, ledger
<1> QED
  BY <1>1, <1>2, <1>3, <1>4 DEF Next

LEMMA NextIsLedger == HandlersTyped /\ [Next]_vars => [Ledger!Next]_(Ledger!vars)
<1> SUFFICES ASSUME HandlersTyped, [Next]_vars PROVE [Ledger!Next]_(Ledger!vars)
  OBVIOUS
<1>0. UNCHANGED ledger => UNCHANGED Ledger!vars
  BY DEF ledger, Ledger!vars
<1>1. ASSUME NEW q \in Reservations, Handler(q) PROVE [Ledger!Next]_(Ledger!vars)
  <2>1. ASSUME NEW est \in Amounts \cup {0}, Reserve(q, est) PROVE Ledger!Next
    <3>1. /\ req[q].key \in Keys /\ month \in Ledger!Months
          /\ Ledger!Reserve(req[q].key, q, month, est, FALSE)
      BY <2>1, ReserveTyped DEF Ledger!Months
    <3> QED
      BY <3>1 DEF Ledger!Next
  <2>2. CASE Release(q)
    <3>1. Ledger!Settle(q, 0)
      BY <2>2 DEF Release
    <3> QED
      BY <3>1 DEF Ledger!Next
  <2>3. CASE Settle(q)
    <3>1. CostOf(req[q]) \in Amounts \cup {0} /\ Ledger!Settle(q, CostOf(req[q]))
      BY <2>3, SettleTyped
    <3> QED
      BY <3>1 DEF Ledger!Next
  <2>4. ASSUME NEW est \in Amounts \cup {0}, ReserveRefused(q, est) PROVE UNCHANGED ledger
    BY <2>4 DEF ReserveRefused
  <2>5. ASSUME NEW k \in Keys, NEW u \in BOOLEAN, Receive(q, k, u) PROVE UNCHANGED ledger
    BY <2>5 DEF Receive
  <2>6. ASSUME NEW cost \in Amounts \cup {NoCost}, Complete(q, cost) PROVE UNCHANGED ledger
    BY <2>6 DEF Complete
  <2>7. ASSUME NEW id \in RecordIds, Record(q, id) PROVE UNCHANGED ledger
    BY <2>7 DEF Record
  <2>8. ASSUME \/ RefuseEarly(q) \/ CheckBudget(q) \/ UpstreamFails(q) \/ SettleFails(q)
               \/ RecordFails(q)
        PROVE  UNCHANGED ledger
    BY <2>8 DEF RefuseEarly, CheckBudget, UpstreamFails, SettleFails, RecordFails
  <2> QED
    BY <1>0, <1>1, <2>1, <2>2, <2>3, <2>4, <2>5, <2>6, <2>7, <2>8 DEF Handler
<1>2. CASE Background
  <2>1. CASE Crash
    BY <1>0, <2>1 DEF Crash
  <2>2. ASSUME NEW B \in SUBSET Reservations, Reap(B) PROVE Ledger!Next
    BY <2>2 DEF Reap, Ledger!Next
  <2>3. ASSUME NEW B \in SUBSET records, Retain(B) PROVE UNCHANGED ledger
    BY <2>3 DEF Retain
  <2>4. ASSUME NEW m \in 0 .. MaxMonth, Tick(m) PROVE Ledger!Next
    <3> DEFINE D == UNION {Ledger!Pending(k) : k \in Keys}
    <3>1. D \in SUBSET Reservations
      BY DEF Ledger!Pending
    <3>2. Ledger!TimePasses(m, D)
      BY <2>4 DEF Tick
    <3> HIDE DEF D
    <3> QED
      BY <3>1, <3>2 DEF Ledger!Next, Ledger!Months
  <2> QED
    BY <1>0, <1>2, <2>1, <2>2, <2>3, <2>4 DEF Background
<1>3. CASE Admin
  <2>1. ASSUME NEW k \in Keys, NEW limit \in Limits \cup {NoLimit}, handleCreateKey(k, limit)
        PROVE  Ledger!Next
    <3>1. Ledger!CreateKey(k, limit, month) /\ month \in Ledger!Months
          /\ limit \in Ledger!LimitValues
      BY <2>1 DEF handleCreateKey, Ledger!Months, Ledger!LimitValues, HandlersTyped
    <3> QED
      BY <3>1 DEF Ledger!Next
  <2>2. ASSUME NEW k \in Keys, NEW limit \in Limits \cup {NoLimit}, handleUpdateKey(k, limit)
        PROVE  Ledger!Next
    <3>1. Ledger!UpdateLimit(k, limit) /\ limit \in Ledger!LimitValues
      BY <2>2 DEF handleUpdateKey, Ledger!LimitValues
    <3> QED
      BY <3>1 DEF Ledger!Next
  <2>3. ASSUME NEW k \in Keys, handleRevokeKey(k) PROVE UNCHANGED ledger
    BY <2>3 DEF handleRevokeKey
  <2> QED
    BY <1>0, <1>3, <2>1, <2>2, <2>3 DEF Admin
<1>4. CASE UNCHANGED vars
  BY <1>0, <1>4 DEF vars
<1> QED
  BY <1>1, <1>2, <1>3, <1>4 DEF Next

(* The ledger of the gateway is the ledger: whatever handlers, reaper,      *)
(* retention, administrator and crashes do, its balance and its log change  *)
(* only by reserves, settles, sweeps and the administrator's updates.       *)
THEOREM GatewayKeepsLedger == Spec => Ledger!Spec
<1>1. Init => Ledger!Init
  BY DEF Init
<1>2. HandlersTyped /\ [Next]_vars => HandlersTyped'
  BY NextTyped
<1>3. HandlersTyped /\ [Next]_vars => [Ledger!Next]_(Ledger!vars)
  BY NextIsLedger
<1> QED
  BY <1>1, <1>2, <1>3, InitTyped, PTL DEF Spec, Ledger!Spec

-------------------------------------------------------------------------------
(* What is proved of the ledger therefore holds inside the gateway. *)

Proved == INSTANCE BudgetLedgerProofs WITH Amounts <- Amounts \cup {0}

LEMMA SameSums ==
  ASSUME NEW S, NEW f
  PROVE  Ledger!Total(S, f) = Proved!Total(S, f) /\ Total(S, f) = Proved!Total(S, f)
BY DEF Proved!Total, Proved!Units, Proved!UnitsOf, Proved!Cardinality,
       Ledger!Total, Ledger!Units, Ledger!UnitsOf, Ledger!Cardinality,
       Total, Units, UnitsOf, Cardinality

LEMMA SameNext == [Ledger!Next]_(Ledger!vars) => [Proved!Next]_(Proved!vars)
<1>1. \A k, r, t, est, due : Ledger!Reserve(k, r, t, est, due)
                                => Proved!Reserve(k, r, t, est, due)
  BY DEF Ledger!Reserve, Proved!Reserve, Ledger!Affordable, Proved!Affordable,
         Ledger!SpentAt, Proved!SpentAt, Ledger!WindowAt, Proved!WindowAt,
         Ledger!Rotated, Proved!Rotated
<1>2. \A r, actual : Ledger!Settle(r, actual) => Proved!Settle(r, actual)
  BY DEF Ledger!Settle, Proved!Settle, Ledger!Released, Proved!Released,
         Ledger!Charged, Proved!Charged
<1>3. ASSUME NEW B, Ledger!Reap(B) PROVE Proved!Reap(B)
  BY <1>3, SameSums DEF Ledger!Reap, Proved!Reap, Ledger!Reapable, Proved!Reapable,
                  Ledger!ClaimsOf, Proved!ClaimsOf, Ledger!Estimates, Proved!Estimates
<1>4. \A k, limit, t : Ledger!CreateKey(k, limit, t) => Proved!CreateKey(k, limit, t)
  BY DEF Ledger!CreateKey, Proved!CreateKey
<1>5. \A k, limit : Ledger!UpdateLimit(k, limit) => Proved!UpdateLimit(k, limit)
  BY DEF Ledger!UpdateLimit, Proved!UpdateLimit
<1>6. \A m, D : Ledger!TimePasses(m, D) => Proved!TimePasses(m, D)
  BY DEF Ledger!TimePasses, Proved!TimePasses
<1>7. Ledger!Months = Proved!Months /\ Ledger!LimitValues = Proved!LimitValues
  BY DEF Ledger!Months, Proved!Months, Ledger!LimitValues, Proved!LimitValues
<1>8. UNCHANGED Ledger!vars => UNCHANGED Proved!vars
  BY DEF Ledger!vars, Proved!vars
<1>9. Ledger!Next => Proved!Next
  BY <1>1, <1>2, <1>3, <1>4, <1>5, <1>6, <1>7 DEF Ledger!Next, Proved!Next
<1> QED
  BY <1>8, <1>9

(* The facts about the ledger that the rest of this module needs. *)
LedgerFacts == Ledger!TypeOK /\ Ledger!BalanceMatchesLog

LEMMA LedgerHolds == Spec => []LedgerFacts
<1>1. /\ Keys # {} /\ Proved!IsFiniteSet(Reservations) /\ Amounts \cup {0} \subseteq Nat
      /\ Limits \subseteq Nat /\ NoLimit \notin Nat /\ MaxMonth \in Nat
  BY GatewayAssumption DEF IsFiniteSet, Proved!IsFiniteSet
<1>2. Proved!Init => Proved!LedgerInv
  BY <1>1, Proved!InitLedger
<1>3. Proved!LedgerInv /\ [Proved!Next]_(Proved!vars) => Proved!LedgerInv'
  BY <1>1, Proved!NextLedger
<1>4. Ledger!Init => Proved!Init
  BY DEF Ledger!Init, Proved!Init, Ledger!AbsentRow, Proved!AbsentRow
<1>5. [Ledger!Next]_(Ledger!vars) => [Proved!Next]_(Proved!vars)
  BY SameNext
<1>6. Ledger!Spec => Ledger!Init /\ [][Ledger!Next]_(Ledger!vars)
  BY DEF Ledger!Spec
<1>7. ASSUME Proved!LedgerInv PROVE LedgerFacts
  <2>1. Proved!TypeOK /\ Proved!BalanceMatchesLog
    BY <1>7 DEF Proved!LedgerInv
  <2>2. Ledger!TypeOK
    BY <2>1 DEF Proved!TypeOK, Ledger!TypeOK, Proved!BudgetRow, Ledger!BudgetRow,
                Proved!Months, Ledger!Months, Proved!LimitValues, Ledger!LimitValues,
                Proved!ReservationRow, Ledger!ReservationRow
  <2>3. /\ \A k, w : Ledger!SettledIn(k, w) = Proved!SettledIn(k, w)
        /\ \A k : Ledger!Pending(k) = Proved!Pending(k)
    BY DEF Ledger!SettledIn, Proved!SettledIn, Ledger!Pending, Proved!Pending
  <2>4. Ledger!Estimates = Proved!Estimates /\ Ledger!Actuals = Proved!Actuals
    BY DEF Ledger!Estimates, Proved!Estimates, Ledger!Actuals, Proved!Actuals
  <2>5. \A k : Ledger!LogSpent(k) = Proved!LogSpent(k)
               /\ Ledger!LogReserved(k) = Proved!LogReserved(k)
    BY <2>3, <2>4, SameSums
    DEF Ledger!LogSpent, Proved!LogSpent, Ledger!LogReserved, Proved!LogReserved
  <2>6. Ledger!BalanceMatchesLog
    BY <2>1, <2>5 DEF Ledger!BalanceMatchesLog, Proved!BalanceMatchesLog
  <2> QED
    BY <2>2, <2>6 DEF LedgerFacts
<1> QED
  BY <1>2, <1>3, <1>4, <1>5, <1>6, <1>7, GatewayKeepsLedger, PTL

-------------------------------------------------------------------------------
(* The inductive step, action by action.  Only the handler q of a step, its *)
(* reservation and a record of it are disturbed.                            *)

(* What the others need to stay as they are. *)
LEMMA LedgerRows ==
  ASSUME LedgerFacts, NEW r \in Reservations
  PROVE  /\ res[r].state \in {"none", "pending", "settled", "expired"}
         /\ res[r].key \in Keys /\ res[r].window \in 0 .. MaxMonth
         /\ res[r].actual \in Nat
BY DEF LedgerFacts, Ledger!TypeOK, Ledger!ReservationRow, Ledger!Months

LEMMA ReserveEffect ==
  ASSUME LedgerFacts, NEW k \in Keys, NEW q \in Reservations, NEW t, NEW est,
         Ledger!Reserve(k, q, t, est, FALSE)
  PROVE  /\ res[q].state = "none" /\ res'[q].state = "pending" /\ res'[q].key = k
         /\ \A p \in Reservations \ {q} : res'[p] = res[p]
         /\ keys' = keys /\ \A j \in Keys : budget'[j].limit = budget[j].limit
<1> USE DEF LedgerFacts, Ledger!TypeOK
<1>1. res' = [res EXCEPT ![q] =
                  [state |-> "pending", key |-> k, window |-> Ledger!WindowAt(k, t),
                   est |-> est, actual |-> 0, late |-> FALSE, due |-> FALSE]]
  BY DEF Ledger!Reserve
<1>2. res'[q].state = "pending" /\ res'[q].key = k
      /\ \A p \in Reservations \ {q} : res'[p] = res[p]
  BY <1>1
<1>3. budget' = [budget EXCEPT ![k].spent = Ledger!SpentAt(k, t),
                               ![k].window = Ledger!WindowAt(k, t),
                               ![k].reserved = @ + est]
  BY DEF Ledger!Reserve
<1>4. \A j \in Keys : budget'[j].limit = budget[j].limit
  BY <1>3 DEF Ledger!BudgetRow
<1> QED
  BY <1>2, <1>4 DEF Ledger!Reserve

LEMMA SettleEffect ==
  ASSUME LedgerFacts, NEW q \in Reservations, NEW actual, Ledger!Settle(q, actual)
  PROVE  /\ res'[q].state = "settled" /\ res'[q].key = res[q].key
         /\ res'[q].window = res[q].window /\ res'[q].actual = actual
         /\ \A p \in Reservations \ {q} : res'[p] = res[p]
         /\ keys' = keys /\ \A j \in Keys : budget'[j].limit = budget[j].limit
<1> USE DEF LedgerFacts, Ledger!TypeOK
<1> DEFINE late == (res[q].state = "expired")
<1>1. res' = [res EXCEPT ![q].state = "settled", ![q].actual = actual, ![q].late = late]
  BY DEF Ledger!Settle
<1> HIDE DEF late
<1>2. /\ res'[q].state = "settled" /\ res'[q].key = res[q].key
      /\ res'[q].window = res[q].window /\ res'[q].actual = actual
      /\ \A p \in Reservations \ {q} : res'[p] = res[p]
  BY <1>1 DEF Ledger!ReservationRow
<1>3. budget' = [budget EXCEPT ![res[q].key].reserved = @ - Ledger!Released(q),
                               ![res[q].key].spent = @ + Ledger!Charged(q, actual)]
  BY DEF Ledger!Settle
<1>4. \A j \in Keys : budget'[j].limit = budget[j].limit
  BY <1>3 DEF Ledger!BudgetRow
<1> QED
  BY <1>2, <1>4 DEF Ledger!Settle

(* A step of the handler q that writes no record. *)
LEMMA HandlerStep ==
  ASSUME GatewayInv, LedgerFacts', HandlersTyped', NEW q \in Reservations,
         req[q].at # "done",
         \A p \in Reservations \ {q} : req'[p] = req[p] /\ res'[p] = res[p],
         keys' = keys, \A j \in Keys : budget'[j].limit = budget[j].limit,
         records' = records, revoked' = revoked,
         spotless' \in BOOLEAN, spotless' => spotless,
         HandlerInv(q)',
         req'[q].limited => HasLimit(req'[q].key),
         (req'[q].unpriced /\ req'[q].at # "check") => ~req'[q].limited,
         spotless' => /\ req'[q].at # "release"
                      /\ req'[q].at = "record" <=> res'[q].state = "settled"
  PROVE  GatewayInv'
<1> USE DEF GatewayInv
<1>1. \A u \in records : u.res \in Reservations \ {q}
  BY DEF TypeOK, RecordInv, Row
<1>2. \A u \in records : RecordInv(u)'
  BY <1>1 DEF RecordInv
<1>3. \A p \in Reservations : req'[p].key \in Keys
  BY HandlerFields DEF HandlersTyped
<1>4. \A k \in Keys : HasLimit(k)' = HasLimit(k)
  BY DEF HasLimit
<1>5. \A p \in Reservations : LimitInv(p)'
  <2> SUFFICES ASSUME NEW p \in Reservations PROVE LimitInv(p)'
    OBVIOUS
  <2>1. req[p].key \in Keys /\ LimitInv(p)
    BY HandlerFields DEF TypeOK, HandlersTyped
  <2>2. CASE p = q
    BY <1>3, <1>4, <2>1, <2>2 DEF LimitInv
  <2>3. CASE p # q
    BY <1>3, <1>4, <2>1, <2>3 DEF LimitInv
  <2> QED
    BY <2>2, <2>3
<1>6. \A p \in Reservations : HandlerInv(p)'
  BY DEF HandlerInv, CostOf
<1>7. spotless' => \A p \in Reservations : SpotlessInv(p)'
  BY <1>1 DEF SpotlessInv
<1>8. TypeOK'
  BY DEF TypeOK, LedgerFacts
<1> QED
  BY <1>2, <1>5, <1>6, <1>7, <1>8

(* A handler that returns leaves nothing behind that could be wrong. *)
LEMMA FinishKeeps ==
  ASSUME GatewayInv, LedgerFacts, LedgerFacts', HandlersTyped', NEW q \in Reservations,
         req[q].at # "done", Finish(q), UNCHANGED <<keys, records, revoked>>,
         \A p \in Reservations \ {q} : res'[p] = res[p],
         \A j \in Keys : budget'[j].limit = budget[j].limit,
         spotless' \in BOOLEAN, spotless' => spotless,
         spotless' => res'[q].state # "settled"
  PROVE  GatewayInv'
<1>1. HandlersTyped
  BY DEF GatewayInv, TypeOK
<1>2. /\ req'[q] = [Idle EXCEPT !.at = "done"]
      /\ \A p \in Reservations \ {q} : req'[p] = req[p]
  BY <1>1, FinishMoves
<1>3. req'[q].at = "done" /\ req'[q].unpriced = FALSE /\ req'[q].limited = FALSE
  BY <1>2, DoneTyped
<1>4. HandlerInv(q)'
  BY <1>3 DEF HandlerInv
<1> QED
  BY <1>2, <1>3, <1>4, HandlerStep

(* One that goes on, over an unchanged ledger. *)
LEMMA GotoKeeps ==
  ASSUME GatewayInv, LedgerFacts', HandlersTyped', NEW q \in Reservations,
         NEW label \in {"reserve", "release", "record"},
         req[q].at # "done", Goto(q, label), UNCHANGED <<ledger, records, revoked>>,
         spotless' \in BOOLEAN, spotless' => spotless /\ label = "reserve",
         label = "reserve" => req[q].at = "check" /\ ~req[q].limited,
         label = "release" => req[q].at = "call",
         label = "record" => req[q].at = "settle"
  PROVE  GatewayInv'
<1>1. HandlersTyped /\ req[q] \in HandlerState
  BY DEF GatewayInv, TypeOK, HandlersTyped
<1>2. /\ req'[q] = [req[q] EXCEPT !.at = label]
      /\ \A p \in Reservations \ {q} : req'[p] = req[p]
  BY <1>1, GotoMoves
<1>3. /\ req'[q].at = label /\ req'[q].key = req[q].key
      /\ req'[q].unpriced = req[q].unpriced /\ req'[q].limited = req[q].limited
      /\ req'[q].cost = req[q].cost
  BY <1>1, <1>2, HandlerMoved
<1>4. HandlerInv(q) /\ LimitInv(q)
  BY DEF GatewayInv
<1>5. res' = res /\ keys' = keys /\ budget' = budget
  BY DEF ledger
<1>6. HandlerInv(q)'
  BY <1>3, <1>4, <1>5 DEF HandlerInv
<1>7. /\ req'[q].limited => HasLimit(req'[q].key)
      /\ (req'[q].unpriced /\ req'[q].at # "check") => ~req'[q].limited
  BY <1>3, <1>4 DEF LimitInv
<1>8. spotless' => /\ req'[q].at # "release"
                   /\ req'[q].at = "record" <=> res'[q].state = "settled"
  BY <1>3, <1>4, <1>5 DEF HandlerInv
<1> QED
  BY <1>2, <1>3, <1>5, <1>6, <1>7, <1>8, HandlerStep

LEMMA ReceiveKeeps ==
  ASSUME GatewayInv, LedgerFacts', HandlersTyped', NEW q \in Reservations,
         NEW k \in Keys, NEW u \in BOOLEAN, Receive(q, k, u)
  PROVE  GatewayInv'
<1>1. HandlersTyped /\ spotless \in BOOLEAN
  BY DEF GatewayInv, TypeOK
<1>2. /\ req'[q].at = IF u THEN "check" ELSE "reserve"
      /\ req'[q].key = k /\ req'[q].unpriced = u /\ req'[q].limited = HasLimit(k)
      /\ \A p \in Reservations \ {q} : req'[p] = req[p]
  BY <1>1, ReceiveMoves
<1>3. req[q].at = "idle" /\ res' = res /\ keys' = keys /\ budget' = budget
      /\ records' = records /\ revoked' = revoked /\ spotless' = spotless
  BY DEF Receive, ledger
<1>4. HandlerInv(q)
  BY DEF GatewayInv
<1>5. res[q].state = "none"
  BY <1>3, <1>4 DEF HandlerInv
<1>6. HandlerInv(q)'
  BY <1>2, <1>3, <1>5 DEF HandlerInv
<1>7. req'[q].limited => HasLimit(req'[q].key)
  BY <1>2
<1>8. (req'[q].unpriced /\ req'[q].at # "check") => ~req'[q].limited
  BY <1>2
<1>9. req'[q].at # "release" /\ (req'[q].at = "record" <=> res'[q].state = "settled")
  BY <1>2, <1>3, <1>5
<1>10. \A p \in Reservations \ {q} : req'[p] = req[p] /\ res'[p] = res[p]
  BY <1>2, <1>3
<1>11. \A j \in Keys : budget'[j].limit = budget[j].limit
  BY <1>3
<1> QED
  BY <1>1, <1>3, <1>6, <1>7, <1>8, <1>9, <1>10, <1>11, HandlerStep

LEMMA CheckKeeps ==
  ASSUME GatewayInv, LedgerFacts, LedgerFacts', HandlersTyped', NEW q \in Reservations,
         CheckBudget(q)
  PROVE  GatewayInv'
<1>1. req[q].at = "check" /\ UNCHANGED <<ledger, records, revoked, spotless>>
      /\ spotless \in BOOLEAN
  BY DEF CheckBudget, GatewayInv, TypeOK
<1>2. HandlerInv(q) /\ LimitInv(q)
  BY DEF GatewayInv
<1>3. CASE Finish(q)
  BY <1>1, <1>2, <1>3, FinishKeeps DEF ledger, HandlerInv
<1>4. CASE Goto(q, "reserve") /\ ~KeyHasBudget(req[q].key)
  <2>1. ~req[q].limited
    BY <1>2, <1>4 DEF LimitInv, KeyHasBudget
  <2> QED
    BY <1>1, <1>4, <2>1, GotoKeeps
<1> QED
  BY <1>3, <1>4 DEF CheckBudget

LEMMA ReserveKeeps ==
  ASSUME GatewayInv, LedgerFacts, LedgerFacts', HandlersTyped', NEW q \in Reservations,
         NEW est \in Amounts \cup {0}, Reserve(q, est)
  PROVE  GatewayInv'
<1>1. HandlersTyped /\ req[q] \in HandlerState /\ spotless \in BOOLEAN
  BY DEF GatewayInv, TypeOK, HandlersTyped
<1>2. req[q].at = "reserve" /\ UNCHANGED <<records, revoked, spotless>>
  BY DEF Reserve
<1>3. req[q].key \in Keys /\ Goto(q, "call")
      /\ Ledger!Reserve(req[q].key, q, month, est, FALSE)
  BY <1>1, ReserveTyped
<1>4. /\ res'[q].state = "pending" /\ res'[q].key = req[q].key
      /\ \A p \in Reservations \ {q} : res'[p] = res[p]
      /\ keys' = keys /\ \A j \in Keys : budget'[j].limit = budget[j].limit
  BY <1>3, ReserveEffect
<1>5. /\ req'[q] = [req[q] EXCEPT !.at = "call"]
      /\ \A p \in Reservations \ {q} : req'[p] = req[p]
  BY <1>1, <1>3, GotoMoves
<1>6. /\ req'[q].at = "call" /\ req'[q].key = req[q].key
      /\ req'[q].unpriced = req[q].unpriced /\ req'[q].limited = req[q].limited
  BY <1>1, <1>5, HandlerMoved
<1>7. LimitInv(q)
  BY DEF GatewayInv
<1>8. HandlerInv(q)'
  BY <1>4, <1>6 DEF HandlerInv
<1>9. /\ req'[q].limited => HasLimit(req'[q].key)
      /\ (req'[q].unpriced /\ req'[q].at # "check") => ~req'[q].limited
  BY <1>2, <1>6, <1>7 DEF LimitInv
<1>10. req'[q].at # "release" /\ (req'[q].at = "record" <=> res'[q].state = "settled")
  BY <1>4, <1>6
<1> QED
  BY <1>1, <1>2, <1>4, <1>5, <1>8, <1>9, <1>10, HandlerStep

LEMMA CompleteKeeps ==
  ASSUME GatewayInv, LedgerFacts', HandlersTyped', NEW q \in Reservations,
         NEW cost \in Amounts \cup {NoCost}, Complete(q, cost)
  PROVE  GatewayInv'
<1>1. HandlersTyped /\ spotless \in BOOLEAN
  BY DEF GatewayInv, TypeOK
<1>2. /\ req'[q].at = "settle" /\ req'[q].key = req[q].key
      /\ req'[q].unpriced = req[q].unpriced /\ req'[q].limited = req[q].limited
      /\ \A p \in Reservations \ {q} : req'[p] = req[p]
  BY <1>1, CompleteMoves
<1>3. req[q].at = "call" /\ res' = res /\ keys' = keys /\ budget' = budget
      /\ records' = records /\ revoked' = revoked /\ spotless' = spotless
  BY DEF Complete, ledger
<1>4. HandlerInv(q) /\ LimitInv(q)
  BY DEF GatewayInv
<1>5. res'[q].state # "settled"
  BY <1>3, <1>4 DEF HandlerInv
<1>6. HandlerInv(q)'
  BY <1>2, <1>3, <1>4, <1>5 DEF HandlerInv
<1>7. /\ req'[q].limited => HasLimit(req'[q].key)
      /\ (req'[q].unpriced /\ req'[q].at # "check") => ~req'[q].limited
  BY <1>2, <1>3, <1>4 DEF LimitInv
<1>8. req'[q].at # "release" /\ (req'[q].at = "record" <=> res'[q].state = "settled")
  BY <1>2, <1>5
<1>9. \A p \in Reservations \ {q} : req'[p] = req[p] /\ res'[p] = res[p]
  BY <1>2, <1>3
<1>10. \A j \in Keys : budget'[j].limit = budget[j].limit
  BY <1>3
<1> QED
  BY <1>1, <1>3, <1>6, <1>7, <1>8, <1>9, <1>10, HandlerStep

LEMMA SettleKeeps ==
  ASSUME GatewayInv, LedgerFacts, LedgerFacts', HandlersTyped', NEW q \in Reservations,
         Settle(q)
  PROVE  GatewayInv'
<1>1. HandlersTyped /\ req[q] \in HandlerState /\ spotless \in BOOLEAN
  BY DEF GatewayInv, TypeOK, HandlersTyped
<1>2. req[q].at = "settle" /\ UNCHANGED <<records, revoked, spotless>>
  BY DEF Settle
<1>3. Goto(q, "record") /\ Ledger!Settle(q, CostOf(req[q]))
  BY <1>1, SettleTyped
<1>4. /\ res'[q].state = "settled" /\ res'[q].key = res[q].key
      /\ res'[q].actual = CostOf(req[q])
      /\ \A p \in Reservations \ {q} : res'[p] = res[p]
      /\ keys' = keys /\ \A j \in Keys : budget'[j].limit = budget[j].limit
  BY <1>3, SettleEffect
<1>5. /\ req'[q] = [req[q] EXCEPT !.at = "record"]
      /\ \A p \in Reservations \ {q} : req'[p] = req[p]
  BY <1>1, <1>3, GotoMoves
<1>6. /\ req'[q].at = "record" /\ req'[q].key = req[q].key
      /\ req'[q].unpriced = req[q].unpriced /\ req'[q].limited = req[q].limited
      /\ req'[q].cost = req[q].cost
  BY <1>1, <1>5, HandlerMoved
<1>7. HandlerInv(q) /\ LimitInv(q)
  BY DEF GatewayInv
<1>8. HandlerInv(q)'
  BY <1>2, <1>4, <1>6, <1>7 DEF HandlerInv, CostOf
<1>9. /\ req'[q].limited => HasLimit(req'[q].key)
      /\ (req'[q].unpriced /\ req'[q].at # "check") => ~req'[q].limited
  BY <1>2, <1>6, <1>7 DEF LimitInv
<1>10. req'[q].at # "release" /\ (req'[q].at = "record" <=> res'[q].state = "settled")
  BY <1>4, <1>6
<1> QED
  BY <1>1, <1>2, <1>4, <1>5, <1>8, <1>9, <1>10, HandlerStep

(* A release follows a failed call, which a spotless history has none of. *)
LEMMA ReleaseKeeps ==
  ASSUME GatewayInv, LedgerFacts, LedgerFacts', HandlersTyped', NEW q \in Reservations,
         Release(q)
  PROVE  GatewayInv'
<1>1. req[q].at = "release" /\ Finish(q) /\ UNCHANGED <<records, revoked, spotless>>
      /\ Ledger!Settle(q, 0) /\ spotless \in BOOLEAN
  BY DEF Release, GatewayInv, TypeOK
<1>2. /\ \A p \in Reservations \ {q} : res'[p] = res[p]
      /\ keys' = keys /\ \A j \in Keys : budget'[j].limit = budget[j].limit
  BY <1>1, SettleEffect
<1>3. spotless = FALSE
  BY <1>1 DEF GatewayInv, SpotlessInv
<1> QED
  BY <1>1, <1>2, <1>3, FinishKeeps

(* The new row is the only one of its reservation and of its id. *)
LEMMA RecordKeeps ==
  ASSUME GatewayInv, LedgerFacts, LedgerFacts', HandlersTyped', NEW q \in Reservations,
         NEW id \in RecordIds, Record(q, id)
  PROVE  GatewayInv'
<1> USE DEF GatewayInv
<1>0. PICK row : row = RecordOf(q, id)
  OBVIOUS
<1>1. HandlersTyped /\ req[q] \in HandlerState /\ spotless \in BOOLEAN
  BY DEF TypeOK, HandlersTyped
<1>2. req[q].at = "record" /\ Finish(q) /\ records' = records \cup {row}
      /\ id \notin IdsOf(records)
  BY <1>0 DEF Record, WriteUsageRecord, FreshId
<1>3. res' = res /\ keys' = keys /\ budget' = budget /\ revoked' = revoked
      /\ spotless' = spotless
  BY DEF Record, ledger
<1>4. /\ req'[q] = [Idle EXCEPT !.at = "done"]
      /\ \A p \in Reservations \ {q} : req'[p] = req[p]
  BY <1>1, <1>2, FinishMoves
<1>5. req'[q].at = "done" /\ req'[q].unpriced = FALSE /\ req'[q].limited = FALSE
  BY <1>4, DoneTyped
<1>6. HandlerInv(q) /\ LimitInv(q)
  OBVIOUS
<1>7. \A u \in records : u.res \in Reservations \ {q} /\ u.id # id
  BY <1>2 DEF TypeOK, RecordInv, Row, IdsOf
<1>8. /\ row \in Row
      /\ row.id = id /\ row.res = q /\ row.key = req[q].key
      /\ row.window = res[q].window /\ row.cost = req[q].cost
  BY <1>0, <1>1, LedgerRows, HandlerFields DEF RecordOf, Row, HandlersTyped
<1>9. RecordInv(row)'
  BY <1>2, <1>3, <1>5, <1>6, <1>8 DEF RecordInv, HandlerInv, CostOf
<1>10. \A u \in records' : RecordInv(u)'
  BY <1>2, <1>3, <1>4, <1>7, <1>9 DEF RecordInv
<1>11. \A p \in Reservations : HandlerInv(p)'
  BY <1>3, <1>4, <1>5 DEF HandlerInv, CostOf
<1>12. \A p \in Reservations : LimitInv(p)'
  BY <1>3, <1>4, <1>5 DEF LimitInv, HasLimit
<1>13. TypeOK'
  <2>1. records' \subseteq Row
    BY <1>2, <1>8 DEF TypeOK
  <2>2. \A u, v \in records' : u.id = v.id \/ u.res = v.res => u = v
    BY <1>2, <1>7, <1>8 DEF TypeOK
  <2> QED
    BY <1>1, <1>3, <2>1, <2>2 DEF TypeOK, LedgerFacts
<1>14. spotless' => \A p \in Reservations : SpotlessInv(p)'
  <2> SUFFICES ASSUME spotless', NEW p \in Reservations PROVE SpotlessInv(p)'
    OBVIOUS
  <2>1. SpotlessInv(p) /\ SpotlessInv(q)
    BY <1>3
  <2>2. CASE p = q
    BY <1>2, <1>3, <1>5, <1>7, <1>8, <2>1, <2>2 DEF SpotlessInv
  <2>3. CASE p # q
    BY <1>2, <1>3, <1>4, <1>8, <2>1, <2>3 DEF SpotlessInv
  <2> QED
    BY <2>2, <2>3
<1> QED
  BY <1>10, <1>11, <1>12, <1>13, <1>14

(* A crash ends every handler, and the history is spotless no more. *)
LEMMA CrashKeeps ==
  ASSUME GatewayInv, LedgerFacts', HandlersTyped', Crash
  PROVE  GatewayInv'
<1> USE DEF GatewayInv
<1>1. HandlersTyped
  BY DEF TypeOK
<1>2. /\ res' = res /\ keys' = keys /\ budget' = budget /\ records' = records
      /\ revoked' = revoked /\ spotless' = FALSE
  BY DEF Crash, Fault, ledger
<1>3. \A p \in Reservations :
         \/ req'[p] = req[p]
         \/ req'[p] = [Idle EXCEPT !.at = "done"] /\ req[p].at # "done"
  BY <1>1, CrashMoves
<1>4. \A p \in Reservations :
         \/ req'[p] = req[p]
         \/ /\ req'[p].at = "done" /\ req'[p].unpriced = FALSE /\ req'[p].limited = FALSE
            /\ req[p].at # "done"
  BY <1>3, DoneTyped
<1>5. \A p \in Reservations : HandlerInv(p)' /\ LimitInv(p)'
  BY <1>2, <1>4 DEF HandlerInv, LimitInv, HasLimit, CostOf
<1>6. \A u \in records : RecordInv(u)'
  BY <1>2, <1>4 DEF RecordInv, TypeOK, Row
<1>7. TypeOK'
  BY <1>2 DEF TypeOK, LedgerFacts
<1> QED
  BY <1>2, <1>5, <1>6, <1>7

(* Steps that leave handlers and records alone and settle nothing. *)
LEMMA LedgerStep ==
  ASSUME GatewayInv, LedgerFacts', HandlersTyped',
         UNCHANGED <<keys, records, revoked, req, spotless>>,
         \A j \in Keys : budget'[j].limit = budget[j].limit,
         \A r \in Reservations :
            /\ res'[r].key = res[r].key /\ res'[r].window = res[r].window
            /\ res'[r].actual = res[r].actual
            /\ res'[r].state = "none" <=> res[r].state = "none"
            /\ res'[r].state = "settled" <=> res[r].state = "settled"
  PROVE  GatewayInv'
<1> USE DEF GatewayInv
<1>1. \A p \in Reservations : req[p].key \in Keys
  BY HandlerFields DEF TypeOK, HandlersTyped
<1>2. \A p \in Reservations : HandlerInv(p)' /\ LimitInv(p)'
  BY <1>1 DEF HandlerInv, LimitInv, HasLimit, CostOf
<1>3. \A u \in records : RecordInv(u)'
  BY DEF RecordInv, TypeOK, Row
<1>4. spotless' => \A p \in Reservations : SpotlessInv(p)'
  BY DEF SpotlessInv
<1>5. TypeOK'
  BY DEF TypeOK, LedgerFacts
<1> QED
  BY <1>2, <1>3, <1>4, <1>5

LEMMA ReapKeeps ==
  ASSUME GatewayInv, LedgerFacts, LedgerFacts', HandlersTyped',
         NEW B \in SUBSET Reservations, Reap(B)
  PROVE  GatewayInv'
<1> USE DEF LedgerFacts, Ledger!TypeOK
<1>1. UNCHANGED <<keys, records, revoked, req, spotless>>
  BY DEF Reap, Ledger!Reap
<1>2. \A j \in Keys : budget'[j].limit = budget[j].limit
  BY DEF Reap, Ledger!Reap, Ledger!BudgetRow
<1>3. ASSUME NEW r \in Reservations
      PROVE  /\ res'[r].key = res[r].key /\ res'[r].window = res[r].window
             /\ res'[r].actual = res[r].actual
             /\ res'[r].state = "none" <=> res[r].state = "none"
             /\ res'[r].state = "settled" <=> res[r].state = "settled"
  <2>1. res'[r] = IF r \in B THEN [res[r] EXCEPT !.state = "expired"] ELSE res[r]
    BY DEF Reap, Ledger!Reap
  <2>2. r \in B => res[r].state = "pending"
    BY DEF Reap, Ledger!Reap, Ledger!Reapable
  <2>3. res[r] \in Ledger!ReservationRow
    OBVIOUS
  <2> QED
    BY <2>1, <2>2, <2>3 DEF Ledger!ReservationRow
<1> QED
  BY <1>1, <1>2, <1>3, LedgerStep

LEMMA TickKeeps ==
  ASSUME GatewayInv, LedgerFacts, LedgerFacts', HandlersTyped', NEW m, Tick(m)
  PROVE  GatewayInv'
<1> USE DEF LedgerFacts, Ledger!TypeOK
<1>1. UNCHANGED <<keys, budget, records, revoked, req, spotless>>
  BY DEF Tick, Ledger!TimePasses
<1>2. ASSUME NEW r \in Reservations
      PROVE  /\ res'[r].key = res[r].key /\ res'[r].window = res[r].window
             /\ res'[r].actual = res[r].actual /\ res'[r].state = res[r].state
  <2> DEFINE y == [res[r] EXCEPT !.due = TRUE]
  <2>1. res'[r] = y \/ res'[r] = res[r]
    BY DEF Tick, Ledger!TimePasses
  <2>2. y.key = res[r].key /\ y.window = res[r].window /\ y.actual = res[r].actual
        /\ y.state = res[r].state
    BY DEF Ledger!ReservationRow
  <2> QED
    BY <2>1, <2>2
<1> QED
  BY <1>1, <1>2, LedgerStep

LEMMA RetainKeeps ==
  ASSUME GatewayInv, LedgerFacts', HandlersTyped', NEW B, Retain(B)
  PROVE  GatewayInv'
<1> USE DEF GatewayInv
<1>1. /\ res' = res /\ keys' = keys /\ budget' = budget /\ req' = req
      /\ revoked' = revoked /\ spotless' = FALSE /\ records' \subseteq records
  BY DEF Retain, ApplyRetention, ledger
<1>2. \A p \in Reservations : HandlerInv(p)' /\ LimitInv(p)'
  BY <1>1 DEF HandlerInv, LimitInv, HasLimit, CostOf
<1>3. \A u \in records' : RecordInv(u)'
  BY <1>1 DEF RecordInv
<1>4. TypeOK'
  BY <1>1 DEF TypeOK, LedgerFacts
<1> QED
  BY <1>1, <1>2, <1>3, <1>4

(* A limit that appears is remembered by nobody; one that is lifted is      *)
(* forgotten by all.                                                        *)
LEMMA CreateKeeps ==
  ASSUME GatewayInv, LedgerFacts, LedgerFacts', HandlersTyped',
         NEW k \in Keys, NEW limit, handleCreateKey(k, limit)
  PROVE  GatewayInv'
<1> USE DEF GatewayInv
<1>1. /\ res' = res /\ req' = req /\ records' = records /\ revoked' = revoked
      /\ spotless' = spotless /\ k \notin keys /\ keys' = keys \cup {k}
      /\ \A j \in Keys \ {k} : budget'[j] = budget[j]
  BY DEF handleCreateKey, Ledger!CreateKey, LedgerFacts, Ledger!TypeOK
<1>2. \A j \in Keys : HasLimit(j) => HasLimit(j)'
  BY <1>1 DEF HasLimit
<1>3. \A p \in Reservations : req[p].key \in Keys
  BY HandlerFields DEF TypeOK, HandlersTyped
<1>4. \A p \in Reservations : HandlerInv(p)' /\ LimitInv(p)'
  BY <1>1, <1>2, <1>3 DEF HandlerInv, LimitInv, CostOf
<1>5. \A u \in records : RecordInv(u)'
  BY <1>1 DEF RecordInv
<1>6. spotless' => \A p \in Reservations : SpotlessInv(p)'
  BY <1>1 DEF SpotlessInv
<1>7. TypeOK'
  BY <1>1 DEF TypeOK, LedgerFacts
<1> QED
  BY <1>1, <1>4, <1>5, <1>6, <1>7

LEMMA UpdateKeeps ==
  ASSUME GatewayInv, LedgerFacts, LedgerFacts', HandlersTyped',
         NEW k \in Keys, NEW limit, handleUpdateKey(k, limit)
  PROVE  GatewayInv'
<1> USE DEF GatewayInv
<1>1. /\ res' = res /\ keys' = keys /\ records' = records /\ revoked' = revoked
      /\ spotless' = spotless
      /\ budget' = [budget EXCEPT ![k].limit = limit]
  BY DEF handleUpdateKey, Ledger!UpdateLimit
<1>2. /\ budget'[k].limit = limit
      /\ \A j \in Keys \ {k} : budget'[j] = budget[j]
  BY <1>1 DEF LedgerFacts, Ledger!TypeOK, Ledger!BudgetRow
<1>3. HandlersTyped
  BY DEF TypeOK
<1>4. \A p \in Reservations :
         /\ req'[p].at = req[p].at /\ req'[p].key = req[p].key
         /\ req'[p].unpriced = req[p].unpriced /\ req'[p].cost = req[p].cost
         /\ req'[p].limited = (req[p].limited /\ ~(req[p].key = k /\ limit = NoLimit))
  BY <1>3, UpdateMoves
<1>5. \A p \in Reservations : HandlerInv(p)'
  BY <1>1, <1>4 DEF HandlerInv, CostOf
<1>6. ASSUME NEW p \in Reservations PROVE LimitInv(p)'
  <2>1. req[p].key \in Keys /\ LimitInv(p)
    BY HandlerFields DEF TypeOK, HandlersTyped
  <2>2. req'[p].limited => req[p].limited /\ ~(req[p].key = k /\ limit = NoLimit)
    BY <1>4
  <2>3. req'[p].limited => req[p].key \in keys' /\ budget'[req[p].key].limit # NoLimit
    BY <1>1, <1>2, <2>1, <2>2 DEF HasLimit, LimitInv
  <2>4. req'[p].at = req[p].at /\ req'[p].key = req[p].key
        /\ req'[p].unpriced = req[p].unpriced
    BY <1>4
  <2>5. req'[p].limited => HasLimit(req[p].key)'
    BY <2>3, <2>4 DEF HasLimit
  <2> QED
    BY <2>1, <2>2, <2>4, <2>5 DEF LimitInv
<1>7. \A u \in records : RecordInv(u)'
  BY <1>1, <1>4 DEF RecordInv, TypeOK, Row
<1>8. spotless' => \A p \in Reservations : SpotlessInv(p)'
  BY <1>1, <1>4 DEF SpotlessInv
<1>9. TypeOK'
  BY <1>1 DEF TypeOK, LedgerFacts
<1> QED
  BY <1>1, <1>5, <1>6, <1>7, <1>8, <1>9

LEMMA UntouchedKeeps ==
  ASSUME GatewayInv, LedgerFacts', HandlersTyped',
         UNCHANGED <<ledger, records, req, spotless>>, revoked' \subseteq keys
  PROVE  GatewayInv'
<1> USE DEF GatewayInv
<1>1. res' = res /\ keys' = keys /\ budget' = budget
  BY DEF ledger
<1>2. \A p \in Reservations : HandlerInv(p)' /\ LimitInv(p)'
  BY <1>1 DEF HandlerInv, LimitInv, HasLimit, CostOf
<1>3. \A u \in records : RecordInv(u)'
  BY <1>1 DEF RecordInv
<1>4. spotless' => \A p \in Reservations : SpotlessInv(p)'
  BY <1>1 DEF SpotlessInv
<1>5. TypeOK'
  BY <1>1 DEF TypeOK, LedgerFacts
<1> QED
  BY <1>2, <1>3, <1>4, <1>5

LEMMA NextGateway ==
  ASSUME GatewayInv, LedgerFacts, LedgerFacts', HandlersTyped', [Next]_vars
  PROVE  GatewayInv'
<1>0. spotless \in BOOLEAN /\ revoked \subseteq keys
      /\ \A q \in Reservations : HandlerInv(q)
  BY DEF GatewayInv, TypeOK
<1>1. ASSUME NEW q \in Reservations, Handler(q) PROVE GatewayInv'
  <2>1. CASE RefuseEarly(q)
    BY <1>0, <2>1, FinishKeeps DEF RefuseEarly, ledger, HandlerInv
  <2>2. ASSUME NEW k \in Keys, NEW u \in BOOLEAN, Receive(q, k, u) PROVE GatewayInv'
    BY <2>2, ReceiveKeeps
  <2>3. CASE CheckBudget(q)
    BY <2>3, CheckKeeps
  <2>4. ASSUME NEW est \in Amounts \cup {0}, Reserve(q, est) PROVE GatewayInv'
    BY <2>4, ReserveKeeps
  <2>5. ASSUME NEW est \in Amounts \cup {0}, ReserveRefused(q, est) PROVE GatewayInv'
    BY <1>0, <2>5, FinishKeeps DEF ReserveRefused, ledger, HandlerInv
  <2>6. ASSUME NEW cost \in Amounts \cup {NoCost}, Complete(q, cost) PROVE GatewayInv'
    BY <2>6, CompleteKeeps
  <2>7. CASE UpstreamFails(q)
    BY <2>7, GotoKeeps DEF UpstreamFails
  <2>8. CASE Release(q)
    BY <2>8, ReleaseKeeps
  <2>9. CASE Settle(q)
    BY <2>9, SettleKeeps
  <2>10. CASE SettleFails(q)
    <3>1. req[q].at \in {"settle", "release"} /\ spotless' = FALSE
          /\ UNCHANGED <<ledger, records, revoked>>
      BY <2>10 DEF SettleFails, Fault
    <3>2. CASE req[q].at = "settle" /\ Goto(q, "record")
      BY <3>1, <3>2, GotoKeeps
    <3>3. CASE Finish(q)
      BY <3>1, <3>3, FinishKeeps DEF ledger
    <3> QED
      BY <2>10, <3>2, <3>3 DEF SettleFails
  <2>11. ASSUME NEW id \in RecordIds, Record(q, id) PROVE GatewayInv'
    BY <2>11, RecordKeeps
  <2>12. CASE RecordFails(q)
    BY <2>12, FinishKeeps DEF RecordFails, Fault, ledger
  <2> QED
    BY <1>1, <2>1, <2>2, <2>3, <2>4, <2>5, <2>6, <2>7, <2>8, <2>9, <2>10, <2>11, <2>12
    DEF Handler
<1>2. CASE Background
  BY <1>2, CrashKeeps, ReapKeeps, RetainKeeps, TickKeeps DEF Background
<1>3. CASE Admin
  <2>1. ASSUME NEW k \in Keys, handleRevokeKey(k) PROVE GatewayInv'
    BY <1>0, <2>1, UntouchedKeeps DEF handleRevokeKey
  <2> QED
    BY <1>3, <2>1, CreateKeeps, UpdateKeeps DEF Admin
<1>4. CASE UNCHANGED vars
  BY <1>0, <1>4, UntouchedKeeps DEF vars
<1> QED
  BY <1>1, <1>2, <1>3, <1>4 DEF Next

LEMMA InitGateway == Init /\ LedgerFacts => GatewayInv
<1> SUFFICES ASSUME Init, LedgerFacts PROVE GatewayInv
  OBVIOUS
<1>1. HandlersTyped
  BY InitTyped
<1>2. records = {} /\ revoked = {} /\ spotless = TRUE
  BY DEF Init, StoreInit
<1>3. TypeOK
  BY <1>1, <1>2 DEF TypeOK, LedgerFacts
<1>4. ASSUME NEW q \in Reservations
      PROVE  HandlerInv(q) /\ LimitInv(q) /\ SpotlessInv(q)
  <2>1. req[q].at = "idle" /\ req[q].limited = FALSE
    BY IdleTyped DEF Init
  <2>2. res[q].state = "none"
    BY DEF Init, Ledger!Init, Ledger!AbsentRow
  <2> QED
    BY <1>2, <2>1, <2>2 DEF HandlerInv, LimitInv, SpotlessInv
<1> QED
  BY <1>2, <1>3, <1>4 DEF GatewayInv

(* The inductive invariant of the gateway: where every handler stands tells *)
(* how far its reservation and its record have got, through failed settles, *)
(* failed records, crashes, sweeps, pruning and changes of limits.          *)
THEOREM GatewayInvariance == Spec => [](GatewayInv /\ LedgerFacts)
<1>1. GatewayInv /\ LedgerFacts /\ LedgerFacts' /\ HandlersTyped' /\ [Next]_vars
        => GatewayInv'
  BY NextGateway
<1>2. HandlersTyped /\ [Next]_vars => HandlersTyped'
  BY NextTyped
<1> QED
  BY <1>1, <1>2, InitTyped, InitGateway, LedgerHolds, PTL DEF Spec

(* Ids are unique, no reservation has two usage records, only keys that     *)
(* exist are revoked, and the CHECK constraints of the ledger hold.         *)
THEOREM GatewayTypes == Spec => []TypeOK
<1>1. GatewayInv => TypeOK
  BY DEF GatewayInv
<1> QED
  BY <1>1, GatewayInvariance, PTL

(* A request for a model without a price, which estimates at zero and would *)
(* pass any limit, is never let through for a key that has had a limit ever *)
(* since the request came in.                                               *)
THEOREM UnpricedNeverLimited == Spec => []UnpricedOnlyUnlimited
<1>1. ASSUME GatewayInv PROVE UnpricedOnlyUnlimited
  <2> SUFFICES ASSUME NEW q \in Reservations, req[q].unpriced, res[q].state # "none"
               PROVE  ~req[q].limited
    BY DEF UnpricedOnlyUnlimited
  <2>1. HandlerInv(q) /\ LimitInv(q)
    BY <1>1 DEF GatewayInv
  <2> QED
    BY <2>1 DEF HandlerInv, LimitInv
<1> QED
  BY <1>1, GatewayInvariance, PTL

-------------------------------------------------------------------------------
(* Reconciliation. *)

LEMMA RowsFinite ==
  ASSUME GatewayInv
  PROVE  /\ IsFiniteSet(records) /\ IsFiniteSet(Reservations)
         /\ \A u \in records : CostOf(u) \in Nat /\ u.res \in Reservations
<1>1. /\ records \subseteq Row /\ \A u, v \in records : u.id = v.id => u = v
  BY DEF GatewayInv, TypeOK
<1> DEFINE h == [u \in records |-> u.id]
<1>2. h \in Injection(records, RecordIds)
  BY <1>1 DEF Injection, IsInjective, Row
<1>3. IsFiniteSet(records)
  BY <1>2, FS_Injection, RecordIdsAssumption
<1>4. \A u \in records : CostOf(u) \in Nat /\ u.res \in Reservations
  BY <1>1, GatewayAssumption DEF Row, CostOf
<1> QED
  BY <1>3, <1>4, GatewayAssumption

(* The records of a set of reservations cost what the reservations do, if   *)
(* each has its record and each record its amount.                          *)
LEMMA MatchedSums ==
  ASSUME GatewayInv, NEW R \in SUBSET records, NEW S, NEW val, NEW f,
         \A u \in R : u.res \in S /\ f[u] = CostOf(u) /\ CostOf(u) = val[u.res],
         \A r \in S : \E u \in R : u.res = r
  PROVE  Total(R, f) = Total(S, val)
<1> DEFINE h == [u \in R |-> u.res]
<1>1. \A u, v \in R : u.res = v.res => u = v
  BY DEF GatewayInv, TypeOK
<1>2. h \in Bijection(R, S)
  BY <1>1 DEF Bijection, Injection, Surjection, IsInjective
<1>3. IsFiniteSet(R)
  BY RowsFinite, FS_Subset
<1>4. \A u \in R : f[u] \in Nat /\ f[u] = val[h[u]]
  BY RowsFinite
<1> HIDE DEF h
<1> QED
  BY <1>2, <1>3, <1>4, TotalBijection

LEMMA NoDrift ==
  ASSUME GatewayInv, LedgerFacts
  PROVE  BalanceDrift = {}
<1>1. keys \subseteq Keys /\ Ledger!BalanceMatchesLog
  BY DEF LedgerFacts, Ledger!TypeOK
<1> QED
  BY <1>1 DEF BalanceDrift, Ledger!BalanceMatchesLog

(* A report over a history in which nothing failed is clean, whatever       *)
(* settled late, in whichever month, priced or not.                         *)
THEOREM NoFalseAlarms == Spec => []NoFalseAlarm
<1>1. ASSUME GatewayInv, LedgerFacts, spotless,
             \A q \in Reservations : req[q].at # "record"
      PROVE  ReportOK
  <2> USE <1>1
  <2>1. \A q \in Reservations : SpotlessInv(q)
    BY DEF GatewayInv
  <2>2. SettledWithoutUsageRecord = {}
    BY <2>1 DEF SettledWithoutUsageRecord, SpotlessInv
  <2>3. ASSUME NEW g \in {<<u.key, u.window>> : u \in {v \in records : v.cost # NoCost}}
        PROVE  CostSum({u \in records : <<u.key, u.window>> = g})
                  = Total(Ledger!SettledIn(g[1], g[2]), Ledger!Actuals)
    <3> DEFINE R == {u \in records : <<u.key, u.window>> = g}
               S == Ledger!SettledIn(g[1], g[2])
               c == [u \in R |-> CostOf(u)]
    <3>1. g = <<g[1], g[2]>>
      OBVIOUS
    <3>2. \A u \in records : u.res \in Reservations /\ RecordInv(u)
      BY RowsFinite DEF GatewayInv
    <3>3. ASSUME NEW u \in R
          PROVE  u.res \in S /\ c[u] = CostOf(u) /\ CostOf(u) = Ledger!Actuals[u.res]
      <4>1. u \in records /\ u.key = g[1] /\ u.window = g[2]
        BY <3>1
      <4>2. res[u.res].state = "settled"
        BY <2>1, <3>2, <4>1 DEF SpotlessInv
      <4> QED
        BY <3>2, <4>1, <4>2 DEF RecordInv, Ledger!SettledIn, Ledger!Actuals
    <3>4. ASSUME NEW r \in S PROVE \E u \in R : u.res = r
      <4>1. r \in Reservations /\ res[r].state = "settled" /\ res[r].key = g[1]
            /\ res[r].window = g[2]
        BY DEF Ledger!SettledIn
      <4>2. PICK u \in records : u.res = r
        BY <2>1, <4>1 DEF SpotlessInv
      <4>3. u.key = g[1] /\ u.window = g[2]
        BY <3>2, <4>1, <4>2 DEF RecordInv
      <4> QED
        BY <3>1, <4>2, <4>3
    <3>5. R \in SUBSET records
      OBVIOUS
    <3>6. CostSum(R) = Total(R, c)
      BY DEF CostSum
    <3> HIDE DEF R, S, c
    <3>7. Total(R, c) = Total(S, Ledger!Actuals)
      BY <3>3, <3>4, <3>5, MatchedSums
    <3> QED
      BY <3>6, <3>7 DEF R, S
  <2>4. CostWindowMismatch = {}
    BY <2>3 DEF CostWindowMismatch
  <2> QED
    BY <2>2, <2>4, NoDrift DEF ReportOK
<1>2. GatewayInv /\ LedgerFacts => NoFalseAlarm
  BY <1>1 DEF NoFalseAlarm
<1> QED
  BY <1>2, GatewayInvariance, PTL

(* The records that no settle stands behind. *)
Unbacked == {u \in records : res[u.res].state # "settled"}

(* A record that no settle stands behind adds to the sum of its window what *)
(* nothing on the side of the ledger makes up for.                          *)
LEMMA UnbackedAreFree ==
  ASSUME GatewayInv, LedgerFacts, ReportOK, NEW v \in Unbacked
  PROVE  CostOf(v) = 0
<1>1. v \in records /\ \A u \in records : u.res \in Reservations /\ RecordInv(u)
  BY RowsFinite DEF GatewayInv, Unbacked
<1>2. CASE v.cost = NoCost
  BY <1>2 DEF CostOf
<1>3. CASE v.cost # NoCost
  <2> DEFINE g == <<v.key, v.window>>
             R == {u \in records : <<u.key, u.window>> = g}
             T == R \ Unbacked
             S == Ledger!SettledIn(v.key, v.window)
             c == [u \in R |-> CostOf(u)]
  <2>1. CostSum(R) = Total(S, Ledger!Actuals)
    <3>1. g \in {<<u.key, u.window>> : u \in {w \in records : w.cost # NoCost}}
      BY <1>1, <1>3
    <3>2. g[1] = v.key /\ g[2] = v.window
      OBVIOUS
    <3>3. CostWindowMismatch = {}
      BY DEF ReportOK
    <3> QED
      BY <3>1, <3>2, <3>3 DEF CostWindowMismatch
  <2>2. CostSum(R) = Total(R, c)
    BY DEF CostSum
  <2>3. ASSUME NEW u \in T
        PROVE  u.res \in S /\ c[u] = CostOf(u) /\ CostOf(u) = Ledger!Actuals[u.res]
    <3>1. u \in records /\ u.key = v.key /\ u.window = v.window
          /\ res[u.res].state = "settled"
      BY DEF Unbacked
    <3> QED
      BY <1>1, <3>1 DEF RecordInv, Ledger!SettledIn, Ledger!Actuals
  <2>4. ASSUME NEW r \in S PROVE \E u \in T : u.res = r
    <3>1. r \in Reservations /\ res[r].state = "settled" /\ res[r].key = v.key
          /\ res[r].window = v.window
      BY DEF Ledger!SettledIn
    <3>2. PICK u \in records : u.res = r
      BY <3>1 DEF ReportOK, SettledWithoutUsageRecord
    <3>3. u.key = v.key /\ u.window = v.window
      BY <1>1, <3>1, <3>2 DEF RecordInv
    <3> QED
      BY <3>1, <3>2, <3>3 DEF Unbacked
  <2>5. T \in SUBSET records /\ T \in SUBSET R /\ v \in R /\ v \notin T
        /\ R \in SUBSET records
    BY <1>1
  <2>6. \A u \in R : c[u] \in Nat /\ c[u] = CostOf(u)
    BY RowsFinite
  <2> HIDE DEF R, S, c, T
  <2>7. Total(T, c) = Total(S, Ledger!Actuals)
    BY <2>3, <2>4, <2>5, MatchedSums
  <2>8. IsFiniteSet(R) /\ IsFiniteSet(R \ T)
    BY <2>5, RowsFinite, FS_Subset, FS_Difference
  <2>9. Total(R \ T, c) = Total(R, c) - Total(T, c)
    BY <2>5, <2>6, <2>8, TotalDiff
  <2>10. Total(R, c) \in Nat /\ Total(R, c) = Total(T, c)
    BY <2>1, <2>2, <2>6, <2>7, <2>8, TotalNat
  <2>11. c[v] <= Total(R \ T, c)
    <3>1. v \in R \ T /\ \A u \in R \ T : c[u] \in Nat
      BY <2>5, <2>6
    <3> QED
      BY <2>8, <3>1, TotalRemove
  <2> QED
    BY <2>5, <2>6, <2>9, <2>10, <2>11
<1> QED
  BY <1>2, <1>3

(* A clean report means that the records and the ledger agree request by    *)
(* request, and that GET /v1/usage reports for every key what was charged,  *)
(* for any number of failed settles, failed records, crashes and prunings.  *)
THEOREM CleanReports == Spec => []CleanReportIsTrue
<1>1. ASSUME GatewayInv, LedgerFacts, ReportOK
      PROVE  \A u \in records : CostOf(u) = Booked(u.res)
  <2> SUFFICES ASSUME NEW u \in records PROVE CostOf(u) = Booked(u.res)
    OBVIOUS
  <2>1. RecordInv(u)
    BY <1>1 DEF GatewayInv
  <2>2. CASE res[u.res].state = "settled"
    BY <2>1, <2>2 DEF RecordInv, Booked
  <2>3. CASE res[u.res].state # "settled"
    BY <1>1, <2>3, UnbackedAreFree DEF Unbacked, Booked
  <2> QED
    BY <2>2, <2>3
<1>2. ASSUME GatewayInv, LedgerFacts, ReportOK, NEW k \in Keys
      PROVE  LET usage == QueryUsage(Master, 0, MaxMonth + 1, [u \in records |-> u.key])
                 charged == Total({r \in Reservations : res[r].key = k},
                                  [r \in Reservations |-> Booked(r)])
             IN charged = IF k \in DOMAIN usage THEN usage[k].cost ELSE 0
  <2> DEFINE group == [u \in records |-> u.key]
             usage == QueryUsage(Master, 0, MaxMonth + 1, group)
             booked == [r \in Reservations |-> Booked(r)]
             All == {r \in Reservations : res[r].key = k}
             S == {r \in All : res[r].state = "settled"}
             R == {u \in records : u.key = k}
             T == R \ Unbacked
             c == [u \in R |-> CostOf(u)]
  <2>1. \A u \in records : u.res \in Reservations /\ RecordInv(u)
    BY <1>2, RowsFinite DEF GatewayInv
  <2>2. Selected(Master, 0, MaxMonth + 1) = records
    BY <1>2, GatewayAssumption DEF GatewayInv, TypeOK, Row, Selected, Allows
  <2>3. /\ DOMAIN usage = {group[u] : u \in records}
        /\ k \in DOMAIN usage => usage[k].cost = CostSum({u \in records : group[u] = k})
    BY <2>2 DEF QueryUsage, Bucket
  <2>4. {u \in records : group[u] = k} = R
    OBVIOUS
  <2>5. CostSum(R) = Total(R, c)
    BY DEF CostSum
  <2>6. k \in DOMAIN usage <=> R # {}
    BY <2>3
  <2>7. Total(R, c) = IF k \in DOMAIN usage THEN usage[k].cost ELSE 0
    <3>1. CASE R # {}
      BY <2>3, <2>4, <2>5, <2>6, <3>1
    <3>2. CASE R = {}
      BY <2>6, <3>2, TotalEmpty
    <3> QED
      BY <3>1, <3>2
  <2>8. ASSUME NEW u \in T
        PROVE  u.res \in S /\ c[u] = CostOf(u) /\ CostOf(u) = booked[u.res]
    <3>1. u \in records /\ u.key = k /\ res[u.res].state = "settled"
      BY DEF Unbacked
    <3> QED
      BY <2>1, <3>1 DEF RecordInv, Booked
  <2>9. ASSUME NEW r \in S PROVE \E u \in T : u.res = r
    <3>1. r \in Reservations /\ res[r].state = "settled" /\ res[r].key = k
      OBVIOUS
    <3>2. PICK u \in records : u.res = r
      BY <1>2, <3>1 DEF ReportOK, SettledWithoutUsageRecord
    <3>3. u.key = k
      BY <2>1, <3>1, <3>2 DEF RecordInv
    <3> QED
      BY <3>1, <3>2, <3>3 DEF Unbacked
  <2>10. T \in SUBSET records /\ T \in SUBSET R /\ R \in SUBSET records
         /\ S \in SUBSET All /\ All \in SUBSET Reservations
    OBVIOUS
  <2>11. /\ \A u \in R : c[u] \in Nat
         /\ \A u \in R \ T : c[u] = 0
    BY <1>2, RowsFinite, UnbackedAreFree DEF Unbacked
  <2>12. /\ \A r \in All : booked[r] \in Nat
         /\ \A r \in All \ S : booked[r] = 0
    BY <1>2, LedgerRows DEF Booked
  <2>13. IsFiniteSet(R) /\ IsFiniteSet(All)
    BY <1>2, <2>10, RowsFinite, FS_Subset
  <2> HIDE DEF R, S, T, c, booked, All, usage
  <2>14. Total(T, c) = Total(S, booked)
    BY <1>2, <2>8, <2>9, <2>10, MatchedSums
  <2>15. Total(R \ T, c) = Total(R, c) - Total(T, c) /\ Total(R \ T, c) = 0
    BY <2>10, <2>11, <2>13, TotalDiff, TotalZero
  <2>16. Total(All \ S, booked) = Total(All, booked) - Total(S, booked)
         /\ Total(All \ S, booked) = 0
    BY <2>10, <2>12, <2>13, TotalDiff, TotalZero
  <2>17. Total(R, c) \in Nat /\ Total(All, booked) \in Nat
    BY <2>11, <2>12, <2>13, TotalNat
  <2>18. Total(S, booked) \in Nat
    <3>1. IsFiniteSet(S) /\ \A r \in S : booked[r] \in Nat
      BY <2>10, <2>12, <2>13, FS_Subset
    <3> QED
      BY <3>1, TotalNat
  <2>19. Total(All, booked) = Total(R, c)
    BY <2>14, <2>15, <2>16, <2>17, <2>18
  <2> QED
    BY <2>7, <2>19 DEF All, booked, usage
<1>3. GatewayInv /\ LedgerFacts => CleanReportIsTrue
  BY <1>1, <1>2 DEF CleanReportIsTrue
<1> QED
  BY <1>3, GatewayInvariance, PTL

-------------------------------------------------------------------------------
(* Listings.  The rows of one are ordered by time and then by id, which no  *)
(* two share.                                                               *)

Listing(S) ==
    /\ IsFiniteSet(S)
    /\ \A r \in S : r.created \in Int /\ r.id \in Int
    /\ \A r, s \in S : r.id = s.id => r = s

(* The rows ahead of a row, whose number is its rank. *)
Ahead(S, r) == {s \in S : Precedes(s, r)}
Rank(S, r) == Cardinality(Ahead(S, r))

LEMMA ListingOrder ==
  ASSUME NEW S, Listing(S)
  PROVE  /\ \A r \in S : ~Precedes(r, r)
         /\ \A r, s, t \in S : Precedes(r, s) /\ Precedes(s, t) => Precedes(r, t)
         /\ \A r, s \in S : r # s => Precedes(r, s) \/ Precedes(s, r)
         /\ \A r, s \in S : ~(Precedes(r, s) /\ Precedes(s, r))
BY DEF Listing, Precedes

LEMMA RankType ==
  ASSUME NEW S, Listing(S), NEW r
  PROVE  IsFiniteSet(Ahead(S, r)) /\ Rank(S, r) \in Nat
<1>1. Ahead(S, r) \in SUBSET S
  BY DEF Ahead
<1>2. IsFiniteSet(Ahead(S, r))
  BY <1>1, FS_Subset DEF Listing
<1> QED
  BY <1>2, FS_CardinalityType DEF Rank

(* A row ahead of another has a lower rank. *)
LEMMA RankRises ==
  ASSUME NEW S, Listing(S), NEW s \in S, NEW r \in S, Precedes(s, r)
  PROVE  Rank(S, s) < Rank(S, r)
<1>1. Ahead(S, s) \in SUBSET Ahead(S, r) /\ s \in Ahead(S, r) /\ s \notin Ahead(S, s)
  BY ListingOrder DEF Ahead
<1>2. IsFiniteSet(Ahead(S, r)) /\ Rank(S, r) \in Nat /\ Rank(S, s) \in Nat
  BY RankType
<1>3. Cardinality(Ahead(S, s)) <= Cardinality(Ahead(S, r))
      /\ (Cardinality(Ahead(S, r)) = Cardinality(Ahead(S, s)) => Ahead(S, r) = Ahead(S, s))
  BY <1>1, <1>2, FS_Subset
<1> QED
  BY <1>1, <1>2, <1>3 DEF Rank

LEMMA LeastNumber ==
  ASSUME NEW T \in SUBSET Nat, T # {}
  PROVE  \E x \in T : \A y \in T : ~(y < x)
<1> DEFINE R == OpToRel(<, Nat)
<1>1. IsWellFoundedOn(R, Nat)
  BY NatLessThanWellFounded
<1>2. PICK x \in T : \A y \in T : ~(<<y, x>> \in R)
  <2> HIDE DEF R
  <2> QED
    BY <1>1, WFMin
<1> QED
  BY <1>2 DEF OpToRel

(* Some row of any part of a listing comes first, and some row last. *)
LEMMA FirstRow ==
  ASSUME NEW S, Listing(S), NEW T \in SUBSET S, T # {}
  PROVE  \E r \in T : \A s \in T : ~Precedes(s, r)
<1> DEFINE N == {Rank(S, t) : t \in T}
<1>1. N \in SUBSET Nat /\ N # {}
  BY RankType
<1>2. PICK x \in N : \A y \in N : ~(y < x)
  BY <1>1, LeastNumber
<1>3. PICK r \in T : x = Rank(S, r)
  OBVIOUS
<1> QED
  BY <1>2, <1>3, RankRises

LEMMA LastRow ==
  ASSUME NEW S, Listing(S), NEW T \in SUBSET S, T # {}
  PROVE  Last(T) \in T /\ \A s \in T \ {Last(T)} : Precedes(s, Last(T))
<1> DEFINE size == Cardinality(S)
           N == {size - Rank(S, t) : t \in T}
<1>1. size \in Nat
  BY FS_CardinalityType DEF Listing
<1>2. \A t \in T : Rank(S, t) \in Nat /\ Rank(S, t) <= size
  <2> SUFFICES ASSUME NEW t \in T PROVE Rank(S, t) \in Nat /\ Rank(S, t) <= size
    OBVIOUS
  <2>1. Ahead(S, t) \in SUBSET S
    BY DEF Ahead
  <2> QED
    BY <2>1, RankType, FS_Subset DEF Listing, Rank
<1> HIDE DEF size
<1>3. N \in SUBSET Nat /\ N # {}
  BY <1>1, <1>2
<1>4. PICK x \in N : \A y \in N : ~(y < x)
  <2> HIDE DEF N
  <2> QED
    BY <1>3, LeastNumber
<1>5. PICK r \in T : x = size - Rank(S, r)
  OBVIOUS
<1>6. ASSUME NEW s \in T \ {r} PROVE Precedes(s, r)
  <2>1. ~(size - Rank(S, s) < size - Rank(S, r))
    BY <1>4, <1>5
  <2>2. ~(Rank(S, r) < Rank(S, s))
    BY <1>1, <1>2, <2>1
  <2> QED
    BY <2>2, RankRises, ListingOrder
<1> QED
  BY <1>6 DEF Last

(* A page holds at most the rows it is asked for. *)
LEMMA TopBounded ==
  ASSUME NEW S, Listing(S), NEW n \in Nat
  PROVE  IsFiniteSet(Top(S, n)) /\ Cardinality(Top(S, n)) <= n
<1> DEFINE D == Top(S, n)
           h == [r \in D |-> Rank(S, r)]
<1>1. D \in SUBSET S /\ \A r \in D : Rank(S, r) < n
  BY DEF Top, Rank, Ahead
<1> HIDE DEF D
<1>2. \A r \in D : Rank(S, r) \in 0 .. n - 1
  BY <1>1, RankType
<1>3. \A r, s \in D : Rank(S, r) = Rank(S, s) => r = s
  <2> SUFFICES ASSUME NEW r \in D, NEW s \in D, Rank(S, r) = Rank(S, s), r # s PROVE FALSE
    OBVIOUS
  <2>1. Rank(S, r) < Rank(S, s) \/ Rank(S, s) < Rank(S, r)
    BY <1>1, RankRises, ListingOrder
  <2>2. Rank(S, r) \in Nat /\ Rank(S, s) \in Nat
    BY RankType
  <2> QED
    BY <2>1, <2>2
<1>4. h \in Injection(D, 0 .. n - 1)
  BY <1>2, <1>3 DEF Injection, IsInjective
<1>5. IsFiniteSet(0 .. n - 1) /\ Cardinality(0 .. n - 1) = n
  BY FS_Interval
<1> HIDE DEF h
<1> QED
  BY <1>4, <1>5, FS_Injection DEF D

(* One row more than the page tells whether anything is left: a query for   *)
(* n + 1 rows that brings no more than n has brought all there are.         *)
LEMMA NothingLeft ==
  ASSUME NEW S, Listing(S), NEW n \in Nat, ~(Cardinality(Top(S, n + 1)) > n)
  PROVE  Top(S, n) = S
<1> SUFFICES ASSUME S \ Top(S, n) # {} PROVE FALSE
  BY DEF Top
<1> DEFINE T == S \ Top(S, n)
<1>1. PICK r \in T : \A s \in T : ~Precedes(s, r)
  BY FirstRow
<1>2. Ahead(S, r) \in SUBSET Top(S, n)
  BY <1>1 DEF Ahead
<1>3. IsFiniteSet(Top(S, n)) /\ Cardinality(Top(S, n)) <= n
  BY TopBounded
<1>4. Rank(S, r) \in Nat /\ IsFiniteSet(Ahead(S, r))
  BY RankType
<1>5. Cardinality(Top(S, n)) \in Nat /\ Rank(S, r) <= Cardinality(Top(S, n))
  BY <1>2, <1>3, FS_Subset, FS_CardinalityType DEF Rank
<1>6. Rank(S, r) = n
  <2>1. ~(Rank(S, r) < n)
    BY DEF Top, Rank, Ahead
  <2> QED
    BY <1>3, <1>4, <1>5, <2>1
<1>7. r \in Top(S, n + 1)
  BY <1>6 DEF Top, Rank, Ahead
<1>8. Top(S, n) \in SUBSET Top(S, n + 1)
  <2>1. \A s \in S : Rank(S, s) \in Nat
    BY RankType
  <2> QED
    BY <2>1 DEF Top, Rank, Ahead
<1>9. Ahead(S, r) \cup {r} \in SUBSET Top(S, n + 1)
  BY <1>2, <1>7, <1>8
<1>10. r \notin Ahead(S, r)
  BY ListingOrder DEF Ahead
<1>11. Cardinality(Ahead(S, r) \cup {r}) = n + 1
  BY <1>4, <1>6, <1>10, FS_AddElement DEF Rank
<1>12. IsFiniteSet(Top(S, n + 1)) /\ Cardinality(Top(S, n + 1)) \in Nat
  BY TopBounded, FS_CardinalityType
<1>13. n + 1 <= Cardinality(Top(S, n + 1))
  BY <1>9, <1>11, <1>12, FS_Subset
<1> QED
  BY <1>12, <1>13

(* What is not on a page is what its last row precedes. *)
LEMMA LeftIsBelow ==
  ASSUME NEW S, Listing(S), NEW n \in Nat, Top(S, n) # {}, NEW r \in S
  PROVE  r \notin Top(S, n) <=> Precedes(Last(Top(S, n)), r)
<1> DEFINE D == Top(S, n)
           d == Last(D)
<1>1. D \in SUBSET S
  BY DEF Top
<1>2. d \in D /\ \A s \in D \ {d} : Precedes(s, d)
  <2> HIDE DEF D
  <2> QED
    BY <1>1, LastRow DEF D
<1> HIDE DEF d
<1>3. ASSUME r \notin D PROVE Precedes(d, r)
  <2>1. ~(Rank(S, r) < n) /\ Rank(S, d) < n
    BY <1>2, <1>3 DEF Top, Rank, Ahead
  <2>2. Rank(S, r) \in Nat /\ Rank(S, d) \in Nat
    BY RankType
  <2>3. ~(Rank(S, r) < Rank(S, d))
    BY <2>1, <2>2
  <2> QED
    BY <1>1, <1>2, <1>3, <2>3, RankRises, ListingOrder
<1>4. ASSUME r \in D PROVE ~Precedes(d, r)
  BY <1>1, <1>2, <1>4, ListingOrder
<1> QED
  BY <1>3, <1>4 DEF d

LEMMA NumbersInRows ==
  /\ \A id \in RecordIds : id \in Int
  /\ \A m \in 0 .. MaxMonth : m \in Int /\ m >= 0
<1>1. RecordIds \subseteq Nat
  BY RecordIdsAssumption
<1>2. MaxMonth \in Nat
  BY GatewayAssumption
<1> QED
  BY <1>1, <1>2

(* One page of a listing, and the cursor to the next. *)
LEMMA PageIsPrefix ==
  ASSUME NEW rows, Listing(rows), \A r \in rows : r.created >= 0,
         NEW limit \in PageLimits, NEW cursor \in {NoCursor} \cup Cursors
  PROVE  LET page == QueryRequests(rows, cursor, limit)
             left == IF page.next = NoCursor THEN {} ELSE After(rows, page.next)
         IN /\ page.data \cup left = After(rows, cursor)
            /\ page.data \cap left = {}
            /\ Cardinality(page.data) <= PageLimit(limit)
<1> DEFINE n == PageLimit(limit)
           rest == After(rows, cursor)
           data == Top(rest, n)
           page == QueryRequests(rows, cursor, limit)
           left == IF page.next = NoCursor THEN {} ELSE After(rows, page.next)
<1>1. n \in Nat \ {0}
  BY PageAssumption DEF PageLimit
<1>2. rest \in SUBSET rows
  BY DEF After
<1>3. Listing(rest)
  <2>1. IsFiniteSet(rest)
    BY <1>2, FS_Subset DEF Listing
  <2> HIDE DEF rest
  <2> QED
    BY <1>2, <2>1 DEF Listing
<1>4. /\ page.data = data
      /\ page.next = IF Cardinality(Top(rest, n + 1)) > n THEN Position(Last(data))
                     ELSE NoCursor
  BY DEF QueryRequests
<1>5. data \in SUBSET rest
  BY DEF Top
<1> HIDE DEF n, rest, data, page
<1>6. Cardinality(data) <= n
  BY <1>1, <1>3, TopBounded DEF data
<1>7. CASE Cardinality(Top(rest, n + 1)) > n
  <2>1. rest # {}
    <3> SUFFICES ASSUME rest = {} PROVE FALSE
      OBVIOUS
    <3>1. Top(rest, n + 1) = {}
      BY DEF Top
    <3> QED
      BY <1>1, <1>7, <3>1, FS_EmptySet
  <2>2. data # {}
    <3>1. PICK r \in rest : \A s \in rest : ~Precedes(s, r)
      BY <1>3, <2>1, FirstRow
    <3>2. {s \in rest : Precedes(s, r)} = {}
      BY <3>1
    <3>3. Cardinality({s \in rest : Precedes(s, r)}) = 0
      BY <3>2, FS_EmptySet
    <3> QED
      BY <1>1, <3>1, <3>3 DEF data, Top
  <2>3. PICK d : d = Last(data)
    OBVIOUS
  <2>4. d \in data /\ d \in rest /\ d \in rows
    BY <1>2, <1>3, <1>5, <2>2, <2>3, LastRow
  <2>5. \A r \in rest : r \notin data <=> Precedes(d, r)
    BY <1>1, <1>3, <2>2, <2>3, LeftIsBelow DEF data
  <2>6. page.next = [created |-> d.created, id |-> d.id]
    BY <1>4, <1>7, <2>3 DEF Position
  <2>7. page.next # NoCursor
    <3>1. d.created \in Int /\ d.created >= 0
      BY <2>4 DEF Listing
    <3>2. page.next.created = d.created /\ NoCursor.created = -1
      BY <2>6 DEF NoCursor
    <3> QED
      BY <3>1, <3>2
  <2>8. \A r \in rows : Below(r, page.next) <=> Precedes(d, r)
    BY <2>4, <2>6 DEF Below, Precedes, Listing
  <2>9. left = {r \in rows : Precedes(d, r)}
    BY <2>7, <2>8 DEF After
  <2>10. \A r \in rows : Precedes(d, r) => r \in rest
    <3> SUFFICES ASSUME NEW r \in rows, Precedes(d, r) PROVE r \in rest
      OBVIOUS
    <3>1. CASE cursor = NoCursor
      BY <3>1 DEF rest, After
    <3>2. CASE cursor # NoCursor
      <4>1. cursor.created \in Int /\ cursor.id \in Int
        <5>1. cursor.created \in 0 .. MaxMonth /\ cursor.id \in RecordIds
          BY <3>2 DEF Cursors
        <5> QED
          BY <5>1, NumbersInRows
      <4>2. Below(d, cursor)
        BY <2>4, <3>2 DEF rest, After
      <4>3. Below(r, cursor)
        BY <2>4, <4>1, <4>2 DEF Below, Precedes, Listing
      <4> QED
        BY <4>3 DEF rest, After
    <3> QED
      BY <3>1, <3>2
  <2>11. left = rest \ data
    BY <1>2, <2>5, <2>9, <2>10
  <2> HIDE DEF left
  <2>12. data \cup left = rest /\ data \cap left = {}
    BY <1>5, <2>11
  <2> QED
    BY <1>4, <1>6, <2>12 DEF page, left, rest, n
<1>8. CASE ~(Cardinality(Top(rest, n + 1)) > n)
  <2>1. data = rest
    BY <1>1, <1>3, <1>8, NothingLeft DEF data
  <2>2. left = {}
    BY <1>4, <1>8
  <2> HIDE DEF left
  <2>3. data \cup left = rest /\ data \cap left = {}
    BY <2>1, <2>2
  <2> QED
    BY <1>4, <1>6, <2>3 DEF page, left, rest, n
<1> QED
  BY <1>7, <1>8

(* Whoever asks, for whichever range, page size and cursor: a page and what *)
(* its cursor leaves to read are the rest of the listing, without overlap.  *)
THEOREM PagesCover == Spec => []PagesPartition
<1>1. ASSUME GatewayInv PROVE PagesPartition
  <2>1. ASSUME NEW rows \in SUBSET records
        PROVE  Listing(rows) /\ \A r \in rows : r.created >= 0
    <3>1. IsFiniteSet(rows)
      BY <1>1, RowsFinite, FS_Subset
    <3>2. \A r \in rows : r.created \in Int /\ r.created >= 0 /\ r.id \in Int
      <4>1. \A r \in rows : r.created \in 0 .. MaxMonth /\ r.id \in RecordIds
        BY <1>1 DEF GatewayInv, TypeOK, Row
      <4> QED
        BY <4>1, NumbersInRows
    <3> QED
      BY <1>1, <3>1, <3>2 DEF Listing, GatewayInv, TypeOK
  <2>2. \A scope, from, to : Selected(scope, from, to) \in SUBSET records
    BY DEF Selected
  <2> QED
    BY <2>1, <2>2, PageIsPrefix DEF PagesPartition
<1>2. GatewayInv => PagesPartition
  BY <1>1
<1> QED
  BY <1>2, GatewayInvariance, PTL
===============================================================================
