----------------------- MODULE BudgetTransactionsProofs -----------------------
(***************************************************************************)
(* Proofs about BudgetTransactions, for any number of keys, requests,      *)
(* reapers and administrators: the transactions implement the ledger,      *)
(* revocation is immediate, and handlers and reapers never deadlock.       *)
(***************************************************************************)
EXTENDS BudgetTransactions, SumTheorems, WellFoundedInduction, TLAPS

-------------------------------------------------------------------------------
(* Locks. *)

LEMMA LockFields ==
  ASSUME NEW t, NEW id
  PROVE  /\ NoKey(t, id).row = <<t, id>> /\ NoKey(t, id).mode = "no key update"
         /\ ForUpdate(t, id).row = <<t, id>> /\ ForUpdate(t, id).mode = "update"
         /\ Share(id).row = <<"vk", id>> /\ Share(id).mode = "key share"
BY DEF NoKey, ForUpdate, Share, Lock

LEMMA LocksTyped ==
  /\ \A k \in Keys : /\ NoKey("kb", k) \in Locks /\ ForUpdate("kb", k) \in Locks
                     /\ Share(k) \in Locks /\ ForUpdate("vk", k) \in Locks
  /\ \A r \in Requests : NoKey("rv", r) \in Locks /\ ForUpdate("rv", r) \in Locks
BY DEF NoKey, ForUpdate, Share, Lock, Locks

(* A row locked for writing has one owner. *)
LEMMA OneOwner ==
  ASSUME Exclusive, NEW p \in Procs, NEW q \in Procs, NEW row,
         Owns(p, row), Owns(q, row)
  PROVE  p = q
<1>1. PICK l \in holds[p] : l.row = row /\ l.mode # "key share"
  BY DEF Owns
<1>2. PICK m \in holds[q] : m.row = row /\ m.mode # "key share"
  BY DEF Owns
<1>3. Conflicts(l, m)
  BY <1>1, <1>2 DEF Conflicts
<1> QED
  BY <1>3 DEF Exclusive

LEMMA TakeKeepsExclusive ==
  ASSUME StateInv, Exclusive, NEW p \in Procs, NEW l \in Locks, Take(p, l)
  PROVE  /\ Exclusive'
         /\ holds' \in [Procs -> SUBSET Locks]
         /\ \A q \in Procs \ {p} : holds'[q] = holds[q]
         /\ holds'[p] = holds[p] \cup {l}
<1>1. /\ holds' \in [Procs -> SUBSET Locks]
      /\ \A q \in Procs \ {p} : holds'[q] = holds[q]
      /\ holds'[p] = holds[p] \cup {l}
  BY DEF Take, StateInv
<1>2. \A q \in Procs \ {p} : \A m \in holds[q] : ~Conflicts(m, l) /\ ~Conflicts(l, m)
  BY DEF Take, Free, Blocks, Conflicts
<1> QED
  BY <1>1, <1>2 DEF Exclusive

LEMMA ReleaseKeepsExclusive ==
  ASSUME StateInv, Exclusive, NEW p \in Procs, ReleaseAll(p)
  PROVE  /\ Exclusive'
         /\ holds' \in [Procs -> SUBSET Locks]
         /\ \A q \in Procs \ {p} : holds'[q] = holds[q]
         /\ holds'[p] = {}
BY DEF ReleaseAll, StateInv, Exclusive

-------------------------------------------------------------------------------
(* What a process knows stays true while others move. *)

LEMMA RequestKept ==
  ASSUME StateInv, NEW q \in Requests, RequestInv(q),
         pc'[q] = pc[q], holds'[q] = holds[q], req'[q] = req[q], reply'[q] = reply[q],
         now' \in Nat, now <= now',
         pc[q] # "idle" => /\ vk[req[q].key].exists => vk'[req[q].key].exists
                           /\ vk[req[q].key].revoked => vk'[req[q].key].revoked,
         pc[q] \in {"reserve_insert", "reserve_commit"} => kb'[req[q].key] = kb[req[q].key],
         \/ rv'[q] = rv[q]
         \/ /\ pc[q] \notin InReserve \cup {"idle", "settle_budget", "settle_commit"}
            /\ rv[q].state # "none" /\ rv'[q].key = rv[q].key
  PROVE  RequestInv(q)'
<1>1. req[q].start \in Nat /\ now \in Nat
  BY DEF StateInv, Call
<1>2. \A row : Owns(q, row)' <=> Owns(q, row)
  BY DEF Owns
<1>3. pc[q] \in {"reserve_insert", "reserve_commit"} => (Affordable(q)' <=> Affordable(q))
  BY DEF Affordable, SpentNow, Rotated, StartMonth, MonthOf
<1> QED
  BY <1>1, <1>2, <1>3 DEF RequestInv, InReserve, InSettle

LEMMA ReaperKept ==
  ASSUME StateInv, NEW a \in Reapers, ReaperInv(a),
         pc'[a] = pc[a], holds'[a] = holds[a], sweep'[a] = sweep[a],
         now' \in Nat, now <= now',
         pc[a] \in InSweep => \A r \in sweep[a].claims : rv'[r] = rv[r]
  PROVE  ReaperInv(a)'
<1>1. \A row : Owns(a, row)' <=> Owns(a, row)
  BY DEF Owns
<1>2. \A r \in sweep[a].claims : rv[r].expires \in Nat /\ now \in Nat
  BY DEF StateInv, Rows
<1> QED
  BY <1>1, <1>2 DEF ReaperInv

LEMMA AdminKept ==
  ASSUME StateInv, NEW a \in Admins, AdminInv(a),
         pc'[a] = pc[a], holds'[a] = holds[a], upd'[a] = upd[a],
         vk[upd[a].key].exists => vk'[upd[a].key].exists
  PROVE  AdminInv(a)'
<1>1. \A row : Owns(a, row)' <=> Owns(a, row)
  BY DEF Owns
<1> QED
  BY <1>1 DEF AdminInv

(* A step of process p, as the others see it: it moves nobody else, and it  *)
(* changes a balance, or a reservation that exists, only if it owns it.     *)
Moves(p) ==
    /\ \A q \in Procs \ {p} : pc'[q] = pc[q] /\ holds'[q] = holds[q]
    /\ \A q \in Requests \ {p} : req'[q] = req[q] /\ reply'[q] = reply[q]
    /\ \A a \in Reapers \ {p} : sweep'[a] = sweep[a]
    /\ \A a \in Admins \ {p} : upd'[a] = upd[a]

Respects(p) ==
    /\ now' = now
    /\ \A k \in Keys : kb'[k] = kb[k] \/ Owns(p, <<"kb", k>>)
    /\ \A r \in Requests : \/ rv'[r] = rv[r]
                           \/ r = p /\ rv[r].state = "none"
                           \/ /\ Owns(p, <<"rv", r>>) /\ rv[r].state # "none"
                              /\ rv'[r].key = rv[r].key
    /\ \A k \in Keys : /\ vk[k].exists => vk'[k].exists
                       /\ vk[k].revoked => vk'[k].revoked

LEMMA OthersKept ==
  ASSUME TransactionInv, NEW p \in Procs, Moves(p), Respects(p)
  PROVE  /\ \A q \in Requests \ {p} : RequestInv(q)'
         /\ \A a \in Reapers \ {p} : ReaperInv(a)'
         /\ \A a \in Admins \ {p} : AdminInv(a)'
<1>1. /\ StateInv /\ Exclusive /\ now' \in Nat /\ now <= now'
      /\ \A q \in Requests : RequestInv(q) /\ req[q].key \in Keys
      /\ \A a \in Reapers : ReaperInv(a) /\ sweep[a].claims \subseteq Requests
      /\ \A a \in Admins : AdminInv(a) /\ upd[a].key \in Keys
  BY DEF TransactionInv, StateInv, Call, Respects
<1>2. Requests \subseteq Procs /\ Reapers \subseteq Procs /\ Admins \subseteq Procs
  BY DEF Procs
<1>3. ASSUME NEW q \in Requests \ {p} PROVE RequestInv(q)'
  <2>1. ~Owns(p, <<"kb", req[q].key>>) \/ pc[q] \notin {"reserve_insert", "reserve_commit"}
    BY <1>1, <1>2, <1>3, OneOwner DEF RequestInv
  <2>2. ~Owns(p, <<"rv", q>>) \/ pc[q] \notin {"settle_budget", "settle_commit"}
    BY <1>1, <1>2, <1>3, OneOwner DEF RequestInv
  <2>3. \/ rv'[q] = rv[q]
        \/ /\ pc[q] \notin InReserve \cup {"idle", "settle_budget", "settle_commit"}
           /\ rv[q].state # "none" /\ rv'[q].key = rv[q].key
    BY <1>1, <1>3, <2>2 DEF Respects, RequestInv
  <2>4. pc[q] \in {"reserve_insert", "reserve_commit"} => kb'[req[q].key] = kb[req[q].key]
    BY <1>1, <1>3, <2>1 DEF Respects
  <2>5. /\ vk[req[q].key].exists => vk'[req[q].key].exists
        /\ vk[req[q].key].revoked => vk'[req[q].key].revoked
    BY <1>1, <1>3 DEF Respects
  <2>6. pc'[q] = pc[q] /\ holds'[q] = holds[q] /\ req'[q] = req[q] /\ reply'[q] = reply[q]
    BY <1>2, <1>3 DEF Moves
  <2> QED
    BY <1>1, <1>3, <2>3, <2>4, <2>5, <2>6, RequestKept
<1>4. ASSUME NEW a \in Reapers \ {p} PROVE ReaperInv(a)'
  <2>1. ASSUME pc[a] \in InSweep, NEW r \in sweep[a].claims PROVE rv'[r] = rv[r]
    <3>1. Owns(a, <<"rv", r>>) /\ rv[r].state = "pending"
      BY <1>1, <1>4, <2>1 DEF ReaperInv
    <3>2. ~Owns(p, <<"rv", r>>)
      BY <1>1, <1>2, <1>4, <3>1, OneOwner
    <3> QED
      BY <1>1, <1>4, <2>1, <3>1, <3>2 DEF Respects
  <2>2. pc'[a] = pc[a] /\ holds'[a] = holds[a] /\ sweep'[a] = sweep[a]
    BY <1>2, <1>4 DEF Moves
  <2> QED
    BY <1>1, <1>4, <2>1, <2>2, ReaperKept
<1>5. ASSUME NEW a \in Admins \ {p} PROVE AdminInv(a)'
  <2>1. pc'[a] = pc[a] /\ holds'[a] = holds[a] /\ upd'[a] = upd[a]
    BY <1>2, <1>5 DEF Moves
  <2>2. vk[upd[a].key].exists => vk'[upd[a].key].exists
    BY <1>1, <1>5 DEF Respects
  <2> QED
    BY <1>1, <1>5, <2>1, <2>2, AdminKept
<1> QED
  BY <1>3, <1>4, <1>5

(* So a step of a process has only its own part to show. *)
LEMMA RequestMove ==
  ASSUME TransactionInv, NEW p \in Requests, Moves(p), Respects(p),
         StateInv', Exclusive', RequestInv(p)'
  PROVE  TransactionInv'
<1>1. p \in Procs /\ p \notin Reapers /\ p \notin Admins
  BY ProcessesDistinct DEF Procs
<1> QED
  BY <1>1, OthersKept DEF TransactionInv

LEMMA ReaperMove ==
  ASSUME TransactionInv, NEW p \in Reapers, Moves(p), Respects(p),
         StateInv', Exclusive', ReaperInv(p)'
  PROVE  TransactionInv'
<1>1. p \in Procs /\ p \notin Requests /\ p \notin Admins
  BY ProcessesDistinct DEF Procs
<1> QED
  BY <1>1, OthersKept DEF TransactionInv

LEMMA AdminMove ==
  ASSUME TransactionInv, NEW p \in Admins, Moves(p), Respects(p),
         StateInv', Exclusive', AdminInv(p)'
  PROVE  TransactionInv'
<1>1. p \in Procs /\ p \notin Reapers /\ p \notin Requests
  BY ProcessesDistinct DEF Procs
<1> QED
  BY <1>1, OthersKept DEF TransactionInv

-------------------------------------------------------------------------------
(* Reserve. *)

LEMMA BeginReserveKeeps ==
  ASSUME TransactionInv, NEW p \in Requests, NEW k \in Keys, NEW m \in Models,
         NEW est \in Amounts, BeginReserve(p, k, m, est)
  PROVE  TransactionInv'
<1> DEFINE b == vk[k].revoked
           y == [NotStarted EXCEPT !.key = k, !.model = m, !.est = est, !.start = now,
                                   !.revokedAtStart = b]
<1> USE DEF Goto
<1>1. /\ StateInv /\ Exclusive /\ RequestInv(p) /\ p \in Procs
      /\ b \in BOOLEAN /\ now \in Nat /\ TTL \in Nat /\ MaxNow \in Nat
  BY ClockAssumption DEF TransactionInv, StateInv, Procs
<1>2. req' = [req EXCEPT ![p] = y]
  BY DEF BeginReserve
<1>3. (CHOOSE n \in Models : TRUE) \in Models
  BY KeysAndModels
<1> HIDE DEF b
<1>4. /\ y \in Call /\ y.key = k /\ y.start = now /\ y.revokedAtStart = b
  BY <1>1, <1>3, ZeroIsAnAmount, KeysAndModels DEF NotStarted, Call, Keys
<1> HIDE DEF y
<1>5. Moves(p)
  BY <1>1, <1>2 DEF BeginReserve, Moves, StateInv
<1>6. Respects(p)
  BY DEF BeginReserve, Respects
<1>7. StateInv'
  BY <1>1, <1>2, <1>4 DEF BeginReserve, StateInv, Labels, InReserve
<1>8. Exclusive'
  BY <1>1 DEF BeginReserve, Exclusive
<1>9. RequestInv(p)'
  <2>1. pc'[p] = "reserve_scan" /\ req'[p] = y
    BY <1>1, <1>2 DEF BeginReserve, StateInv
  <2>2. /\ rv'[p].state = "none" /\ reply'[p] = reply[p] /\ reply[p].err # "granted"
        /\ now + TTL < MaxNow /\ now' = now /\ vk' = vk
    BY <1>1 DEF BeginReserve, RequestInv
  <2> QED
    BY <1>1, <1>4, <2>1, <2>2 DEF RequestInv, InReserve, b
<1> QED
  BY <1>5, <1>6, <1>7, <1>8, <1>9, RequestMove

LEMMA ReserveScanKeeps ==
  ASSUME TransactionInv, NEW p \in Requests, ReserveScan(p)
  PROVE  TransactionInv'
<1> USE DEF Goto, tables, locals
<1>1. StateInv /\ Exclusive /\ RequestInv(p) /\ p \in Procs /\ req[p].key \in Keys
  BY DEF TransactionInv, StateInv, Procs, Call
<1>2. Moves(p) /\ Respects(p) /\ StateInv' /\ Exclusive'
  BY <1>1 DEF ReserveScan, Moves, Respects, StateInv, Exclusive, Labels, InReserve
<1>3. /\ pc[p] = "reserve_scan" /\ pc'[p] \in {"reserve_lock", "diagnose"}
      /\ pc'[p] = "reserve_lock" => vk[req[p].key].exists /\ ~vk[req[p].key].revoked
  BY <1>1 DEF ReserveScan, StateInv, Admitted
<1>4. RequestInv(p)'
  BY <1>1, <1>3 DEF ReserveScan, RequestInv, InReserve
<1> QED
  BY <1>2, <1>4, RequestMove

LEMMA ReserveLockKeeps ==
  ASSUME TransactionInv, NEW p \in Requests, ReserveLock(p)
  PROVE  TransactionInv'
<1> USE DEF Goto, tables, locals
<1> DEFINE k == req[p].key
           l == NoKey("kb", k)
<1>1. StateInv /\ Exclusive /\ RequestInv(p) /\ p \in Procs /\ k \in Keys
  BY DEF TransactionInv, StateInv, Procs, Call
<1>2. l \in Locks /\ l.row = <<"kb", k>> /\ l.mode = "no key update"
  BY <1>1, LocksTyped DEF NoKey, Lock
<1>3. /\ Exclusive' /\ holds' \in [Procs -> SUBSET Locks]
      /\ \A q \in Procs \ {p} : holds'[q] = holds[q]
      /\ holds'[p] = holds[p] \cup {l}
  BY <1>1, <1>2, TakeKeepsExclusive DEF ReserveLock
<1> HIDE DEF l
<1>4. Moves(p) /\ Respects(p) /\ StateInv'
  BY <1>1, <1>3 DEF ReserveLock, Moves, Respects, StateInv, Labels, InReserve
<1>5. /\ pc[p] = "reserve_lock" /\ pc'[p] \in {"reserve_insert", "diagnose"}
      /\ pc'[p] = "reserve_insert" => Affordable(p)
  BY <1>1 DEF ReserveLock, StateInv
<1>6. Owns(p, <<"kb", k>>)'
  BY <1>2, <1>3 DEF Owns, ReserveLock
<1>7. Affordable(p)' <=> Affordable(p)
  BY DEF ReserveLock, Affordable, SpentNow, Rotated, StartMonth, MonthOf
<1>8. RequestInv(p)'
  BY <1>1, <1>5, <1>6, <1>7 DEF ReserveLock, RequestInv, InReserve
<1> QED
  BY <1>3, <1>4, <1>8, RequestMove

LEMMA ReserveInsertKeeps ==
  ASSUME TransactionInv, NEW p \in Requests, ReserveInsert(p)
  PROVE  TransactionInv'
<1> USE DEF Goto, tables, locals
<1> DEFINE k == req[p].key
           l == Share(k)
<1>1. StateInv /\ Exclusive /\ RequestInv(p) /\ p \in Procs /\ k \in Keys
  BY DEF TransactionInv, StateInv, Procs, Call
<1>2. l \in Locks
  BY <1>1, LocksTyped
<1>3. /\ Exclusive' /\ holds' \in [Procs -> SUBSET Locks]
      /\ \A q \in Procs \ {p} : holds'[q] = holds[q]
      /\ holds'[p] = holds[p] \cup {l}
  BY <1>1, <1>2, TakeKeepsExclusive DEF ReserveInsert
<1> HIDE DEF l
<1>4. Moves(p) /\ Respects(p) /\ StateInv'
  BY <1>1, <1>3 DEF ReserveInsert, Moves, Respects, StateInv, Labels, InReserve
<1>5. pc[p] = "reserve_insert" /\ pc'[p] = "reserve_commit"
  BY <1>1 DEF ReserveInsert, StateInv
<1>6. Owns(p, <<"kb", k>>)'
  BY <1>1, <1>3, <1>5 DEF Owns, ReserveInsert, RequestInv
<1>7. Affordable(p)' <=> Affordable(p)
  BY DEF ReserveInsert, Affordable, SpentNow, Rotated, StartMonth, MonthOf
<1>8. RequestInv(p)'
  BY <1>1, <1>5, <1>6, <1>7 DEF ReserveInsert, RequestInv, InReserve
<1> QED
  BY <1>3, <1>4, <1>8, RequestMove

(* Months are quotients of the clock, so that they follow its order. *)
LEMMA MonthsOfClock ==
  ASSUME NEW a \in Nat
  PROVE  /\ MonthOf(a) \in Nat
         /\ MonthOf(a + 1) \in {MonthOf(a), MonthOf(a) + 1}
         /\ \A b \in Nat : a <= b => MonthOf(a) <= MonthOf(b)
BY ClockAssumption DEF MonthOf

LEMMA ReserveCommitTables ==
  ASSUME StateInv, NEW p \in Requests, RequestInv(p), NEW answered \in BOOLEAN,
         ReserveCommit(p, answered), NEW k \in Keys, k = req[p].key
  PROVE  /\ pc[p] = "reserve_commit"
         /\ kb' = [kb EXCEPT ![k] = [window |-> WindowNow(p), limit |-> kb[k].limit,
                                     spent |-> SpentNow(p),
                                     reserved |-> kb[k].reserved + req[p].est]]
         /\ rv' = [rv EXCEPT ![p] = [state |-> "pending", key |-> k, window |-> WindowNow(p),
                                     est |-> req[p].est, actual |-> 0, late |-> FALSE,
                                     expires |-> req[p].start + TTL]]
         /\ rv'[p].state = "pending" /\ rv'[p].key = k
         /\ kb' \in [Keys -> Balances] /\ rv' \in [Requests -> Rows]
<1> DEFINE bal == [window |-> WindowNow(p), limit |-> kb[k].limit, spent |-> SpentNow(p),
                   reserved |-> kb[k].reserved + req[p].est]
           row == [state |-> "pending", key |-> k, window |-> WindowNow(p),
                   est |-> req[p].est, actual |-> 0, late |-> FALSE,
                   expires |-> req[p].start + TTL]
<1>1. /\ req[p].est \in Nat /\ req[p].start \in Nat
      /\ kb[k] \in Balances /\ kb \in [Keys -> Balances] /\ rv \in [Requests -> Rows]
  BY AmountsNatural DEF StateInv, Call
<1>2. StartMonth(p) \in Nat
  BY <1>1, MonthsOfClock DEF StartMonth
<1>3. WindowNow(p) \in Nat /\ SpentNow(p) \in Int
  BY <1>1, <1>2 DEF WindowNow, SpentNow, Balances
<1>4. req[p].start + TTL \in 0 .. MaxNow /\ pc[p] = "reserve_commit"
  BY <1>1, ClockAssumption DEF ReserveCommit, RequestInv
<1>5. rv' = [rv EXCEPT ![p] = row]
  BY DEF ReserveCommit
<1>6. row \in Rows /\ row.state = "pending" /\ row.key = k
  BY <1>1, <1>3, <1>4 DEF Rows
<1>7. bal \in Balances
  BY <1>1, <1>3 DEF Balances
<1>8. kb' = [kb EXCEPT ![k] = bal]
  <2>1. kb' = [kb EXCEPT ![k].spent = SpentNow(p), ![k].window = WindowNow(p),
                         ![k].reserved = @ + req[p].est]
    BY DEF ReserveCommit
  <2>2. kb'[k] = bal
    BY <1>1, <2>1 DEF Balances
  <2>3. \A j \in Keys \ {k} : kb'[j] = kb[j]
    BY <1>1, <2>1
  <2>4. kb' = [j \in Keys |-> kb'[j]] /\ kb = [j \in Keys |-> kb[j]]
    BY <1>1, <2>1
  <2> QED
    BY <2>2, <2>3, <2>4
<1> HIDE DEF row, bal
<1>9. kb' \in [Keys -> Balances] /\ rv' \in [Requests -> Rows] /\ rv'[p] = row
  BY <1>1, <1>5, <1>6, <1>7, <1>8
<1> QED
  BY <1>4, <1>5, <1>6, <1>8, <1>9 DEF row, bal

(* The error of an answer replaced. *)
LEMMA ErrReplaced ==
  ASSUME StateInv, NEW p \in Requests, NEW e \in {"granted", "error"},
         reply' = [reply EXCEPT ![p].err = e]
  PROVE  /\ reply' \in [Requests -> Answers]
         /\ \A q \in Requests \ {p} : reply'[q] = reply[q]
         /\ reply'[p].err = e
<1>1. reply \in [Requests -> Answers] /\ reply[p] \in Answers
  BY DEF StateInv
<1>2. [reply[p] EXCEPT !.err = e] \in Answers /\ [reply[p] EXCEPT !.err = e].err = e
  BY <1>1 DEF Answers
<1> QED
  BY <1>1, <1>2

LEMMA ReserveCommitKeeps ==
  ASSUME TransactionInv, NEW p \in Requests, NEW answered \in BOOLEAN,
         ReserveCommit(p, answered)
  PROVE  TransactionInv'
<1> USE DEF Goto, tables, locals
<1> DEFINE k == req[p].key
           e == IF answered THEN "granted" ELSE "error"
<1>1. StateInv /\ Exclusive /\ RequestInv(p) /\ p \in Procs /\ k \in Keys
  BY DEF TransactionInv, StateInv, Procs, Call
<1>2. /\ pc[p] = "reserve_commit"
      /\ kb' = [kb EXCEPT ![k] = [window |-> WindowNow(p), limit |-> kb[k].limit,
                                  spent |-> SpentNow(p),
                                  reserved |-> kb[k].reserved + req[p].est]]
      /\ rv' = [rv EXCEPT ![p] = [state |-> "pending", key |-> k, window |-> WindowNow(p),
                                  est |-> req[p].est, actual |-> 0, late |-> FALSE,
                                  expires |-> req[p].start + TTL]]
      /\ rv'[p].state = "pending" /\ rv'[p].key = k
      /\ kb' \in [Keys -> Balances] /\ rv' \in [Requests -> Rows]
  BY <1>1, ReserveCommitTables
<1>3. /\ Exclusive' /\ holds' \in [Procs -> SUBSET Locks]
      /\ \A q \in Procs \ {p} : holds'[q] = holds[q]
  BY <1>1, ReleaseKeepsExclusive DEF ReserveCommit
<1>4. /\ reply' \in [Requests -> Answers]
      /\ \A q \in Requests \ {p} : reply'[q] = reply[q]
  <2>1. e \in {"granted", "error"} /\ reply' = [reply EXCEPT ![p].err = e]
    BY DEF ReserveCommit
  <2> HIDE DEF e
  <2> QED
    BY <1>1, <2>1, ErrReplaced
<1>5. Moves(p)
  BY <1>1, <1>3, <1>4 DEF ReserveCommit, Moves, StateInv
<1>6. Respects(p)
  <2>1. Owns(p, <<"kb", k>>) /\ rv[p].state = "none"
    BY <1>1, <1>2 DEF RequestInv, InReserve
  <2>2. /\ \A j \in Keys \ {k} : kb'[j] = kb[j]
        /\ \A r \in Requests \ {p} : rv'[r] = rv[r]
    BY <1>1, <1>2 DEF StateInv
  <2> QED
    BY <2>1, <2>2 DEF ReserveCommit, Respects
<1>7. failures' \in 0 .. MaxFailures
  BY <1>1, FailuresAssumption DEF ReserveCommit, StateInv
<1>8. StateInv'
  BY <1>1, <1>2, <1>3, <1>4, <1>7 DEF ReserveCommit, StateInv, Labels
<1>9. RequestInv(p)'
  <2>1. pc'[p] \in {"granted", "gone"} /\ req' = req /\ now' = now /\ vk' = vk
    BY <1>1 DEF ReserveCommit, StateInv
  <2> QED
    BY <1>1, <1>2, <2>1 DEF RequestInv, InReserve
<1> QED
  BY <1>3, <1>5, <1>6, <1>8, <1>9, RequestMove

LEMMA RefusalTyped ==
  ASSUME StateInv, NEW p \in Requests
  PROVE  Refusal(p) \in Answers /\ Refusal(p).err # "granted"
<1> DEFINE b == kb[req[p].key]
           answer(e) == [err |-> e, limit |-> NoLimit, spent |-> 0, reserved |-> 0]
<1>1. b \in Balances /\ NoLimit \in LimitValues
  BY DEF StateInv, Call, LimitValues
<1>2. answer("not found") \in Answers /\ answer("not found").err # "granted"
  BY <1>1 DEF Answers
<1>2a. answer("revoked") \in Answers /\ answer("revoked").err # "granted"
  BY <1>1 DEF Answers
<1>2b. answer("model not allowed") \in Answers /\ answer("model not allowed").err # "granted"
  BY <1>1 DEF Answers
<1> DEFINE exceeded == [err |-> "budget exceeded", limit |-> b.limit, spent |-> b.spent,
                        reserved |-> b.reserved]
<1>3. \/ Refusal(p) = answer("not found") \/ Refusal(p) = answer("revoked")
      \/ Refusal(p) = answer("model not allowed") \/ Refusal(p) = exceeded
  BY DEF Refusal
<1> HIDE DEF b
<1>4. exceeded \in Answers /\ exceeded.err # "granted"
  BY <1>1 DEF Answers, Balances
<1> HIDE DEF exceeded, answer
<1> QED
  BY <1>2, <1>2a, <1>2b, <1>3, <1>4

LEMMA DiagnoseKeeps ==
  ASSUME TransactionInv, NEW p \in Requests, Diagnose(p)
  PROVE  TransactionInv'
<1> USE DEF Goto, tables, locals
<1>1. StateInv /\ Exclusive /\ RequestInv(p) /\ p \in Procs /\ req[p].key \in Keys
  BY DEF TransactionInv, StateInv, Procs, Call
<1>2. Refusal(p) \in Answers /\ Refusal(p).err # "granted"
  BY <1>1, RefusalTyped
<1>3. /\ Exclusive' /\ holds' \in [Procs -> SUBSET Locks]
      /\ \A q \in Procs \ {p} : holds'[q] = holds[q]
  BY <1>1, ReleaseKeepsExclusive DEF Diagnose
<1>4. Moves(p) /\ Respects(p) /\ StateInv'
  BY <1>1, <1>2, <1>3 DEF Diagnose, Moves, Respects, StateInv, Labels
<1>5. pc[p] = "diagnose" /\ pc'[p] = "gone" /\ reply'[p].err # "granted"
  BY <1>1, <1>2 DEF Diagnose, StateInv
<1>6. RequestInv(p)'
  BY <1>1, <1>5 DEF Diagnose, RequestInv, InReserve
<1> QED
  BY <1>3, <1>4, <1>6, RequestMove

-------------------------------------------------------------------------------
(* Settle. *)

LEMMA BeginSettleKeeps ==
  ASSUME TransactionInv, NEW p \in Requests, NEW actual \in Amounts, BeginSettle(p, actual)
  PROVE  TransactionInv'
<1> USE DEF Goto, tables
<1> DEFINE y == [req[p] EXCEPT !.actual = actual]
<1>1. StateInv /\ Exclusive /\ RequestInv(p) /\ p \in Procs /\ req[p] \in Call
  BY DEF TransactionInv, StateInv, Procs
<1>2. /\ y \in Call /\ y.key = req[p].key /\ y.start = req[p].start
      /\ y.revokedAtStart = req[p].revokedAtStart
  BY <1>1 DEF Call
<1>3. req' = [req EXCEPT ![p] = y]
  BY DEF BeginSettle
<1> HIDE DEF y
<1>4. Moves(p) /\ Respects(p) /\ Exclusive'
  BY <1>1, <1>3 DEF BeginSettle, Moves, Respects, StateInv, Exclusive
<1>5. StateInv'
  <2>1. req' \in [Requests -> Call]
    BY <1>1, <1>2, <1>3 DEF StateInv
  <2>2. pc' = [pc EXCEPT ![p] = "settle_row"]
        /\ UNCHANGED <<now, vk, kb, rv, ceiling, holds, sweep, upd, reply, failures>>
    BY DEF BeginSettle
  <2> QED
    BY <1>1, <2>1, <2>2 DEF StateInv, Labels, InSettle
<1>6. pc[p] = "granted" /\ pc'[p] = "settle_row" /\ req'[p] = y
  BY <1>1, <1>3 DEF BeginSettle, StateInv
<1>7. RequestInv(p)'
  BY <1>1, <1>2, <1>6 DEF BeginSettle, RequestInv, InReserve, InSettle
<1> QED
  BY <1>4, <1>5, <1>7, RequestMove

LEMMA DeferredReleaseKeeps ==
  ASSUME TransactionInv, NEW p \in Requests, DeferredRelease(p)
  PROVE  TransactionInv'
<1> USE DEF Goto, tables
<1> DEFINE y == [req[p] EXCEPT !.actual = 0, !.again = TRUE]
<1>1. StateInv /\ Exclusive /\ RequestInv(p) /\ p \in Procs /\ req[p] \in Call
  BY DEF TransactionInv, StateInv, Procs
<1>2. /\ y \in Call /\ y.key = req[p].key /\ y.start = req[p].start
      /\ y.revokedAtStart = req[p].revokedAtStart
  BY <1>1, ZeroIsAnAmount DEF Call
<1>3. req' = [req EXCEPT ![p] = y]
  <2>1. req' = [req EXCEPT ![p].actual = 0, ![p].again = TRUE]
    BY DEF DeferredRelease
  <2>2. req'[p] = y /\ \A q \in Requests \ {p} : req'[q] = req[q]
    BY <1>1, <2>1 DEF StateInv, Call
  <2>3. req' = [q \in Requests |-> req'[q]] /\ req = [q \in Requests |-> req[q]]
    BY <1>1, <2>1 DEF StateInv
  <2> QED
    BY <2>2, <2>3
<1> HIDE DEF y
<1>4. Moves(p) /\ Respects(p) /\ Exclusive'
  BY <1>1, <1>3 DEF DeferredRelease, Moves, Respects, StateInv, Exclusive
<1>5. StateInv'
  BY <1>1, <1>2, <1>3 DEF DeferredRelease, StateInv, Labels, InSettle
<1>6. /\ pc[p] \in {"settled", "settle_failed"} /\ pc'[p] = "settle_row" /\ req'[p] = y
  BY <1>1, <1>3 DEF DeferredRelease, StateInv
<1>7. RequestInv(p)'
  BY <1>1, <1>2, <1>6 DEF DeferredRelease, RequestInv, InReserve, InSettle
<1> QED
  BY <1>4, <1>5, <1>7, RequestMove

LEMMA SettleRowKeeps ==
  ASSUME TransactionInv, NEW p \in Requests, SettleRow(p)
  PROVE  TransactionInv'
<1> USE DEF Goto, tables
<1>1. StateInv /\ Exclusive /\ RequestInv(p) /\ p \in Procs /\ req[p] \in Call
  BY DEF TransactionInv, StateInv, Procs
<1>2. CASE rv[p].state \notin {"pending", "expired"}
  <2>1. Moves(p) /\ Respects(p) /\ Exclusive' /\ StateInv'
    BY <1>1, <1>2 DEF SettleRow, Moves, Respects, StateInv, Exclusive, Labels
  <2>2. pc[p] = "settle_row" /\ pc'[p] = "settled"
    BY <1>1, <1>2 DEF SettleRow, StateInv
  <2>3. RequestInv(p)'
    BY <1>1, <1>2, <2>2 DEF SettleRow, RequestInv, InReserve, InSettle
  <2> QED
    BY <2>1, <2>3, RequestMove
<1>3. CASE rv[p].state \in {"pending", "expired"}
  <2> DEFINE l == NoKey("rv", p)
             b == ReturnedLate(p)
             y == [req[p] EXCEPT !.late = b]
  <2>1. l \in Locks /\ l.row = <<"rv", p>> /\ l.mode = "no key update"
    BY <1>1, LocksTyped DEF NoKey, Lock
  <2>2. b \in BOOLEAN /\ (b <=> rv[p].state = "expired")
    BY DEF ReturnedLate
  <2>3. req' = [req EXCEPT ![p] = y]
    BY <1>3 DEF SettleRow
  <2>4. /\ Exclusive' /\ holds' \in [Procs -> SUBSET Locks]
        /\ \A q \in Procs \ {p} : holds'[q] = holds[q]
        /\ holds'[p] = holds[p] \cup {l}
    BY <1>1, <1>3, <2>1, TakeKeepsExclusive DEF SettleRow
  <2> HIDE DEF b, l
  <2>5. /\ y \in Call /\ y.key = req[p].key /\ y.start = req[p].start
        /\ y.revokedAtStart = req[p].revokedAtStart /\ y.late = b
    BY <1>1, <2>2 DEF Call
  <2> HIDE DEF y
  <2>6. Moves(p) /\ Respects(p)
    BY <1>1, <1>3, <2>3, <2>4 DEF SettleRow, Moves, Respects, StateInv
  <2>7. StateInv'
    BY <1>1, <1>3, <2>3, <2>4, <2>5 DEF SettleRow, StateInv, Labels, InSettle
  <2>8. pc[p] = "settle_row" /\ pc'[p] = "settle_budget" /\ req'[p] = y
    BY <1>1, <1>3, <2>3 DEF SettleRow, StateInv
  <2>9. Owns(p, <<"rv", p>>)'
    BY <2>1, <2>4 DEF Owns
  <2>10. RequestInv(p)'
    BY <1>1, <1>3, <2>2, <2>5, <2>8, <2>9 DEF SettleRow, RequestInv, InReserve, InSettle
  <2> QED
    BY <2>4, <2>6, <2>7, <2>10, RequestMove
<1> QED
  BY <1>2, <1>3

LEMMA SettleBudgetKeeps ==
  ASSUME TransactionInv, NEW p \in Requests, SettleBudget(p)
  PROVE  TransactionInv'
<1> USE DEF Goto, tables, locals
<1> DEFINE k == req[p].key
           l == NoKey("kb", k)
<1>1. StateInv /\ Exclusive /\ RequestInv(p) /\ p \in Procs /\ k \in Keys
  BY DEF TransactionInv, StateInv, Procs, Call
<1>2. l \in Locks /\ l.row = <<"kb", k>> /\ l.mode = "no key update"
  BY <1>1, LocksTyped DEF NoKey, Lock
<1>3. /\ Exclusive' /\ holds' \in [Procs -> SUBSET Locks]
      /\ \A q \in Procs \ {p} : holds'[q] = holds[q]
      /\ holds'[p] = holds[p] \cup {l}
  BY <1>1, <1>2, TakeKeepsExclusive DEF SettleBudget
<1> HIDE DEF l
<1>4. Moves(p) /\ Respects(p) /\ StateInv'
  BY <1>1, <1>3 DEF SettleBudget, Moves, Respects, StateInv, Labels, InSettle
<1>5. pc[p] = "settle_budget" /\ pc'[p] = "settle_commit"
  BY <1>1 DEF SettleBudget, StateInv
<1>6. Owns(p, <<"kb", k>>)' /\ Owns(p, <<"rv", p>>)'
  BY <1>1, <1>2, <1>3, <1>5 DEF Owns, SettleBudget, RequestInv
<1>7. RequestInv(p)'
  BY <1>1, <1>5, <1>6 DEF SettleBudget, RequestInv, InReserve, InSettle
<1> QED
  BY <1>3, <1>4, <1>7, RequestMove

(* What a settle releases, and what it charges. *)
ReleasedBy(p) == IF req[p].late THEN 0 ELSE rv[p].est
ChargedBy(p) == IF kb[req[p].key].window = rv[p].window THEN req[p].actual ELSE 0

LEMMA SettleCommitTables ==
  ASSUME StateInv, NEW p \in Requests, RequestInv(p), NEW answered \in BOOLEAN,
         SettleCommit(p, answered), NEW k \in Keys, k = req[p].key
  PROVE  /\ pc[p] = "settle_commit" /\ rv[p].key = k
         /\ \A r \in Requests \ {p} : rv'[r] = rv[r]
         /\ rv'[p].state = "settled" /\ rv'[p].key = k /\ rv'[p].window = rv[p].window
         /\ rv'[p].est = rv[p].est /\ rv'[p].actual = req[p].actual
         /\ rv'[p].late = req[p].late /\ rv'[p].expires = rv[p].expires
         /\ kb' \in [Keys -> Balances] /\ rv' \in [Requests -> Rows]
<1> DEFINE released == ReleasedBy(p)
           charged == ChargedBy(p)
           late == req[p].late
           row == [rv[p] EXCEPT !.state = "settled", !.actual = req[p].actual, !.late = late]
           bal == [kb[k] EXCEPT !.reserved = kb[k].reserved - released,
                                !.spent = kb[k].spent + charged]
<1>1. /\ req[p].actual \in Nat /\ late \in BOOLEAN
      /\ kb[k] \in Balances /\ kb \in [Keys -> Balances]
      /\ rv[p] \in Rows /\ rv \in [Requests -> Rows]
  BY AmountsNatural DEF StateInv, Call
<1>2. released \in Nat /\ charged \in Nat
  BY <1>1 DEF Rows, ReleasedBy, ChargedBy
<1>3. pc[p] = "settle_commit" /\ rv[p].key = k
  BY DEF SettleCommit, RequestInv
<1>4. kb' = [kb EXCEPT ![k].reserved = @ - released, ![k].spent = @ + charged]
  BY DEF SettleCommit, ReleasedBy, ChargedBy
<1>5. rv' = [rv EXCEPT ![p].state = "settled", ![p].actual = req[p].actual, ![p].late = late]
  BY DEF SettleCommit
<1> HIDE DEF released, charged, late
<1>6. kb' = [kb EXCEPT ![k] = bal]
  <2>1. kb'[k] = bal
    BY <1>1, <1>4 DEF Balances
  <2>2. \A j \in Keys \ {k} : kb'[j] = kb[j]
    BY <1>1, <1>4
  <2>3. kb' = [j \in Keys |-> kb'[j]] /\ kb = [j \in Keys |-> kb[j]]
    BY <1>1, <1>4
  <2> QED
    BY <2>1, <2>2, <2>3
<1>7. rv' = [rv EXCEPT ![p] = row]
  <2>1. rv'[p] = row
    BY <1>1, <1>5 DEF Rows
  <2>2. \A r \in Requests \ {p} : rv'[r] = rv[r]
    BY <1>1, <1>5
  <2>3. rv' = [r \in Requests |-> rv'[r]] /\ rv = [r \in Requests |-> rv[r]]
    BY <1>1, <1>5
  <2> QED
    BY <2>1, <2>2, <2>3
<1>8. bal \in Balances
  <2>1. kb[k].reserved - released \in Int /\ kb[k].spent + charged \in Int
    BY <1>1, <1>2 DEF Balances
  <2> QED
    BY <1>1, <2>1 DEF Balances
<1>9. /\ row \in Rows /\ row.state = "settled" /\ row.key = k
      /\ row.window = rv[p].window /\ row.est = rv[p].est /\ row.actual = req[p].actual
      /\ row.late = late /\ row.expires = rv[p].expires
  BY <1>1, <1>3 DEF Rows
<1> HIDE DEF row, bal
<1>10. /\ kb' \in [Keys -> Balances] /\ rv' \in [Requests -> Rows] /\ rv'[p] = row
       /\ \A r \in Requests \ {p} : rv'[r] = rv[r]
  BY <1>1, <1>6, <1>7, <1>8, <1>9
<1> QED
  BY <1>3, <1>9, <1>10 DEF late

LEMMA SettleCommitKeeps ==
  ASSUME TransactionInv, NEW p \in Requests, NEW answered \in BOOLEAN,
         SettleCommit(p, answered)
  PROVE  TransactionInv'
<1> USE DEF Goto, tables, locals
<1> DEFINE k == req[p].key
<1>1. StateInv /\ Exclusive /\ RequestInv(p) /\ p \in Procs /\ k \in Keys
  BY DEF TransactionInv, StateInv, Procs, Call
<1>2. /\ pc[p] = "settle_commit"
      /\ \A r \in Requests \ {p} : rv'[r] = rv[r]
      /\ \A j \in Keys \ {k} : kb'[j] = kb[j]
      /\ rv'[p].state = "settled" /\ rv'[p].key = k /\ rv[p].key = k
      /\ kb' \in [Keys -> Balances] /\ rv' \in [Requests -> Rows]
  <2>1. /\ pc[p] = "settle_commit"
        /\ rv'[p].state = "settled" /\ rv'[p].key = k /\ rv[p].key = k
        /\ kb' \in [Keys -> Balances] /\ rv' \in [Requests -> Rows]
    BY <1>1, SettleCommitTables
  <2> QED
    BY <1>1, <2>1 DEF SettleCommit, StateInv
<1>3. /\ Exclusive' /\ holds' \in [Procs -> SUBSET Locks]
      /\ \A q \in Procs \ {p} : holds'[q] = holds[q]
  BY <1>1, ReleaseKeepsExclusive DEF SettleCommit
<1>4. Moves(p)
  BY <1>1, <1>3 DEF SettleCommit, Moves, StateInv
<1>5. Respects(p)
  <2>1. Owns(p, <<"kb", k>>) /\ Owns(p, <<"rv", p>>) /\ rv[p].state # "none"
    BY <1>1, <1>2 DEF RequestInv
  <2> QED
    BY <1>2, <2>1 DEF SettleCommit, Respects
<1>6. failures' \in 0 .. MaxFailures
  BY <1>1, FailuresAssumption DEF SettleCommit, StateInv
<1>7. StateInv'
  BY <1>1, <1>2, <1>3, <1>6 DEF SettleCommit, StateInv, Labels
<1>8. RequestInv(p)'
  <2>1. /\ pc'[p] \in {"settled", "settle_failed"} /\ req' = req /\ now' = now /\ vk' = vk
        /\ reply' = reply
    BY <1>1 DEF SettleCommit, StateInv
  <2> QED
    BY <1>1, <1>2, <2>1 DEF RequestInv, InReserve, InSettle
<1> QED
  BY <1>3, <1>4, <1>5, <1>7, <1>8, RequestMove

-------------------------------------------------------------------------------
(* The reaper. *)

LEMMA ReapSelectKeeps ==
  ASSUME TransactionInv, NEW a \in Reapers, NEW B \in SUBSET Requests, ReapSelect(a, B)
  PROVE  TransactionInv'
<1> USE DEF Goto, tables
<1> DEFINE L == {ForUpdate("rv", r) : r \in B}
           w == [claims |-> B, todo |-> {rv[r].key : r \in B}]
<1>1. StateInv /\ Exclusive /\ ReaperInv(a) /\ a \in Procs
  BY DEF TransactionInv, Procs
<1>2. B \subseteq Claimable(a) /\ B # {}
  BY DEF ReapSelect, OldestOf
<1>3. L \subseteq Locks /\ \A r \in B : ForUpdate("rv", r) \in L
  BY LocksTyped
<1>4. /\ holds' = [holds EXCEPT ![a] = L]
      /\ sweep' = [sweep EXCEPT ![a] = w]
  BY DEF ReapSelect
<1>5. \A q \in Procs \ {a} : \A m \in holds[q], l \in L : ~Conflicts(m, l) /\ ~Conflicts(l, m)
  BY <1>2 DEF Claimable, Free, Blocks, Conflicts
<1> HIDE DEF L
<1>6. /\ \A q \in Procs \ {a} : holds'[q] = holds[q]
      /\ holds'[a] = L /\ holds' \in [Procs -> SUBSET Locks]
  BY <1>1, <1>3, <1>4 DEF StateInv
<1>7. Exclusive'
  BY <1>1, <1>5, <1>6 DEF Exclusive
<1>8. w \in [claims: SUBSET Requests, todo: SUBSET Keys]
  BY <1>1 DEF StateInv, Rows
<1>9. StateInv'
  <2> HIDE DEF w
  <2> QED
    BY <1>1, <1>4, <1>6, <1>8 DEF ReapSelect, StateInv, Labels, InSweep
<1>10. Moves(a) /\ Respects(a)
  <2> HIDE DEF w
  <2> QED
    BY <1>1, <1>4, <1>6 DEF ReapSelect, Moves, Respects, StateInv
<1>11. ReaperInv(a)'
  <2>1. pc'[a] = "reap_lock" /\ sweep'[a] = w /\ rv' = rv /\ now' = now
    BY <1>1, <1>4 DEF ReapSelect, StateInv
  <2>2. \A r \in B : Owns(a, <<"rv", r>>)'
    <3> SUFFICES ASSUME NEW r \in B PROVE Owns(a, <<"rv", r>>)'
      OBVIOUS
    <3>1. /\ ForUpdate("rv", r) \in holds'[a]
          /\ ForUpdate("rv", r).row = <<"rv", r>> /\ ForUpdate("rv", r).mode = "update"
      BY <1>3, <1>6 DEF ForUpdate, Lock
    <3> QED
      BY <3>1 DEF Owns
  <2>3. \A r \in B : rv[r].state = "pending" /\ rv[r].expires < now
    BY <1>2 DEF Claimable, Expired
  <2> QED
    BY <1>2, <2>1, <2>2, <2>3 DEF ReaperInv, InSweep
<1> QED
  BY <1>7, <1>9, <1>10, <1>11, ReaperMove

LEMMA ReapLockKeeps ==
  ASSUME TransactionInv, NEW a \in Reapers, ReapLock(a)
  PROVE  TransactionInv'
<1> USE DEF Goto, tables
<1>1. StateInv /\ Exclusive /\ ReaperInv(a) /\ a \in Procs /\ sweep[a].todo \subseteq Keys
  BY DEF TransactionInv, Procs, StateInv
<1>2. PICK k \in LowestFirst(a) :
         /\ Take(a, ForUpdate("kb", k))
         /\ sweep' = [sweep EXCEPT ![a].todo = @ \ {k}]
         /\ pc' = [pc EXCEPT ![a] = IF sweep[a].todo = {k} THEN "reap_commit" ELSE "reap_lock"]
  BY DEF ReapLock
<1> DEFINE l == ForUpdate("kb", k)
           w == [sweep[a] EXCEPT !.todo = sweep[a].todo \ {k}]
<1>3. k \in sweep[a].todo /\ k \in Keys
  BY <1>1 DEF LowestFirst
<1>4. l \in Locks /\ l.row = <<"kb", k>> /\ l.mode = "update"
  BY <1>3, LocksTyped DEF ForUpdate, Lock
<1>5. /\ Exclusive' /\ holds' \in [Procs -> SUBSET Locks]
      /\ \A q \in Procs \ {a} : holds'[q] = holds[q]
      /\ holds'[a] = holds[a] \cup {l}
  BY <1>1, <1>2, <1>4, TakeKeepsExclusive
<1>6. sweep' = [sweep EXCEPT ![a] = w]
  BY <1>2
<1>7. /\ w \in [claims: SUBSET Requests, todo: SUBSET Keys]
      /\ w.claims = sweep[a].claims /\ w.todo = sweep[a].todo \ {k}
  BY <1>1 DEF StateInv
<1> HIDE DEF l, w
<1>8. StateInv'
  <2>1. pc' \in [Procs -> Labels]
    BY <1>1, <1>2 DEF StateInv, Labels, InSweep
  <2> QED
    BY <1>1, <1>5, <1>6, <1>7, <2>1 DEF ReapLock, StateInv
<1>9. Moves(a) /\ Respects(a)
  BY <1>1, <1>2, <1>5, <1>6 DEF ReapLock, Moves, Respects, StateInv
<1>10. ReaperInv(a)'
  <2>1. /\ pc[a] = "reap_lock" /\ sweep'[a] = w /\ rv' = rv /\ now' = now
        /\ pc'[a] = IF sweep[a].todo = {k} THEN "reap_commit" ELSE "reap_lock"
    BY <1>1, <1>2, <1>6 DEF ReapLock, StateInv
  <2>2. /\ \A row : Owns(a, row) => Owns(a, row)'
        /\ Owns(a, <<"kb", k>>)'
    BY <1>4, <1>5 DEF Owns
  <2> QED
    BY <1>1, <1>7, <2>1, <2>2 DEF ReaperInv, InSweep
<1> QED
  BY <1>5, <1>8, <1>9, <1>10, ReaperMove

(* What a sweep gives back to a key is the sum of what its claims held; it  *)
(* gives nothing to a key none of whose rows it claims.                     *)
LEMMA ClaimedTyped ==
  ASSUME StateInv, NEW a \in Reapers, NEW k \in Keys
  PROVE  /\ ClaimedBy(a, k) \in Nat
         /\ (\A r \in sweep[a].claims : rv[r].key # k) => ClaimedBy(a, k) = 0
<1> DEFINE S == {r \in sweep[a].claims : rv[r].key = k}
           f == [r \in Requests |-> rv[r].est]
<1>1. ClaimedBy(a, k) = Total(S, f)
  BY DEF ClaimedBy
<1>2. S \subseteq Requests /\ \A r \in S : f[r] \in Nat
  BY DEF StateInv, Rows
<1>3. IsFiniteSet(S)
  BY <1>2, RequestsFinite, FS_Subset
<1>4. Total(S, f) \in Nat
  <2> HIDE DEF S, f
  <2> QED
    BY <1>2, <1>3, TotalNat
<1>5. ASSUME \A r \in sweep[a].claims : rv[r].key # k PROVE Total(S, f) = 0
  <2>1. S = {}
    BY <1>5
  <2> QED
    BY <2>1, TotalEmpty
<1> QED
  BY <1>1, <1>4, <1>5

LEMMA ReapCommitTables ==
  ASSUME StateInv, NEW a \in Reapers, ReaperInv(a), ReapCommit(a)
  PROVE  /\ pc[a] = "reap_commit"
         /\ kb' \in [Keys -> Balances] /\ rv' \in [Requests -> Rows]
         /\ \A k \in Keys : kb'[k] = kb[k] \/ Owns(a, <<"kb", k>>)
         /\ \A r \in Requests :
               \/ rv'[r] = rv[r]
               \/ Owns(a, <<"rv", r>>) /\ rv[r].state # "none" /\ rv'[r].key = rv[r].key
<1>1. /\ pc[a] = "reap_commit" /\ kb \in [Keys -> Balances] /\ rv \in [Requests -> Rows]
      /\ sweep[a].claims \subseteq Requests
  BY DEF ReapCommit, StateInv
<1>2. \A r \in sweep[a].claims : /\ Owns(a, <<"rv", r>>) /\ rv[r].state = "pending"
                                 /\ Owns(a, <<"kb", rv[r].key>>)
  BY <1>1 DEF ReaperInv, InSweep
<1>3. ASSUME NEW k \in Keys
      PROVE  kb'[k] \in Balances /\ (kb'[k] = kb[k] \/ Owns(a, <<"kb", k>>))
  <2> DEFINE n == ClaimedBy(a, k)
             b == kb[k]
  <2>1. n \in Nat /\ ((\A r \in sweep[a].claims : rv[r].key # k) => n = 0)
    BY ClaimedTyped
  <2>2. kb'[k] = [b EXCEPT !.reserved = b.reserved - n]
    BY DEF ReapCommit
  <2>3. b \in Balances
    BY <1>1
  <2> HIDE DEF n, b
  <2>4. [b EXCEPT !.reserved = b.reserved - n] \in Balances
    BY <2>1, <2>3 DEF Balances
  <2>5. n = 0 => [b EXCEPT !.reserved = b.reserved - n] = b
    BY <2>3 DEF Balances
  <2> QED
    BY <1>2, <2>1, <2>2, <2>4, <2>5 DEF b
<1>4. ASSUME NEW r \in Requests
      PROVE  /\ rv'[r] \in Rows
             /\ \/ rv'[r] = rv[r]
                \/ Owns(a, <<"rv", r>>) /\ rv[r].state # "none" /\ rv'[r].key = rv[r].key
  <2> DEFINE y == [rv[r] EXCEPT !.state = "expired"]
  <2>1. (rv'[r] = y /\ r \in sweep[a].claims) \/ rv'[r] = rv[r]
    BY DEF ReapCommit
  <2>2. rv[r] \in Rows
    BY <1>1
  <2>3. y \in Rows /\ y.key = rv[r].key
    BY <2>2 DEF Rows
  <2> HIDE DEF y
  <2> QED
    BY <1>2, <2>1, <2>2, <2>3
<1>5. kb' = [k \in Keys |-> kb'[k]] /\ rv' = [r \in Requests |-> rv'[r]]
  BY DEF ReapCommit
<1> QED
  BY <1>1, <1>3, <1>4, <1>5

LEMMA ReapCommitKeeps ==
  ASSUME TransactionInv, NEW a \in Reapers, ReapCommit(a)
  PROVE  TransactionInv'
<1> USE DEF Goto
<1>1. StateInv /\ Exclusive /\ ReaperInv(a) /\ a \in Procs
  BY DEF TransactionInv, Procs
<1>2. /\ kb' \in [Keys -> Balances] /\ rv' \in [Requests -> Rows]
      /\ \A k \in Keys : kb'[k] = kb[k] \/ Owns(a, <<"kb", k>>)
      /\ \A r \in Requests :
            \/ rv'[r] = rv[r]
            \/ Owns(a, <<"rv", r>>) /\ rv[r].state # "none" /\ rv'[r].key = rv[r].key
  BY <1>1, ReapCommitTables
<1>3. /\ Exclusive' /\ holds' \in [Procs -> SUBSET Locks]
      /\ \A q \in Procs \ {a} : holds'[q] = holds[q]
  BY <1>1, ReleaseKeepsExclusive DEF ReapCommit
<1>4. /\ UNCHANGED <<now, vk, ceiling, req, upd, reply, failures>>
      /\ pc' = [pc EXCEPT ![a] = "idle"] /\ sweep' = [sweep EXCEPT ![a] = NoSweep]
  BY DEF ReapCommit
<1>5. Moves(a)
  BY <1>1, <1>3, <1>4 DEF Moves, StateInv
<1>6. Respects(a)
  BY <1>2, <1>4 DEF Respects
<1>7. NoSweep \in [claims: SUBSET Requests, todo: SUBSET Keys]
  BY DEF NoSweep
<1>8. StateInv'
  BY <1>1, <1>2, <1>3, <1>4, <1>7 DEF StateInv, Labels
<1>9. ReaperInv(a)'
  BY <1>1, <1>4 DEF ReaperInv, InSweep, StateInv
<1> QED
  BY <1>3, <1>5, <1>6, <1>8, <1>9, ReaperMove

-------------------------------------------------------------------------------
(* Key administration. *)

LEMMA CreateKeyKeeps ==
  ASSUME TransactionInv, NEW k \in Keys, NEW limit \in LimitValues,
         NEW allowed \in SUBSET Models, CreateKey(k, limit, allowed)
  PROVE  TransactionInv'
<1> USE DEF locals
<1> DEFINE key == [exists |-> TRUE, revoked |-> FALSE, allowed |-> allowed]
           bal == [window |-> MonthOf(now), limit |-> limit, spent |-> 0, reserved |-> 0]
<1>1. /\ StateInv /\ Exclusive /\ now \in Nat
      /\ \A p \in Requests : RequestInv(p) /\ req[p].key \in Keys
      /\ \A a \in Reapers : ReaperInv(a)
      /\ \A a \in Admins : AdminInv(a) /\ upd[a].key \in Keys
  BY DEF TransactionInv, StateInv, Call
<1>2. /\ vk' = [vk EXCEPT ![k] = key] /\ kb' = [kb EXCEPT ![k] = bal]
      /\ UNCHANGED <<now, rv, ceiling, holds, pc, req, sweep, upd, reply, failures>>
      /\ ~vk[k].exists /\ \A p \in Requests : pc[p] # "idle" => req[p].key # k
  BY DEF CreateKey
<1>3. key \in [exists: BOOLEAN, revoked: BOOLEAN, allowed: SUBSET Models] /\ key.exists
  OBVIOUS
<1>4. MonthOf(now) \in Nat
  BY <1>1, MonthsOfClock
<1>5. bal \in Balances
  BY <1>4 DEF Balances
<1> HIDE DEF key, bal
<1>6. StateInv'
  BY <1>1, <1>2, <1>3, <1>5 DEF StateInv
<1>7. Exclusive'
  BY <1>1, <1>2 DEF Exclusive
<1>8. \A j \in Keys \ {k} : vk'[j] = vk[j] /\ kb'[j] = kb[j]
  BY <1>1, <1>2 DEF StateInv
<1>9. vk'[k] = key
  BY <1>1, <1>2 DEF StateInv
<1>10. ASSUME NEW p \in Requests PROVE RequestInv(p)'
  <2>1. pc[p] # "idle" => /\ vk'[req[p].key] = vk[req[p].key]
                          /\ kb'[req[p].key] = kb[req[p].key]
    BY <1>1, <1>2, <1>8
  <2>2. pc[p] \in {"reserve_insert", "reserve_commit"} => kb'[req[p].key] = kb[req[p].key]
    BY <2>1
  <2> QED
    BY <1>1, <1>2, <2>1, <2>2, RequestKept
<1>11. ASSUME NEW a \in Reapers PROVE ReaperInv(a)'
  BY <1>1, <1>2, ReaperKept
<1>12. ASSUME NEW a \in Admins PROVE AdminInv(a)'
  <2>1. vk[upd[a].key].exists => vk'[upd[a].key].exists
    BY <1>1, <1>3, <1>8, <1>9
  <2> QED
    BY <1>1, <1>2, <2>1, AdminKept
<1> QED
  BY <1>6, <1>7, <1>10, <1>11, <1>12 DEF TransactionInv

LEMMA RevokeKeyKeeps ==
  ASSUME TransactionInv, NEW a \in Admins, NEW k \in Keys, RevokeKey(a, k)
  PROVE  TransactionInv'
<1> USE DEF Goto, locals
<1> DEFINE key == [vk[k] EXCEPT !.revoked = TRUE]
<1>1. /\ StateInv /\ Exclusive /\ AdminInv(a) /\ a \in Procs
      /\ vk[k] \in [exists: BOOLEAN, revoked: BOOLEAN, allowed: SUBSET Models]
  BY DEF TransactionInv, Procs, StateInv
<1>2. /\ vk' = [vk EXCEPT ![k] = key] /\ pc' = [pc EXCEPT ![a] = "gone"]
      /\ UNCHANGED <<now, kb, rv, ceiling, holds, req, sweep, upd, reply, failures>>
  BY DEF RevokeKey
<1>3. /\ key \in [exists: BOOLEAN, revoked: BOOLEAN, allowed: SUBSET Models]
      /\ key.exists = vk[k].exists /\ key.revoked
  BY <1>1
<1> HIDE DEF key
<1>4. StateInv'
  BY <1>1, <1>2, <1>3 DEF StateInv, Labels
<1>5. Exclusive'
  BY <1>1, <1>2 DEF Exclusive
<1>6. Moves(a)
  BY <1>1, <1>2 DEF Moves, StateInv
<1>7. Respects(a)
  <2>1. vk'[k] = key /\ \A j \in Keys \ {k} : vk'[j] = vk[j]
    BY <1>1, <1>2 DEF StateInv
  <2> QED
    BY <1>2, <1>3, <2>1 DEF Respects
<1>8. pc'[a] = "gone"
  BY <1>1, <1>2 DEF StateInv
<1>9. AdminInv(a)'
  BY <1>8 DEF AdminInv
<1> QED
  BY <1>4, <1>5, <1>6, <1>7, <1>9, AdminMove

LEMMA BeginUpdateKeeps ==
  ASSUME TransactionInv, NEW a \in Admins, NEW k \in Keys,
         NEW limit \in LimitValues \cup {Keep}, NEW allowed \in (SUBSET Models) \cup {Keep},
         BeginUpdate(a, k, limit, allowed)
  PROVE  TransactionInv'
<1> USE DEF Goto, tables
<1> DEFINE u == [key |-> k, limit |-> limit, allowed |-> allowed]
<1>1. StateInv /\ Exclusive /\ AdminInv(a) /\ a \in Procs
  BY DEF TransactionInv, Procs
<1>2. /\ upd' = [upd EXCEPT ![a] = u] /\ pc' = [pc EXCEPT ![a] = "update_lock"]
      /\ UNCHANGED <<now, vk, kb, rv, ceiling, holds, req, sweep, reply, failures>>
  BY DEF BeginUpdate
<1>3. u \in [key: Keys, limit: LimitValues \cup {Keep}, allowed: (SUBSET Models) \cup {Keep}]
  OBVIOUS
<1> HIDE DEF u
<1>4. StateInv'
  BY <1>1, <1>2, <1>3 DEF StateInv, Labels, InUpdate
<1>5. Exclusive' /\ Moves(a) /\ Respects(a)
  BY <1>1, <1>2 DEF Exclusive, Moves, Respects, StateInv
<1>6. pc'[a] = "update_lock"
  BY <1>1, <1>2 DEF StateInv
<1>7. AdminInv(a)'
  BY <1>6 DEF AdminInv, InUpdate
<1> QED
  BY <1>4, <1>5, <1>7, AdminMove

LEMMA UpdateLockKeeps ==
  ASSUME TransactionInv, NEW a \in Admins, UpdateLock(a)
  PROVE  TransactionInv'
<1> USE DEF Goto, tables, locals
<1> DEFINE k == upd[a].key
           l == ForUpdate("vk", k)
<1>1. StateInv /\ Exclusive /\ AdminInv(a) /\ a \in Procs /\ k \in Keys
  BY DEF TransactionInv, Procs, StateInv
<1>2. l \in Locks
  BY <1>1, LocksTyped
<1>3. /\ Exclusive' /\ holds' \in [Procs -> SUBSET Locks]
      /\ \A q \in Procs \ {a} : holds'[q] = holds[q]
  <2>1. CASE Take(a, l)
    BY <1>1, <1>2, <2>1, TakeKeepsExclusive
  <2>2. CASE UNCHANGED holds
    BY <1>1, <2>2 DEF Exclusive, StateInv
  <2> QED
    BY <2>1, <2>2 DEF UpdateLock
<1> HIDE DEF l
<1>4. /\ UNCHANGED <<now, vk, kb, rv, ceiling, req, sweep, upd, reply, failures>>
      /\ \E label \in {"update_commit", "update_limit", "gone"} :
            /\ pc' = [pc EXCEPT ![a] = label]
            /\ label # "gone" => vk[k].exists
            /\ label = "update_commit" => upd[a].limit = Keep
  BY DEF UpdateLock
<1>5. PICK label \in {"update_commit", "update_limit", "gone"} :
            /\ pc' = [pc EXCEPT ![a] = label]
            /\ label # "gone" => vk[k].exists
            /\ label = "update_commit" => upd[a].limit = Keep
  BY <1>4
<1>6. Moves(a) /\ Respects(a)
  BY <1>1, <1>3, <1>4, <1>5 DEF Moves, Respects, StateInv
<1>7. StateInv'
  <2>1. label \in Labels
    BY DEF Labels, InUpdate
  <2> QED
    BY <1>1, <1>3, <1>4, <1>5, <2>1 DEF StateInv
<1>8. pc'[a] = label
  BY <1>1, <1>5 DEF StateInv
<1>9. AdminInv(a)'
  BY <1>4, <1>5, <1>8 DEF AdminInv, InUpdate
<1> QED
  BY <1>3, <1>6, <1>7, <1>9, AdminMove

LEMMA UpdateLimitKeeps ==
  ASSUME TransactionInv, NEW a \in Admins, UpdateLimit(a)
  PROVE  TransactionInv'
<1> USE DEF Goto, tables, locals
<1> DEFINE k == upd[a].key
           l == NoKey("kb", k)
<1>1. StateInv /\ Exclusive /\ AdminInv(a) /\ a \in Procs /\ k \in Keys
  BY DEF TransactionInv, Procs, StateInv
<1>2. l \in Locks /\ l.row = <<"kb", k>> /\ l.mode = "no key update"
  BY <1>1, LocksTyped DEF NoKey, Lock
<1>3. /\ Exclusive' /\ holds' \in [Procs -> SUBSET Locks]
      /\ \A q \in Procs \ {a} : holds'[q] = holds[q]
      /\ holds'[a] = holds[a] \cup {l}
  BY <1>1, <1>2, TakeKeepsExclusive DEF UpdateLimit
<1> HIDE DEF l
<1>4. Moves(a) /\ Respects(a) /\ StateInv'
  BY <1>1, <1>3 DEF UpdateLimit, Moves, Respects, StateInv, Labels, InUpdate
<1>5. pc[a] = "update_limit" /\ pc'[a] = "update_commit"
  BY <1>1 DEF UpdateLimit, StateInv
<1>6. Owns(a, <<"kb", k>>)'
  BY <1>2, <1>3 DEF Owns, UpdateLimit
<1>7. AdminInv(a)'
  BY <1>1, <1>5, <1>6 DEF UpdateLimit, AdminInv, InUpdate
<1> QED
  BY <1>3, <1>4, <1>7, AdminMove

(* The key and the balance that an update leaves. *)
NewKey(a) == [vk[upd[a].key] EXCEPT
                 !.allowed = IF upd[a].allowed = Keep THEN vk[upd[a].key].allowed
                             ELSE upd[a].allowed]
NewBalance(a) == [kb[upd[a].key] EXCEPT
                     !.limit = IF upd[a].limit = Keep THEN kb[upd[a].key].limit
                               ELSE upd[a].limit]

LEMMA UpdateCommitTables ==
  ASSUME StateInv, NEW a \in Admins, UpdateCommit(a), NEW k \in Keys, k = upd[a].key
  PROVE  /\ pc[a] = "update_commit"
         /\ vk' = [vk EXCEPT ![k] = NewKey(a)] /\ kb' = [kb EXCEPT ![k] = NewBalance(a)]
         /\ NewKey(a) \in [exists: BOOLEAN, revoked: BOOLEAN, allowed: SUBSET Models]
         /\ NewKey(a).exists = vk[k].exists /\ NewKey(a).revoked = vk[k].revoked
         /\ NewBalance(a) \in Balances
         /\ upd[a].limit = Keep => NewBalance(a) = kb[k]
<1> DEFINE al == IF upd[a].allowed = Keep THEN vk[k].allowed ELSE upd[a].allowed
           li == IF upd[a].limit = Keep THEN kb[k].limit ELSE upd[a].limit
<1>1. /\ vk[k] \in [exists: BOOLEAN, revoked: BOOLEAN, allowed: SUBSET Models]
      /\ kb[k] \in Balances
      /\ upd[a] \in [key: Keys, limit: LimitValues \cup {Keep},
                     allowed: (SUBSET Models) \cup {Keep}]
  BY DEF StateInv
<1>2. al \in SUBSET Models /\ li \in LimitValues
  <2>1. /\ upd[a].allowed = Keep \/ upd[a].allowed \in SUBSET Models
        /\ upd[a].limit = Keep \/ upd[a].limit \in LimitValues
        /\ vk[k].allowed \in SUBSET Models /\ kb[k].limit \in LimitValues
    BY <1>1 DEF Balances
  <2> QED
    BY <2>1
<1>3. /\ pc[a] = "update_commit"
      /\ vk' = [vk EXCEPT ![k] = NewKey(a)] /\ kb' = [kb EXCEPT ![k] = NewBalance(a)]
  BY DEF UpdateCommit, NewKey, NewBalance
<1>4. NewKey(a) = [vk[k] EXCEPT !.allowed = al] /\ NewBalance(a) = [kb[k] EXCEPT !.limit = li]
  BY DEF NewKey, NewBalance
<1>5. upd[a].limit = Keep => li = kb[k].limit
  OBVIOUS
<1> HIDE DEF al, li
<1>6. [vk[k] EXCEPT !.allowed = al] \in [exists: BOOLEAN, revoked: BOOLEAN,
                                         allowed: SUBSET Models]
  BY <1>1, <1>2
<1>7. /\ [vk[k] EXCEPT !.allowed = al].exists = vk[k].exists
      /\ [vk[k] EXCEPT !.allowed = al].revoked = vk[k].revoked
  BY <1>1
<1>8. /\ [kb[k] EXCEPT !.limit = li] \in Balances
      /\ li = kb[k].limit => [kb[k] EXCEPT !.limit = li] = kb[k]
  BY <1>1, <1>2 DEF Balances
<1> QED
  BY <1>3, <1>4, <1>5, <1>6, <1>7, <1>8

LEMMA UpdateCommitKeeps ==
  ASSUME TransactionInv, NEW a \in Admins, UpdateCommit(a)
  PROVE  TransactionInv'
<1> USE DEF Goto, locals
<1> DEFINE k == upd[a].key
<1>1. StateInv /\ Exclusive /\ AdminInv(a) /\ a \in Procs /\ k \in Keys
  BY DEF TransactionInv, Procs, StateInv
<1>2. /\ pc[a] = "update_commit"
      /\ vk' = [vk EXCEPT ![k] = NewKey(a)] /\ kb' = [kb EXCEPT ![k] = NewBalance(a)]
      /\ NewKey(a) \in [exists: BOOLEAN, revoked: BOOLEAN, allowed: SUBSET Models]
      /\ NewKey(a).exists = vk[k].exists /\ NewKey(a).revoked = vk[k].revoked
      /\ NewBalance(a) \in Balances
      /\ upd[a].limit = Keep => NewBalance(a) = kb[k]
  BY <1>1, UpdateCommitTables
<1>3. /\ Exclusive' /\ holds' \in [Procs -> SUBSET Locks]
      /\ \A q \in Procs \ {a} : holds'[q] = holds[q]
  BY <1>1, ReleaseKeepsExclusive DEF UpdateCommit
<1>4. /\ UNCHANGED <<now, rv, ceiling, req, sweep, upd, reply, failures>>
      /\ pc' = [pc EXCEPT ![a] = "gone"]
  BY DEF UpdateCommit
<1>5. /\ vk'[k] = NewKey(a) /\ kb'[k] = NewBalance(a)
      /\ \A j \in Keys \ {k} : vk'[j] = vk[j] /\ kb'[j] = kb[j]
  BY <1>1, <1>2 DEF StateInv
<1>6. Moves(a)
  BY <1>1, <1>3, <1>4 DEF Moves, StateInv
<1>7. Respects(a)
  <2>1. upd[a].limit # Keep => Owns(a, <<"kb", k>>)
    BY <1>1, <1>2 DEF AdminInv
  <2> QED
    BY <1>2, <1>4, <1>5, <2>1 DEF Respects
<1>8. StateInv'
  BY <1>1, <1>2, <1>3, <1>4 DEF StateInv, Labels
<1>9. pc'[a] = "gone"
  BY <1>1, <1>4 DEF StateInv
<1>10. AdminInv(a)'
  BY <1>9 DEF AdminInv
<1> QED
  BY <1>3, <1>6, <1>7, <1>8, <1>10, AdminMove

-------------------------------------------------------------------------------
(* Rollbacks, crashes and time. *)

LEMMA RollBackKeeps ==
  ASSUME TransactionInv, NEW p \in Procs, RollBack(p), failures' \in 0 .. MaxFailures
  PROVE  TransactionInv'
<1> USE DEF Goto, tables
<1>1. /\ StateInv /\ Exclusive
      /\ p \in Requests => RequestInv(p)
      /\ p \in Reapers => ReaperInv(p)
      /\ p \in Admins => AdminInv(p)
      /\ p \in Requests \/ p \in Reapers \/ p \in Admins
  BY DEF TransactionInv, Procs
<1>2. /\ Exclusive' /\ holds' \in [Procs -> SUBSET Locks]
      /\ \A q \in Procs \ {p} : holds'[q] = holds[q]
  BY <1>1, ReleaseKeepsExclusive DEF RollBack
<1>3. UNCHANGED <<now, vk, kb, rv, ceiling, req, upd>> /\ Respects(p)
  BY DEF RollBack, Respects
<1>4. CASE pc[p] \in InReserve
  <2>1. p \in Requests
    BY <1>1, <1>4 DEF ReaperInv, AdminInv, InReserve, InSweep, InUpdate
  <2>2. /\ reply' = [reply EXCEPT ![p].err = "error"]
        /\ pc' = [pc EXCEPT ![p] = "gone"] /\ sweep' = sweep
    BY <1>4 DEF RollBack, InReserve, InSettle, InSweep, InUpdate
  <2>3. /\ reply' \in [Requests -> Answers]
        /\ \A q \in Requests \ {p} : reply'[q] = reply[q]
        /\ reply'[p].err = "error"
    BY <1>1, <2>1, <2>2, ErrReplaced
  <2>4. Moves(p)
    BY <1>1, <1>2, <1>3, <2>2, <2>3 DEF Moves, StateInv
  <2>5. StateInv'
    BY <1>1, <1>2, <1>3, <2>2, <2>3 DEF StateInv, Labels
  <2>6. RequestInv(p)'
    <3>1. pc'[p] = "gone"
      BY <1>1, <2>2 DEF StateInv
    <3> QED
      BY <1>1, <1>3, <1>4, <2>1, <2>3, <3>1 DEF RequestInv, InReserve, InSettle
  <2> QED
    BY <1>2, <1>3, <2>1, <2>4, <2>5, <2>6, RequestMove
<1>5. CASE pc[p] \in InSettle
  <2>1. p \in Requests
    BY <1>1, <1>5 DEF ReaperInv, AdminInv, InSettle, InSweep, InUpdate
  <2>2. reply' = reply /\ pc' = [pc EXCEPT ![p] = "settle_failed"] /\ sweep' = sweep
    BY <1>5 DEF RollBack, InReserve, InSettle, InSweep, InUpdate
  <2>3. Moves(p)
    BY <1>1, <1>2, <1>3, <2>2 DEF Moves, StateInv
  <2>4. StateInv'
    BY <1>1, <1>2, <1>3, <2>2 DEF StateInv, Labels
  <2>5. RequestInv(p)'
    <3>1. pc'[p] = "settle_failed"
      BY <1>1, <2>2 DEF StateInv
    <3> QED
      BY <1>1, <1>3, <1>5, <2>1, <2>2, <3>1 DEF RequestInv, InReserve, InSettle
  <2> QED
    BY <1>2, <1>3, <2>1, <2>3, <2>4, <2>5, RequestMove
<1>6. CASE pc[p] \in InSweep
  <2>1. p \in Reapers
    BY <1>1, <1>6 DEF RequestInv, AdminInv, InReserve, InSettle, InSweep, InUpdate
  <2>2. /\ reply' = reply /\ pc' = [pc EXCEPT ![p] = "idle"]
        /\ sweep' = [sweep EXCEPT ![p] = NoSweep]
    BY <1>6 DEF RollBack, InReserve, InSettle, InSweep, InUpdate
  <2>3. Moves(p)
    BY <1>1, <1>2, <1>3, <2>2 DEF Moves, StateInv
  <2>4. NoSweep \in [claims: SUBSET Requests, todo: SUBSET Keys]
    BY DEF NoSweep
  <2>5. StateInv'
    BY <1>1, <1>2, <1>3, <2>2, <2>4 DEF StateInv, Labels
  <2>6. ReaperInv(p)'
    BY <1>1, <2>2 DEF ReaperInv, InSweep, StateInv
  <2> QED
    BY <1>2, <1>3, <2>1, <2>3, <2>5, <2>6, ReaperMove
<1>7. CASE pc[p] \in InUpdate
  <2>1. p \in Admins
    BY <1>1, <1>7 DEF RequestInv, ReaperInv, InReserve, InSettle, InSweep, InUpdate
  <2>2. reply' = reply /\ pc' = [pc EXCEPT ![p] = "gone"] /\ sweep' = sweep
    BY <1>7 DEF RollBack, InReserve, InSettle, InSweep, InUpdate
  <2>3. Moves(p)
    BY <1>1, <1>2, <1>3, <2>2 DEF Moves, StateInv
  <2>4. StateInv'
    BY <1>1, <1>2, <1>3, <2>2 DEF StateInv, Labels
  <2>5. pc'[p] = "gone"
    BY <1>1, <2>2 DEF StateInv
  <2>6. AdminInv(p)'
    BY <2>5 DEF AdminInv
  <2> QED
    BY <1>2, <1>3, <2>1, <2>3, <2>4, <2>6, AdminMove
<1> QED
  BY <1>4, <1>5, <1>6, <1>7 DEF RollBack

LEMMA CrashKeeps ==
  ASSUME TransactionInv, NEW p \in Requests, Crash(p)
  PROVE  TransactionInv'
<1> USE DEF Goto, tables, locals
<1>1. StateInv /\ Exclusive /\ RequestInv(p) /\ p \in Procs
  BY DEF TransactionInv, Procs
<1>2. /\ Exclusive' /\ holds' \in [Procs -> SUBSET Locks]
      /\ \A q \in Procs \ {p} : holds'[q] = holds[q]
  BY <1>1, ReleaseKeepsExclusive DEF Crash
<1>3. failures' \in 0 .. MaxFailures
  BY <1>1, FailuresAssumption DEF Crash, StateInv
<1>4. /\ pc[p] \in InSettle \cup {"granted"} /\ pc' = [pc EXCEPT ![p] = "gone"]
      /\ UNCHANGED <<now, vk, kb, rv, ceiling, req, sweep, upd, reply>>
  BY DEF Crash
<1>5. Moves(p) /\ Respects(p) /\ StateInv'
  BY <1>1, <1>2, <1>3, <1>4 DEF Moves, Respects, StateInv, Labels
<1>6. pc'[p] = "gone"
  BY <1>1, <1>4 DEF StateInv
<1>7. RequestInv(p)'
  BY <1>1, <1>4, <1>6 DEF RequestInv, InReserve, InSettle
<1> QED
  BY <1>2, <1>5, <1>7, RequestMove

(* Time passes, or nothing changes at all. *)
LEMMA TickKeeps ==
  ASSUME TransactionInv, now' \in 0 .. MaxNow, now <= now',
         UNCHANGED <<vk, kb, rv, ceiling, holds, pc, req, sweep, upd, reply, failures>>
  PROVE  TransactionInv'
<1>1. /\ StateInv /\ Exclusive /\ now' \in Nat
      /\ \A p \in Requests : RequestInv(p)
      /\ \A a \in Reapers : ReaperInv(a)
      /\ \A a \in Admins : AdminInv(a)
  BY ClockAssumption DEF TransactionInv
<1>2. StateInv' /\ Exclusive'
  BY <1>1 DEF StateInv, Exclusive
<1>3. \A p \in Requests : RequestInv(p)'
  BY <1>1, RequestKept
<1>4. \A a \in Reapers : ReaperInv(a)'
  BY <1>1, ReaperKept
<1>5. \A a \in Admins : AdminInv(a)'
  BY <1>1, AdminKept
<1> QED
  BY <1>2, <1>3, <1>4, <1>5 DEF TransactionInv

-------------------------------------------------------------------------------
LEMMA InitTransactions == Init => TransactionInv
<1> SUFFICES ASSUME Init PROVE TransactionInv
  OBVIOUS
<1>1. /\ 1 \in Keys /\ (CHOOSE k \in Keys : TRUE) \in Keys
      /\ (CHOOSE m \in Models : TRUE) \in Models
      /\ NoLimit \in LimitValues /\ 0 \in 0 .. MaxNow /\ 0 \in 0 .. MaxFailures
  <2>1. 1 \in Keys
    BY KeysAndModels DEF Keys
  <2> QED
    BY <2>1, KeysAndModels, ClockAssumption, FailuresAssumption DEF LimitValues
<1>2. NoReservation \in Rows
  BY <1>1 DEF NoReservation, Rows
<1>3. NotStarted \in Call
  BY <1>1, ZeroIsAnAmount DEF NotStarted, Call
<1>4. NoReply \in Answers
  BY <1>1 DEF NoReply, Answers
<1>5. /\ NoSweep \in [claims: SUBSET Requests, todo: SUBSET Keys]
      /\ NoUpdate \in [key: Keys, limit: LimitValues \cup {Keep},
                       allowed: (SUBSET Models) \cup {Keep}]
  <2>1. NoSweep \in [claims: SUBSET Requests, todo: SUBSET Keys]
    BY DEF NoSweep
  <2>2. Keep \in LimitValues \cup {Keep} /\ Keep \in (SUBSET Models) \cup {Keep}
    OBVIOUS
  <2>3. NoUpdate \in [key: Keys, limit: LimitValues \cup {Keep},
                      allowed: (SUBSET Models) \cup {Keep}]
    BY <1>1, <2>2 DEF NoUpdate
  <2> QED
    BY <2>1, <2>3
<1>6. [window |-> 0, limit |-> NoLimit, spent |-> 0, reserved |-> 0] \in Balances
  BY <1>1 DEF Balances
<1>7. /\ NotStarted.start = 0 /\ NotStarted.revokedAtStart = FALSE
      /\ NoReservation.state = "none" /\ NoReply.err = "none"
  BY DEF NotStarted, NoReservation, NoReply
<1>8. StateInv
  <2> HIDE DEF NotStarted
  <2> QED
    BY <1>1, <1>2, <1>3, <1>4, <1>5, <1>6 DEF Init, StateInv, Labels
<1>9. Exclusive
  BY DEF Init, Exclusive
<1>10. Requests \subseteq Procs /\ Reapers \subseteq Procs /\ Admins \subseteq Procs
  BY DEF Procs
<1>11. \A p \in Requests : RequestInv(p)
  <2> SUFFICES ASSUME NEW p \in Requests PROVE RequestInv(p)
    OBVIOUS
  <2>1. /\ pc[p] = "idle" /\ req[p] = NotStarted /\ rv[p] = NoReservation
        /\ reply[p] = NoReply /\ now = 0
    BY <1>10 DEF Init
  <2> QED
    BY <1>7, <2>1 DEF RequestInv, InReserve
<1>12. \A a \in Reapers : ReaperInv(a)
  BY <1>10 DEF Init, ReaperInv, InSweep
<1>13. \A a \in Admins : AdminInv(a)
  BY <1>10 DEF Init, AdminInv
<1> QED
  BY <1>8, <1>9, <1>11, <1>12, <1>13 DEF TransactionInv

LEMMA NextTransactions == TransactionInv /\ [Next]_vars => TransactionInv'
<1> SUFFICES ASSUME TransactionInv, [Next]_vars PROVE TransactionInv'
  OBVIOUS
<1>0. now \in 0 .. MaxNow /\ failures \in 0 .. MaxFailures
  BY DEF TransactionInv, StateInv
<1>1. CASE UNCHANGED vars
  BY <1>0, <1>1, TickKeeps DEF vars
<1>2. ASSUME NEW p \in Requests, NEW k \in Keys, NEW m \in Models, NEW est \in Amounts,
             BeginReserve(p, k, m, est)
      PROVE  TransactionInv'
  BY <1>2, BeginReserveKeeps
<1>3. ASSUME NEW p \in Requests, RequestStep(p) PROVE TransactionInv'
  BY <1>3, ReserveScanKeeps, ReserveLockKeeps, ReserveInsertKeeps, ReserveCommitKeeps,
     DiagnoseKeeps, SettleRowKeeps, SettleBudgetKeeps, SettleCommitKeeps DEF RequestStep
<1>4. ASSUME NEW p \in Requests, NEW actual \in Amounts, BeginSettle(p, actual)
      PROVE  TransactionInv'
  BY <1>4, BeginSettleKeeps
<1>5. ASSUME NEW p \in Requests, DeferredRelease(p) PROVE TransactionInv'
  BY <1>5, DeferredReleaseKeeps
<1>6. ASSUME NEW a \in Reapers, ReaperStep(a) PROVE TransactionInv'
  BY <1>6, ReapSelectKeeps, ReapLockKeeps, ReapCommitKeeps DEF ReaperStep
<1>7. ASSUME NEW k \in Keys, NEW limit \in LimitValues, NEW allowed \in SUBSET Models,
             CreateKey(k, limit, allowed)
      PROVE  TransactionInv'
  BY <1>7, CreateKeyKeeps
<1>8. ASSUME NEW a \in Admins, NEW k \in Keys, RevokeKey(a, k) PROVE TransactionInv'
  BY <1>8, RevokeKeyKeeps
<1>9. ASSUME NEW a \in Admins, NEW k \in Keys, NEW limit \in LimitValues \cup {Keep},
             NEW allowed \in (SUBSET Models) \cup {Keep}, BeginUpdate(a, k, limit, allowed)
      PROVE  TransactionInv'
  BY <1>9, BeginUpdateKeeps
<1>10. ASSUME NEW a \in Admins, AdminStep(a) PROVE TransactionInv'
  BY <1>10, UpdateLockKeeps, UpdateLimitKeeps, UpdateCommitKeeps DEF AdminStep
<1>11. ASSUME NEW p \in Procs, Fail(p) \/ DeadlockAbort(p) PROVE TransactionInv'
  <2>1. RollBack(p) /\ failures' \in 0 .. MaxFailures
    BY <1>0, <1>11, FailuresAssumption DEF Fail, DeadlockAbort
  <2> QED
    BY <2>1, RollBackKeeps
<1>12. ASSUME NEW p \in Requests, Crash(p) PROVE TransactionInv'
  BY <1>12, CrashKeeps
<1>13. CASE Tick
  <2>1. now' \in 0 .. MaxNow /\ now <= now'
    BY <1>0, <1>13, ClockAssumption DEF Tick
  <2> QED
    BY <1>13, <2>1, TickKeeps DEF Tick, tables, locals
<1> QED
  BY <1>1, <1>2, <1>3, <1>4, <1>5, <1>6, <1>7, <1>8, <1>9, <1>10, <1>11, <1>12, <1>13 DEF Next

(* The inductive invariant: a transaction that is about to commit owns every *)
(* row it will change, and what it read of those rows still holds.           *)
THEOREM TransactionInvariance == Spec => []TransactionInv
BY InitTransactions, NextTransactions, PTL DEF Spec

(* A reserve that begins once the revocation of its key has committed is     *)
(* never granted: reserveSQL reads revoked_at in its own snapshot, and a key *)
(* once revoked stays revoked.                                               *)
THEOREM Revocation == Spec => []RevocationIsImmediate
<1>1. TransactionInv => RevocationIsImmediate
  BY DEF TransactionInv, RequestInv, RevocationIsImmediate
<1> QED
  BY <1>1, TransactionInvariance, PTL

-------------------------------------------------------------------------------
(* The transactions implement the ledger: a commit is one step of it, and   *)
(* every other step leaves what it sees unchanged.                          *)

LEMMA MonthsBounded ==
  ASSUME NEW t \in 0 .. MaxNow
  PROVE  MonthOf(t) \in Ledger!Months
<1>1. t \in Nat /\ MaxNow \in Nat /\ t <= MaxNow
  BY ClockAssumption
<1>2. MonthOf(t) \in Nat /\ MonthOf(t) <= MonthOf(MaxNow) /\ MonthOf(MaxNow) \in Nat
  BY <1>1, MonthsOfClock
<1> QED
  BY <1>2 DEF Ledger!Months

LEMMA QuietSteps ==
  ASSUME UNCHANGED <<now, kb, rv, ceiling>>, \A k \in Keys : vk'[k].exists = vk[k].exists
  PROVE  UNCHANGED Ledger!vars
<1>1. UNCHANGED CreatedKeys
  BY DEF CreatedKeys
<1>2. UNCHANGED Log
  BY DEF Log, LogRow
<1>3. UNCHANGED MonthOf(now)
  BY DEF MonthOf
<1> QED
  BY <1>1, <1>2, <1>3 DEF Ledger!vars

LEMMA ReserveRefines ==
  ASSUME TransactionInv, NEW p \in Requests, NEW answered \in BOOLEAN,
         ReserveCommit(p, answered)
  PROVE  Ledger!Next
<1> DEFINE k == req[p].key
           t == StartMonth(p)
           est == req[p].est
           due == req[p].start + TTL < now
           row == [state |-> "pending", key |-> k, window |-> WindowNow(p), est |-> est,
                   actual |-> 0, late |-> FALSE, due |-> due]
<1>1. /\ StateInv /\ RequestInv(p) /\ k \in Keys /\ est \in Amounts
      /\ req[p].start \in Nat /\ now \in Nat /\ req[p].start <= now /\ now <= MaxNow
      /\ pc[p] = "reserve_commit"
  <2>1. StateInv /\ RequestInv(p)
    BY DEF TransactionInv
  <2>2. now \in Nat /\ now <= MaxNow /\ req[p] \in Call
    BY <2>1, ClockAssumption DEF StateInv
  <2>3. req[p].start <= now
    BY <2>1 DEF RequestInv
  <2> QED
    BY <2>1, <2>2, <2>3 DEF Call, ReserveCommit
<1>2. t \in Ledger!Months /\ t <= MonthOf(now)
  <2>1. req[p].start \in 0 .. MaxNow
    BY <1>1, ClockAssumption
  <2> QED
    BY <1>1, <2>1, MonthsBounded, MonthsOfClock DEF StartMonth
<1>3. k \in CreatedKeys /\ Log[p].state = "none"
  BY <1>1 DEF RequestInv, CreatedKeys, Log, LogRow, InReserve
<1>4. SpentNow(p) = Ledger!SpentAt(k, t) /\ WindowNow(p) = Ledger!WindowAt(k, t)
  BY DEF SpentNow, WindowNow, Rotated, Ledger!SpentAt, Ledger!WindowAt, Ledger!Rotated
<1>5. Ledger!Affordable(k, t, est)
  <2>1. Affordable(p)
    BY <1>1 DEF RequestInv
  <2> QED
    BY <1>4, <2>1 DEF Affordable, Ledger!Affordable
<1>6. kb' = [kb EXCEPT ![k].spent = Ledger!SpentAt(k, t), ![k].window = Ledger!WindowAt(k, t),
                       ![k].reserved = @ + est]
  BY <1>4 DEF ReserveCommit
<1>7. Log' = [Log EXCEPT ![p] = row]
  <2>1. rv' = [rv EXCEPT ![p] =
                 [state |-> "pending", key |-> k, window |-> WindowNow(p),
                  est |-> est, actual |-> 0, late |-> FALSE, expires |-> req[p].start + TTL]]
        /\ now' = now
    BY DEF ReserveCommit
  <2>2. \A r \in Requests \ {p} : Log'[r] = Log[r]
    BY <1>1, <2>1 DEF Log, LogRow, StateInv
  <2>3. Log'[p] = row
    BY <1>1, <2>1 DEF Log, LogRow, StateInv
  <2>4. Log = [r \in Requests |-> Log[r]] /\ Log' = [r \in Requests |-> Log'[r]]
    BY DEF Log
  <2> HIDE DEF row
  <2> QED
    BY <2>2, <2>3, <2>4
<1>8. /\ ceiling' = [ceiling EXCEPT ![k] = kb[k].limit]
      /\ MonthOf(now)' = MonthOf(now) /\ CreatedKeys' = CreatedKeys
  BY DEF ReserveCommit, MonthOf, CreatedKeys
<1>9. due \in BOOLEAN
  OBVIOUS
<1> HIDE DEF k, t, est, due
<1>10. Ledger!Reserve(k, p, t, est, due)
  BY <1>2, <1>3, <1>4, <1>5, <1>6, <1>7, <1>8 DEF Ledger!Reserve
<1> QED
  BY <1>1, <1>2, <1>9, <1>10 DEF Ledger!Next

(* Replacing three fields of a row of the log. *)
LEMMA EntryReplaced ==
  ASSUME NEW s, NEW k, NEW w, NEW e, NEW x, NEW l, NEW d, NEW y, NEW m, NEW row, NEW new,
         row = [state |-> s, key |-> k, window |-> w, est |-> e, actual |-> x,
                late |-> l, due |-> d],
         new = [row EXCEPT !.state = "settled", !.actual = y, !.late = m]
  PROVE  new = [state |-> "settled", key |-> k, window |-> w, est |-> e, actual |-> y,
                late |-> m, due |-> d]
OBVIOUS

LEMMA SettleRefines ==
  ASSUME TransactionInv, NEW p \in Requests, NEW answered \in BOOLEAN,
         SettleCommit(p, answered)
  PROVE  Ledger!Next
<1> DEFINE k == req[p].key
           actual == req[p].actual
           late == req[p].late
<1>1. /\ StateInv /\ RequestInv(p) /\ k \in Keys /\ actual \in Amounts /\ late \in BOOLEAN
      /\ rv[p] \in Rows /\ pc[p] = "settle_commit"
  BY DEF TransactionInv, StateInv, Call, SettleCommit
<1>2. /\ rv[p].key = k /\ rv[p].state \in {"pending", "expired"}
      /\ late = (rv[p].state = "expired")
  BY <1>1 DEF RequestInv
<1>3. /\ \A r \in Requests \ {p} : rv'[r] = rv[r]
      /\ rv'[p].state = "settled" /\ rv'[p].key = k /\ rv'[p].window = rv[p].window
      /\ rv'[p].est = rv[p].est /\ rv'[p].actual = actual
      /\ rv'[p].late = late /\ rv'[p].expires = rv[p].expires
  BY <1>1, SettleCommitTables
<1>4. /\ Log[p].state = rv[p].state /\ Log[p].key = k /\ Log[p].est = rv[p].est
      /\ Log[p].window = rv[p].window
  BY <1>2 DEF Log, LogRow
<1>5. ReleasedBy(p) = Ledger!Released(p) /\ ChargedBy(p) = Ledger!Charged(p, actual)
  BY <1>2, <1>4 DEF ReleasedBy, ChargedBy, Ledger!Released, Ledger!Charged
<1>6. /\ MonthOf(now)' = MonthOf(now) /\ CreatedKeys' = CreatedKeys /\ ceiling' = ceiling
      /\ now' = now
  BY DEF SettleCommit, MonthOf, CreatedKeys
<1>7. Log' = [Log EXCEPT ![p].state = "settled", ![p].actual = actual,
                         ![p].late = (Log[p].state = "expired")]
  <2> DEFINE entry == [Log[p] EXCEPT !.state = "settled", !.actual = actual, !.late = late]
             due == rv[p].expires < now
             before == rv[p].late
  <2>1. Log[p] = [state |-> rv[p].state, key |-> k, window |-> rv[p].window,
                  est |-> rv[p].est, actual |-> rv[p].actual, late |-> before, due |-> due]
    BY <1>2 DEF Log, LogRow
  <2>2. Log'[p] = [state |-> "settled", key |-> k, window |-> rv[p].window,
                   est |-> rv[p].est, actual |-> actual, late |-> late, due |-> due]
    BY <1>3, <1>6 DEF Log, LogRow
  <2>5. Log'[p] = entry
    <3> DEFINE row == Log[p]
               st == rv[p].state
               w == rv[p].window
               est == rv[p].est
               x == rv[p].actual
    <3>1. entry = [row EXCEPT !.state = "settled", !.actual = actual, !.late = late]
      OBVIOUS
    <3>2. row = [state |-> st, key |-> k, window |-> w, est |-> est, actual |-> x,
                 late |-> before, due |-> due]
      BY <2>1
    <3> HIDE DEF late, due, before, k, actual, entry, row, st, w, est, x
    <3>3. entry = [state |-> "settled", key |-> k, window |-> w, est |-> est,
                   actual |-> actual, late |-> late, due |-> due]
      BY <3>1, <3>2, EntryReplaced
    <3> QED
      BY <2>2, <3>3 DEF w, est
  <2>6. \A r \in Requests \ {p} : Log'[r] = Log[r]
    BY <1>3, <1>6 DEF Log, LogRow
  <2>7. Log = [r \in Requests |-> Log[r]] /\ Log' = [r \in Requests |-> Log'[r]]
    BY DEF Log
  <2>8. Log' = [Log EXCEPT ![p] = entry]
    BY <2>5, <2>6, <2>7
  <2>9. late = (Log[p].state = "expired")
    BY <1>2, <1>4
  <2> QED
    BY <2>8, <2>9
<1>8. kb' = [kb EXCEPT ![Log[p].key].reserved = @ - Ledger!Released(p),
                       ![Log[p].key].spent = @ + Ledger!Charged(p, actual)]
  BY <1>4, <1>5 DEF SettleCommit, ReleasedBy, ChargedBy
<1>9. Ledger!Settle(p, actual)
  BY <1>2, <1>4, <1>6, <1>7, <1>8 DEF Ledger!Settle
<1> QED
  BY <1>1, <1>9 DEF Ledger!Next

(* The ledger's sums are these sums. *)
LEMMA SameTotal ==
  ASSUME NEW S, NEW f
  PROVE  Total(S, f) = Ledger!Total(S, f)
BY DEF Total, Units, UnitsOf, Ledger!Total, Ledger!Units, Ledger!UnitsOf,
       Cardinality, Ledger!Cardinality

LEMMA ReapRefines ==
  ASSUME TransactionInv, NEW a \in Reapers, ReapCommit(a)
  PROVE  Ledger!Next
<1> DEFINE B == sweep[a].claims
<1>1. StateInv /\ ReaperInv(a) /\ B \in SUBSET Requests /\ pc[a] = "reap_commit"
  BY DEF TransactionInv, StateInv, ReapCommit
<1>2. B # {} /\ \A r \in B : rv[r].state = "pending" /\ rv[r].expires < now
  BY <1>1 DEF ReaperInv, InSweep
<1>3. B \subseteq Ledger!Reapable
  BY <1>1, <1>2 DEF Ledger!Reapable, Log, LogRow
<1>4. now' = now /\ MonthOf(now)' = MonthOf(now) /\ CreatedKeys' = CreatedKeys
      /\ ceiling' = ceiling
  BY DEF ReapCommit, MonthOf, CreatedKeys
<1>5. Log' = [r \in Requests |-> IF r \in B THEN [Log[r] EXCEPT !.state = "expired"]
                                 ELSE Log[r]]
  <2>1. \A r \in Requests \ B : Log'[r] = Log[r]
    BY <1>4 DEF ReapCommit, Log, LogRow
  <2>2. ASSUME NEW r \in B PROVE Log'[r] = [Log[r] EXCEPT !.state = "expired"]
    <3> DEFINE y == [rv[r] EXCEPT !.state = "expired"]
    <3>1. rv'[r] = y /\ rv[r] \in Rows /\ r \in Requests
      BY <1>1, <1>2, <2>2 DEF ReapCommit, StateInv
    <3>2. /\ y.state = "expired" /\ y.key = rv[r].key /\ y.window = rv[r].window
          /\ y.est = rv[r].est /\ y.actual = rv[r].actual /\ y.late = rv[r].late
          /\ y.expires = rv[r].expires
      BY <3>1 DEF Rows
    <3>3. Log[r] = [state |-> "pending", key |-> rv[r].key, window |-> rv[r].window,
                    est |-> rv[r].est, actual |-> rv[r].actual, late |-> rv[r].late,
                    due |-> rv[r].expires < now]
      BY <1>2, <2>2, <3>1 DEF Log, LogRow
    <3> HIDE DEF y
    <3>4. Log'[r] = [state |-> "expired", key |-> rv[r].key, window |-> rv[r].window,
                     est |-> rv[r].est, actual |-> rv[r].actual, late |-> rv[r].late,
                     due |-> rv[r].expires < now]
      BY <1>4, <3>1, <3>2 DEF Log, LogRow
    <3> QED
      BY <3>3, <3>4
  <2>3. Log' = [r \in Requests |-> Log'[r]]
    BY DEF Log
  <2> QED
    BY <2>1, <2>2, <2>3
<1>6. \A k \in Keys : ClaimedBy(a, k) = Ledger!Total(Ledger!ClaimsOf(B, k), Ledger!Estimates)
  <2>1. Ledger!Estimates = [r \in Requests |-> rv[r].est]
    BY DEF Ledger!Estimates, Log, LogRow
  <2>2. \A k \in Keys : Ledger!ClaimsOf(B, k) = {r \in B : rv[r].key = k}
    BY <1>1 DEF Ledger!ClaimsOf, Log, LogRow
  <2>3. \A k \in Keys : Total(Ledger!ClaimsOf(B, k), Ledger!Estimates)
                          = Ledger!Total(Ledger!ClaimsOf(B, k), Ledger!Estimates)
    BY SameTotal
  <2> QED
    BY <2>1, <2>2, <2>3 DEF ClaimedBy
<1>7. kb' = [k \in Keys |-> [kb[k] EXCEPT !.reserved =
                                @ - Ledger!Total(Ledger!ClaimsOf(B, k), Ledger!Estimates)]]
  <2>1. kb' = [k \in Keys |-> [kb[k] EXCEPT !.reserved = kb[k].reserved - ClaimedBy(a, k)]]
    BY DEF ReapCommit
  <2> DEFINE F(k) == [kb[k] EXCEPT !.reserved = kb[k].reserved - ClaimedBy(a, k)]
             G(k) == [kb[k] EXCEPT !.reserved =
                         kb[k].reserved - Ledger!Total(Ledger!ClaimsOf(B, k), Ledger!Estimates)]
  <2>2. \A k \in Keys : F(k) = G(k)
    BY <1>6
  <2> HIDE DEF F
  <2>3. kb' = [k \in Keys |-> F(k)]
    BY <2>1 DEF F
  <2>4. kb' = [k \in Keys |-> G(k)]
    <3> HIDE DEF G
    <3> QED
      BY <2>2, <2>3
  <2> QED
    BY <2>4
<1>8. Ledger!Reap(B)
  BY <1>2, <1>3, <1>4, <1>5, <1>7 DEF Ledger!Reap
<1> QED
  BY <1>1, <1>8 DEF Ledger!Next

LEMMA CreateKeyRefines ==
  ASSUME TransactionInv, NEW k \in Keys, NEW limit \in LimitValues,
         NEW allowed \in SUBSET Models, CreateKey(k, limit, allowed)
  PROVE  Ledger!Next
<1> DEFINE key == [exists |-> TRUE, revoked |-> FALSE, allowed |-> allowed]
<1>1. StateInv /\ now \in 0 .. MaxNow
  BY DEF TransactionInv, StateInv
<1>2. MonthOf(now) \in Ledger!Months /\ MonthOf(now) <= MonthOf(now)
  <2>1. now \in Nat
    BY <1>1
  <2> QED
    BY <1>1, <2>1, MonthsBounded, MonthsOfClock
<1>3. /\ ~vk[k].exists /\ vk' = [vk EXCEPT ![k] = key]
      /\ kb' = [kb EXCEPT ![k] = [window |-> MonthOf(now), limit |-> limit,
                                  spent |-> 0, reserved |-> 0]]
      /\ now' = now /\ rv' = rv /\ ceiling' = ceiling
  BY DEF CreateKey
<1>4. CreatedKeys' = CreatedKeys \cup {k} /\ k \notin CreatedKeys
  <2>1. key.exists = TRUE
    OBVIOUS
  <2> HIDE DEF key
  <2> QED
    BY <1>1, <1>3, <2>1 DEF CreatedKeys, StateInv
<1>5. Log' = Log /\ MonthOf(now)' = MonthOf(now)
  BY <1>3 DEF Log, LogRow, MonthOf
<1>6. Ledger!CreateKey(k, limit, MonthOf(now))
  BY <1>2, <1>3, <1>4, <1>5 DEF Ledger!CreateKey
<1>7. limit \in Ledger!LimitValues
  BY DEF LimitValues, Ledger!LimitValues
<1> QED
  BY <1>2, <1>6, <1>7 DEF Ledger!Next

LEMMA UpdateRefines ==
  ASSUME TransactionInv, NEW a \in Admins, UpdateCommit(a)
  PROVE  Ledger!Next \/ UNCHANGED Ledger!vars
<1> DEFINE k == upd[a].key
           limit == upd[a].limit
<1>1. /\ StateInv /\ AdminInv(a) /\ k \in Keys
      /\ limit = Keep \/ limit \in LimitValues
  BY DEF TransactionInv, StateInv
<1>2. /\ pc[a] = "update_commit"
      /\ vk' = [vk EXCEPT ![k] = NewKey(a)] /\ kb' = [kb EXCEPT ![k] = NewBalance(a)]
      /\ NewKey(a).exists = vk[k].exists
      /\ limit = Keep => NewBalance(a) = kb[k]
  BY <1>1, UpdateCommitTables
<1>3. \A j \in Keys : vk'[j].exists = vk[j].exists
  BY <1>1, <1>2 DEF StateInv
<1>4. now' = now /\ rv' = rv /\ ceiling' = ceiling
  BY DEF UpdateCommit
<1>5. /\ CreatedKeys' = CreatedKeys /\ Log' = Log /\ MonthOf(now)' = MonthOf(now)
      /\ k \in CreatedKeys
  BY <1>1, <1>2, <1>3, <1>4 DEF CreatedKeys, Log, LogRow, MonthOf, AdminInv
<1>6. CASE limit = Keep
  <2>1. kb' = kb
    BY <1>1, <1>2, <1>6 DEF StateInv
  <2> QED
    BY <1>3, <1>4, <2>1, QuietSteps
<1>7. CASE limit # Keep
  <2>1. kb' = [kb EXCEPT ![k].limit = limit]
    BY <1>7 DEF UpdateCommit
  <2>2. Ledger!UpdateLimit(k, limit)
    BY <1>4, <1>5, <2>1 DEF Ledger!UpdateLimit
  <2>3. limit \in Ledger!LimitValues
    BY <1>1, <1>7 DEF LimitValues, Ledger!LimitValues
  <2> QED
    BY <1>1, <2>2, <2>3 DEF Ledger!Next
<1> QED
  BY <1>6, <1>7

LEMMA DueReplaced ==
  ASSUME NEW s, NEW k, NEW w, NEW e, NEW x, NEW l, NEW d, NEW m, NEW row, NEW new,
         row = [state |-> s, key |-> k, window |-> w, est |-> e, actual |-> x,
                late |-> l, due |-> d],
         new = [row EXCEPT !.due = m]
  PROVE  new = [state |-> s, key |-> k, window |-> w, est |-> e, actual |-> x,
                late |-> l, due |-> m]
OBVIOUS

LEMMA TickRefines ==
  ASSUME TransactionInv, Tick
  PROVE  Ledger!Next
<1> DEFINE D == {r \in Requests : rv[r].state # "none" /\ rv[r].expires < now + 1}
           m == MonthOf(now + 1)
<1>1. /\ StateInv /\ now \in Nat /\ now + 1 \in 0 .. MaxNow /\ now' = now + 1
      /\ kb' = kb /\ vk' = vk /\ rv' = rv /\ ceiling' = ceiling
  BY ClockAssumption DEF TransactionInv, StateInv, Tick, tables
<1>2. m \in Ledger!Months /\ m \in {MonthOf(now), MonthOf(now) + 1}
  BY <1>1, MonthsBounded, MonthsOfClock
<1>3. m <= MonthOf(MaxNow)
  BY <1>2 DEF Ledger!Months
<1>4. MonthOf(now)' = m /\ CreatedKeys' = CreatedKeys
  BY <1>1 DEF MonthOf, CreatedKeys
<1>5. D \subseteq {r \in Requests : Log[r].state # "none"}
  BY DEF Log, LogRow
<1>6. Log' = [r \in Requests |-> IF r \in D THEN [Log[r] EXCEPT !.due = TRUE] ELSE Log[r]]
  <2>1. ASSUME NEW r \in Requests
        PROVE  Log'[r] = IF r \in D THEN [Log[r] EXCEPT !.due = TRUE] ELSE Log[r]
    <3> DEFINE before == rv[r].state # "none" /\ rv[r].expires < now
               after == rv[r].state # "none" /\ rv[r].expires < now + 1
               late == rv[r].late
               row == Log[r]
               new == Log'[r]
    <3>1. row = [state |-> rv[r].state, key |-> rv[r].key, window |-> rv[r].window,
                 est |-> rv[r].est, actual |-> rv[r].actual, late |-> late, due |-> before]
      BY DEF Log, LogRow
    <3>2. new = [state |-> rv[r].state, key |-> rv[r].key, window |-> rv[r].window,
                 est |-> rv[r].est, actual |-> rv[r].actual, late |-> late, due |-> after]
      BY <1>1 DEF Log, LogRow
    <3>3. rv[r].expires \in Nat
      BY <1>1 DEF StateInv, Rows
    <3>4. /\ r \in D => after = TRUE
          /\ r \notin D => after = before
      BY <1>1, <3>3
    <3> DEFINE yes == TRUE
               expired == [row EXCEPT !.due = yes]
               st == rv[r].state
               k == rv[r].key
               w == rv[r].window
               est == rv[r].est
               x == rv[r].actual
    <3> HIDE DEF before, after, late, row, new, yes
    <3>5. CASE r \in D
      <4>1. row = [state |-> st, key |-> k, window |-> w, est |-> est, actual |-> x,
                   late |-> late, due |-> before]
        BY <3>1
      <4>2. expired = [row EXCEPT !.due = yes]
        OBVIOUS
      <4> HIDE DEF st, k, w, est, x, expired
      <4>3. expired = [state |-> st, key |-> k, window |-> w, est |-> est, actual |-> x,
                       late |-> late, due |-> yes]
        BY <4>1, <4>2, DueReplaced
      <4>4. after = yes
        BY <3>4, <3>5 DEF yes
      <4>5. new = expired
        BY <3>2, <4>3, <4>4 DEF st, k, w, est, x
      <4> QED
        BY <3>5, <4>5 DEF row, new, expired, yes
    <3>6. CASE r \notin D
      BY <3>1, <3>2, <3>4, <3>6 DEF row, new
    <3> QED
      BY <3>5, <3>6
  <2>2. Log' = [r \in Requests |-> Log'[r]]
    BY DEF Log
  <2> HIDE DEF D
  <2> QED
    BY <2>1, <2>2
<1> HIDE DEF D, m
<1>7. Ledger!TimePasses(m, D)
  BY <1>1, <1>2, <1>3, <1>4, <1>5, <1>6 DEF Ledger!TimePasses
<1>8. D \in SUBSET Requests
  BY DEF D
<1> QED
  BY <1>2, <1>7, <1>8 DEF Ledger!Next

LEMMA RefinesNext == TransactionInv /\ [Next]_vars => [Ledger!Next]_(Ledger!vars)
<1> SUFFICES ASSUME TransactionInv, [Next]_vars
             PROVE  Ledger!Next \/ UNCHANGED Ledger!vars
  OBVIOUS
<1>0. StateInv
  BY DEF TransactionInv
<1>1. CASE UNCHANGED vars
  BY <1>1, QuietSteps DEF vars
<1>2. ASSUME NEW p \in Requests, NEW k \in Keys, NEW m \in Models, NEW est \in Amounts,
             BeginReserve(p, k, m, est)
      PROVE  UNCHANGED Ledger!vars
  BY <1>2, QuietSteps DEF BeginReserve
<1>3. ASSUME NEW p \in Requests, RequestStep(p)
      PROVE  Ledger!Next \/ UNCHANGED Ledger!vars
  <2>1. CASE ReserveScan(p) \/ ReserveLock(p) \/ ReserveInsert(p) \/ Diagnose(p)
    BY <2>1, QuietSteps DEF ReserveScan, ReserveLock, ReserveInsert, Diagnose, tables
  <2>2. CASE SettleRow(p) \/ SettleBudget(p)
    BY <2>2, QuietSteps DEF SettleRow, SettleBudget, tables
  <2>3. CASE \E answered \in BOOLEAN : ReserveCommit(p, answered)
    BY <2>3, ReserveRefines
  <2>4. CASE \E answered \in BOOLEAN : SettleCommit(p, answered)
    BY <2>4, SettleRefines
  <2> QED
    BY <1>3, <2>1, <2>2, <2>3, <2>4 DEF RequestStep
<1>4. ASSUME NEW p \in Requests, NEW actual \in Amounts, BeginSettle(p, actual)
      PROVE  UNCHANGED Ledger!vars
  BY <1>4, QuietSteps DEF BeginSettle, tables
<1>5. ASSUME NEW p \in Requests, DeferredRelease(p) PROVE UNCHANGED Ledger!vars
  BY <1>5, QuietSteps DEF DeferredRelease, tables
<1>6. ASSUME NEW a \in Reapers, ReaperStep(a)
      PROVE  Ledger!Next \/ UNCHANGED Ledger!vars
  <2>1. CASE (\E B \in SUBSET Requests : ReapSelect(a, B)) \/ ReapLock(a)
    BY <2>1, QuietSteps DEF ReapSelect, ReapLock, tables
  <2> QED
    BY <1>6, <2>1, ReapRefines DEF ReaperStep
<1>7. ASSUME NEW k \in Keys, NEW limit \in LimitValues, NEW allowed \in SUBSET Models,
             CreateKey(k, limit, allowed)
      PROVE  Ledger!Next
  BY <1>7, CreateKeyRefines
<1>8. ASSUME NEW a \in Admins, NEW k \in Keys, RevokeKey(a, k) PROVE UNCHANGED Ledger!vars
  <2>1. \A j \in Keys : vk'[j].exists = vk[j].exists
    BY <1>0, <1>8 DEF RevokeKey, StateInv
  <2> QED
    BY <1>8, <2>1, QuietSteps DEF RevokeKey
<1>9. ASSUME NEW a \in Admins, NEW k \in Keys, NEW limit \in LimitValues \cup {Keep},
             NEW allowed \in (SUBSET Models) \cup {Keep}, BeginUpdate(a, k, limit, allowed)
      PROVE  UNCHANGED Ledger!vars
  BY <1>9, QuietSteps DEF BeginUpdate, tables
<1>10. ASSUME NEW a \in Admins, AdminStep(a)
       PROVE  Ledger!Next \/ UNCHANGED Ledger!vars
  <2>1. CASE UpdateLock(a) \/ UpdateLimit(a)
    BY <2>1, QuietSteps DEF UpdateLock, UpdateLimit, tables
  <2> QED
    BY <1>10, <2>1, UpdateRefines DEF AdminStep
<1>11. ASSUME NEW p \in Procs, Fail(p) \/ DeadlockAbort(p) PROVE UNCHANGED Ledger!vars
  BY <1>11, QuietSteps DEF Fail, DeadlockAbort, RollBack, tables
<1>12. ASSUME NEW p \in Requests, Crash(p) PROVE UNCHANGED Ledger!vars
  BY <1>12, QuietSteps DEF Crash, tables
<1>13. CASE Tick
  BY <1>13, TickRefines
<1> QED
  BY <1>1, <1>2, <1>3, <1>4, <1>5, <1>6, <1>7, <1>8, <1>9, <1>10, <1>11, <1>12, <1>13 DEF Next

LEMMA RefinesInit == Init => Ledger!Init
<1> SUFFICES ASSUME Init PROVE Ledger!Init
  OBVIOUS
<1>1. MonthOf(now) = 0
  BY ClockAssumption DEF Init, MonthOf
<1>2. CreatedKeys = {}
  BY DEF Init, CreatedKeys
<1>3. Log = [r \in Requests |-> Ledger!AbsentRow]
  <2>1. \A r \in Requests : rv[r] = NoReservation
    BY DEF Init
  <2>2. ASSUME NEW r \in Requests PROVE LogRow(r) = Ledger!AbsentRow
    <3> DEFINE c == CHOOSE k \in Keys : TRUE
               due == rv[r].state # "none" /\ rv[r].expires < now
    <3>1. /\ rv[r].state = "none" /\ rv[r].key = c /\ rv[r].window = 0 /\ rv[r].est = 0
          /\ rv[r].actual = 0 /\ rv[r].late = FALSE
      <4>1. rv[r] = [state |-> "none", key |-> c, window |-> 0, est |-> 0, actual |-> 0,
                     late |-> FALSE, expires |-> 0]
        BY <2>1 DEF NoReservation
      <4> HIDE DEF c
      <4> QED
        BY <4>1
    <3>2. due = FALSE
      BY <3>1
    <3>3. LogRow(r) = [state |-> rv[r].state, key |-> rv[r].key, window |-> rv[r].window,
                       est |-> rv[r].est, actual |-> rv[r].actual, late |-> rv[r].late,
                       due |-> due]
      BY DEF LogRow
    <3>4. Ledger!AbsentRow = [state |-> "none", key |-> c, window |-> 0, est |-> 0,
                              actual |-> 0, late |-> FALSE, due |-> FALSE]
      BY DEF Ledger!AbsentRow
    <3> HIDE DEF c, due
    <3> QED
      BY <3>1, <3>2, <3>3, <3>4
  <2> QED
    BY <2>2 DEF Log
<1> QED
  BY <1>1, <1>2, <1>3 DEF Init, Ledger!Init

(* However the statements of reserves, settles, sweeps, updates, aborts and *)
(* crashes interleave, the balance and the log move as if the transactions  *)
(* ran one after another: internal/store implements the ledger.             *)
THEOREM TransactionsImplementLedger == Spec => ImplementsLedger
<1>1. TransactionInv /\ [Next]_vars => [Ledger!Next]_(Ledger!vars)
  BY RefinesNext
<1> QED
  BY <1>1, RefinesInit, TransactionInvariance, PTL DEF Spec, ImplementsLedger, Ledger!Spec

-------------------------------------------------------------------------------
(* What is proved of the ledger therefore holds of the transactions. *)

Proved == INSTANCE BudgetLedgerProofs WITH
    Keys <- Keys, Reservations <- Requests, Amounts <- Amounts,
    MaxMonth <- MonthOf(MaxNow), month <- MonthOf(now),
    keys <- CreatedKeys, budget <- kb, res <- Log, ceiling <- ceiling

LEMMA SameInit == Ledger!Init => Proved!Init
BY DEF Ledger!Init, Proved!Init, Ledger!AbsentRow, Proved!AbsentRow

LEMMA SameReserve ==
  ASSUME NEW k, NEW r, NEW t, NEW est, NEW due, Ledger!Reserve(k, r, t, est, due)
  PROVE  Proved!Reserve(k, r, t, est, due)
BY DEF Ledger!Reserve, Proved!Reserve, Ledger!Affordable, Proved!Affordable,
       Ledger!SpentAt, Proved!SpentAt, Ledger!WindowAt, Proved!WindowAt,
       Ledger!Rotated, Proved!Rotated

LEMMA SameSettle ==
  ASSUME NEW r, NEW actual, Ledger!Settle(r, actual)
  PROVE  Proved!Settle(r, actual)
BY DEF Ledger!Settle, Proved!Settle, Ledger!Released, Proved!Released,
       Ledger!Charged, Proved!Charged

LEMMA SameSums ==
  ASSUME NEW S, NEW f
  PROVE  Ledger!Total(S, f) = Proved!Total(S, f)
BY DEF Proved!Total, Proved!Units, Proved!UnitsOf, Proved!Cardinality,
       Ledger!Total, Ledger!Units, Ledger!UnitsOf, Ledger!Cardinality

LEMMA SameReap ==
  ASSUME NEW B, Ledger!Reap(B)
  PROVE  Proved!Reap(B)
BY SameSums DEF Ledger!Reap, Proved!Reap, Ledger!Reapable, Proved!Reapable,
                Ledger!ClaimsOf, Proved!ClaimsOf, Ledger!Estimates, Proved!Estimates

LEMMA SameNext == [Ledger!Next]_(Ledger!vars) => [Proved!Next]_(Proved!vars)
<1>2. UNCHANGED Ledger!vars => UNCHANGED Proved!vars
  BY DEF Ledger!vars, Proved!vars
<1>3. Ledger!Months = Proved!Months /\ Ledger!LimitValues = Proved!LimitValues
  BY DEF Ledger!Months, Proved!Months, Ledger!LimitValues, Proved!LimitValues
<1>4. \A k, limit, t : Ledger!CreateKey(k, limit, t) => Proved!CreateKey(k, limit, t)
  BY DEF Ledger!CreateKey, Proved!CreateKey
<1>5. \A k, limit : Ledger!UpdateLimit(k, limit) => Proved!UpdateLimit(k, limit)
  BY DEF Ledger!UpdateLimit, Proved!UpdateLimit
<1>6. \A m, D : Ledger!TimePasses(m, D) => Proved!TimePasses(m, D)
  BY DEF Ledger!TimePasses, Proved!TimePasses
<1>7. Ledger!Next => Proved!Next
  BY <1>3, <1>4, <1>5, <1>6, SameReserve, SameSettle, SameReap DEF Ledger!Next, Proved!Next
<1> QED
  BY <1>2, <1>7

(* The assumptions of the ledger, discharged. *)
LEMMA LedgerAssumptions ==
  /\ Keys # {} /\ Proved!IsFiniteSet(Requests) /\ Amounts \subseteq Nat
  /\ Limits \subseteq Nat /\ NoLimit \notin Nat /\ MonthOf(MaxNow) \in Nat
<1>1. 1 \in Keys
  BY KeysAndModels DEF Keys
<1>2. MonthOf(MaxNow) \in Nat
  BY ClockAssumption, MonthsOfClock
<1>3. Proved!IsFiniteSet(Requests)
  BY RequestsFinite DEF IsFiniteSet, Proved!IsFiniteSet
<1> QED
  BY <1>1, <1>2, <1>3, AmountsNatural, LimitsNatural

LEMMA LedgerHolds == Spec => []Proved!LedgerInv
<1>1. /\ Keys # {} /\ Proved!IsFiniteSet(Requests) /\ Amounts \subseteq Nat
      /\ Limits \subseteq Nat /\ NoLimit \notin Nat /\ MonthOf(MaxNow) \in Nat
  BY LedgerAssumptions
<1>2. Proved!Init => Proved!LedgerInv
  BY <1>1, Proved!InitLedger
<1>3. Proved!LedgerInv /\ [Proved!Next]_(Proved!vars) => Proved!LedgerInv'
  BY <1>1, Proved!NextLedger
<1>4. Ledger!Init => Proved!Init
  BY SameInit
<1>5. [Ledger!Next]_(Ledger!vars) => [Proved!Next]_(Proved!vars)
  BY SameNext
<1>6. Spec => Ledger!Spec
  BY TransactionsImplementLedger DEF ImplementsLedger
<1>7. Ledger!Spec => Ledger!Init /\ [][Ledger!Next]_(Ledger!vars)
  BY DEF Ledger!Spec
<1> QED
  BY <1>2, <1>3, <1>4, <1>5, <1>6, <1>7, PTL

(* Types, and more than types: the committed balance of every key is a pair *)
(* of natural numbers, so the CHECK constraints of key_budgets never fail a *)
(* statement of the store.                                                  *)
THEOREM TransactionTypes == Spec => []TypeOK
<1>1. ASSUME TransactionInv, Proved!LedgerInv PROVE TypeOK
  <2>1. kb \in [Keys -> Ledger!BudgetRow]
    <3>1. Proved!BudgetRow = Ledger!BudgetRow
      BY DEF Proved!BudgetRow, Ledger!BudgetRow, Proved!Months, Ledger!Months,
             Proved!LimitValues, Ledger!LimitValues
    <3> QED
      BY <1>1, <3>1 DEF Proved!LedgerInv, Proved!TypeOK
  <2>2. StateInv
    BY <1>1 DEF TransactionInv
  <2>3. \A r \in Requests : rv[r].key \in Keys /\ rv[r].expires \in 0 .. MaxNow
    BY <2>2 DEF StateInv, Rows
  <2> QED
    BY <2>1, <2>2, <2>3 DEF StateInv, TypeOK, Labels
<1> QED
  BY <1>1, LedgerHolds, TransactionInvariance, PTL

(* Seen by reconciliation between any two statements, the balance agrees    *)
(* with the log, and what is spent and reserved stays under the limit the   *)
(* last reserve was admitted under, but for overruns and late settles.      *)
THEOREM BalanceAmongTransactions ==
    Spec => [](Ledger!BalanceMatchesLog /\ Ledger!SpendWithinCeiling)
<1>1. ASSUME Proved!LedgerInv PROVE Ledger!BalanceMatchesLog /\ Ledger!SpendWithinCeiling
  <2>1. Proved!BalanceMatchesLog /\ Proved!SpendWithinCeiling
    BY <1>1 DEF Proved!LedgerInv
  <2>2. /\ \A k, w : Ledger!SettledIn(k, w) = Proved!SettledIn(k, w)
        /\ \A k : Ledger!Pending(k) = Proved!Pending(k)
    BY DEF Ledger!SettledIn, Proved!SettledIn, Ledger!Pending, Proved!Pending
  <2>3. /\ Ledger!Estimates = Proved!Estimates /\ Ledger!Actuals = Proved!Actuals
        /\ Ledger!Excess = Proved!Excess
    BY DEF Ledger!Estimates, Proved!Estimates, Ledger!Actuals, Proved!Actuals,
           Ledger!Excess, Proved!Excess
  <2>4. \A k : Ledger!LogSpent(k) = Proved!LogSpent(k)
               /\ Ledger!LogReserved(k) = Proved!LogReserved(k)
    BY <2>2, <2>3, SameSums
    DEF Ledger!LogSpent, Proved!LogSpent, Ledger!LogReserved, Proved!LogReserved
  <2>5. Ledger!BalanceMatchesLog
    BY <2>1, <2>4 DEF Ledger!BalanceMatchesLog, Proved!BalanceMatchesLog
  <2>6. Ledger!SpendWithinCeiling
    BY <2>1, <2>2, <2>3, SameSums DEF Ledger!SpendWithinCeiling, Proved!SpendWithinCeiling
  <2> QED
    BY <2>5, <2>6
<1> QED
  BY <1>1, LedgerHolds, PTL

-------------------------------------------------------------------------------
(* The order of locking. *)

(* A process that moves neither, or another, keeps the order. *)
LEMMA OrderKept ==
  ASSUME LockOrder, NEW p,
         \A q \in Procs \ {p} : pc'[q] = pc[q] /\ holds'[q] = holds[q],
         \A a \in Reapers \ {p} : sweep'[a] = sweep[a],
         p \in Requests => RequestOrder(p)',
         p \in Reapers => ReaperOrder(p)'
  PROVE  LockOrder'
<1>1. Requests \subseteq Procs /\ Reapers \subseteq Procs
  BY DEF Procs
<1>2. ASSUME NEW q \in Requests \ {p} PROVE RequestOrder(q)'
  BY <1>1, <1>2 DEF LockOrder, RequestOrder, HoldsRow, Owns
<1>3. ASSUME NEW a \in Reapers \ {p} PROVE ReaperOrder(a)'
  BY <1>1, <1>3 DEF LockOrder, ReaperOrder, HoldsRow
<1> QED
  BY <1>2, <1>3 DEF LockOrder

(* A transaction that ends holds nothing. *)
LEMMA ReleasedOrder ==
  ASSUME StateInv, NEW p \in Procs, ReleaseAll(p)
  PROVE  /\ RequestOrder(p)'
         /\ (pc'[p] # "reap_lock" => ReaperOrder(p)')
         /\ \A q \in Procs \ {p} : holds'[q] = holds[q]
<1>1. holds'[p] = {} /\ \A q \in Procs \ {p} : holds'[q] = holds[q]
  BY DEF ReleaseAll, StateInv
<1>2. \A row : ~HoldsRow(p, row)' /\ ~Owns(p, row)'
  BY <1>1 DEF HoldsRow, Owns
<1> QED
  BY <1>1, <1>2 DEF RequestOrder, ReaperOrder

LEMMA DistinctRows ==
  ASSUME NEW i, NEW j
  PROVE  /\ <<"kb", i>> # <<"rv", j>> /\ <<"kb", i>> # <<"vk", j>> /\ <<"rv", i>> # <<"vk", j>>
         /\ <<"kb", i>> = <<"kb", j>> => i = j
         /\ <<"rv", i>> = <<"rv", j>> => i = j
OBVIOUS

(* A process comes to hold the row it locks, and no other. *)
Gains(p, l) ==
    /\ \A r \in Requests : HoldsRow(p, <<"rv", r>>)' =>
          HoldsRow(p, <<"rv", r>>) \/ l.row = <<"rv", r>>
    /\ \A k \in Keys : HoldsRow(p, <<"kb", k>>)' =>
          HoldsRow(p, <<"kb", k>>) \/ l.row = <<"kb", k>>
    /\ \A k \in Keys : Owns(p, <<"vk", k>>)' =>
          Owns(p, <<"vk", k>>) \/ (l.row = <<"vk", k>> /\ l.mode # "key share")

LEMMA TakenRow ==
  ASSUME NEW p, NEW l, holds'[p] \subseteq holds[p] \cup {l}
  PROVE  Gains(p, l)
BY DEF Gains, HoldsRow, Owns

LEMMA RequestOrdered ==
  ASSUME TransactionInv, LockOrder, NEW p \in Requests, RequestStep(p)
  PROVE  LockOrder'
<1> USE DEF Goto
<1>1. /\ StateInv /\ RequestInv(p) /\ RequestOrder(p) /\ p \in Procs
      /\ p \notin Reapers /\ req[p].key \in Keys
  BY ProcessesDistinct DEF TransactionInv, LockOrder, Procs, StateInv, Call
<1>2. /\ \A q \in Procs \ {p} : pc'[q] = pc[q]
      /\ sweep' = sweep
  BY <1>1 DEF RequestStep, ReserveScan, ReserveLock, ReserveInsert, ReserveCommit, Diagnose,
              SettleRow, SettleBudget, SettleCommit, StateInv, locals
<1>3. SUFFICES /\ \A q \in Procs \ {p} : holds'[q] = holds[q]
               /\ RequestOrder(p)'
  BY <1>1, <1>2, OrderKept
<1>4. CASE ReserveScan(p)
  <2>1. pc[p] = "reserve_scan" /\ holds' = holds
    BY <1>4 DEF ReserveScan
  <2> QED
    BY <1>1, <2>1 DEF RequestOrder, HoldsRow, Owns
<1>5. CASE ReserveLock(p)
  <2> DEFINE l == NoKey("kb", req[p].key)
  <2>1. /\ holds'[p] = holds[p] \cup {l} /\ \A q \in Procs \ {p} : holds'[q] = holds[q]
        /\ pc'[p] \in {"reserve_insert", "diagnose"}
    BY <1>1, <1>5 DEF ReserveLock, Take, StateInv
  <2>2. l.row = <<"kb", req[p].key>>
    BY DEF NoKey, Lock
  <2> HIDE DEF l
  <2>3. /\ \A r \in Requests : l.row # <<"rv", r>>
        /\ \A k \in Keys : l.row # <<"vk", k>>
    BY <2>2, DistinctRows
  <2>4. Gains(p, l)
    BY <2>1, TakenRow
  <2>5. RequestOrder(p)'
    BY <1>1, <2>1, <2>2, <2>3, <2>4 DEF RequestOrder, Gains
  <2> QED
    BY <2>1, <2>5
<1>6. CASE ReserveInsert(p)
  <2> DEFINE l == Share(req[p].key)
  <2>1. /\ holds'[p] = holds[p] \cup {l} /\ \A q \in Procs \ {p} : holds'[q] = holds[q]
        /\ pc'[p] = "reserve_commit"
    BY <1>1, <1>6 DEF ReserveInsert, Take, StateInv
  <2>2. l.row = <<"vk", req[p].key>> /\ l.mode = "key share"
    BY DEF Share, Lock
  <2> HIDE DEF l
  <2>3. /\ \A r \in Requests : l.row # <<"rv", r>>
        /\ \A k \in Keys : l.row # <<"kb", k>>
    BY <2>2, DistinctRows
  <2>4. Gains(p, l)
    BY <2>1, TakenRow
  <2>5. RequestOrder(p)'
    BY <1>1, <2>1, <2>2, <2>3, <2>4 DEF RequestOrder, Gains
  <2> QED
    BY <2>1, <2>5
<1>7. CASE \E answered \in BOOLEAN : ReserveCommit(p, answered)
  <2>1. ReleaseAll(p)
    BY <1>7 DEF ReserveCommit
  <2> QED
    BY <1>1, <2>1, ReleasedOrder
<1>8. CASE Diagnose(p)
  <2>1. ReleaseAll(p)
    BY <1>8 DEF Diagnose
  <2> QED
    BY <1>1, <2>1, ReleasedOrder
<1>9. CASE SettleRow(p)
  <2> DEFINE l == NoKey("rv", p)
  <2>1. /\ holds'[p] \subseteq holds[p] \cup {l}
        /\ \A q \in Procs \ {p} : holds'[q] = holds[q]
        /\ pc[p] = "settle_row"
    BY <1>1, <1>9 DEF SettleRow, Take, StateInv
  <2>2. l.row = <<"rv", p>>
    BY DEF NoKey, Lock
  <2> HIDE DEF l
  <2>3. /\ \A r \in Requests : l.row = <<"rv", r>> => r = p
        /\ \A k \in Keys : l.row # <<"vk", k>> /\ l.row # <<"kb", k>>
    BY <2>2, DistinctRows
  <2>4. Gains(p, l)
    BY <2>1, TakenRow
  <2>5. RequestOrder(p)'
    BY <1>1, <2>1, <2>2, <2>3, <2>4 DEF RequestOrder, Gains
  <2> QED
    BY <2>1, <2>5
<1>10. CASE SettleBudget(p)
  <2> DEFINE l == NoKey("kb", req[p].key)
  <2>1. /\ holds'[p] = holds[p] \cup {l} /\ \A q \in Procs \ {p} : holds'[q] = holds[q]
        /\ pc'[p] = "settle_commit"
    BY <1>1, <1>10 DEF SettleBudget, Take, StateInv
  <2>2. l.row = <<"kb", req[p].key>>
    BY DEF NoKey, Lock
  <2> HIDE DEF l
  <2>3. /\ \A r \in Requests : l.row # <<"rv", r>>
        /\ \A k \in Keys : l.row # <<"vk", k>>
    BY <2>2, DistinctRows
  <2>4. Gains(p, l)
    BY <2>1, TakenRow
  <2>5. RequestOrder(p)'
    BY <1>1, <2>1, <2>2, <2>3, <2>4 DEF RequestOrder, Gains
  <2> QED
    BY <2>1, <2>5
<1>11. CASE \E answered \in BOOLEAN : SettleCommit(p, answered)
  <2>1. ReleaseAll(p)
    BY <1>11 DEF SettleCommit
  <2> QED
    BY <1>1, <2>1, ReleasedOrder
<1> QED
  BY <1>4, <1>5, <1>6, <1>7, <1>8, <1>9, <1>10, <1>11 DEF RequestStep

LEMMA ReaperOrdered ==
  ASSUME TransactionInv, LockOrder, NEW a \in Reapers, ReaperStep(a)
  PROVE  LockOrder'
<1> USE DEF Goto
<1>1. /\ StateInv /\ ReaperInv(a) /\ ReaperOrder(a) /\ a \in Procs
      /\ a \notin Requests /\ sweep[a].todo \subseteq Keys
  BY ProcessesDistinct DEF TransactionInv, LockOrder, Procs, StateInv
<1>2. CASE \E B \in SUBSET Requests : ReapSelect(a, B)
  <2>1. PICK B \in SUBSET Requests : ReapSelect(a, B)
    BY <1>2
  <2> DEFINE L == {ForUpdate("rv", r) : r \in B}
             w == [claims |-> B, todo |-> {rv[r].key : r \in B}]
  <2>2. /\ holds' = [holds EXCEPT ![a] = L] /\ sweep' = [sweep EXCEPT ![a] = w]
        /\ pc' = [pc EXCEPT ![a] = "reap_lock"] /\ B # {}
    BY <2>1 DEF ReapSelect
  <2>3. w.todo # {}
    BY <2>2
  <2>4. \A l \in L : \E r \in B : l.row = <<"rv", r>>
    BY DEF ForUpdate, Lock
  <2> HIDE DEF L, w
  <2>5. /\ holds'[a] = L /\ sweep'[a] = w /\ pc'[a] = "reap_lock"
        /\ \A q \in Procs \ {a} : pc'[q] = pc[q] /\ holds'[q] = holds[q]
        /\ \A q \in Reapers \ {a} : sweep'[q] = sweep[q]
    BY <1>1, <2>2 DEF StateInv
  <2>6. ReaperOrder(a)'
    BY <2>3, <2>4, <2>5 DEF ReaperOrder, HoldsRow
  <2> QED
    BY <1>1, <2>5, <2>6, OrderKept
<1>3. CASE ReapLock(a)
  <2>1. PICK k \in LowestFirst(a) :
           /\ Take(a, ForUpdate("kb", k))
           /\ sweep' = [sweep EXCEPT ![a].todo = @ \ {k}]
           /\ pc' = [pc EXCEPT ![a] = IF sweep[a].todo = {k} THEN "reap_commit"
                                      ELSE "reap_lock"]
    BY <1>3 DEF ReapLock
  <2> DEFINE l == ForUpdate("kb", k)
  <2>2. l.row = <<"kb", k>>
    BY DEF ForUpdate, Lock
  <2>3. /\ holds'[a] = holds[a] \cup {l}
        /\ \A q \in Procs \ {a} : pc'[q] = pc[q] /\ holds'[q] = holds[q]
        /\ \A q \in Reapers \ {a} : sweep'[q] = sweep[q]
        /\ pc'[a] = IF sweep[a].todo = {k} THEN "reap_commit" ELSE "reap_lock"
    BY <1>1, <2>1 DEF Take, StateInv
  <2>4. sweep'[a].todo = sweep[a].todo \ {k}
    BY <1>1, <2>1 DEF StateInv
  <2>5. k \in sweep[a].todo /\ k \in Nat /\ \A j \in sweep[a].todo : k <= j /\ j \in Nat
    BY <1>1, KeysAndModels DEF LowestFirst, Keys
  <2> HIDE DEF l
  <2>6. \A j \in sweep'[a].todo : k < j
    BY <2>4, <2>5
  <2>7. ReaperOrder(a)'
    BY <1>1, <2>2, <2>3, <2>4, <2>5, <2>6 DEF ReaperOrder, HoldsRow
  <2> QED
    BY <1>1, <2>3, <2>7, OrderKept
<1>4. CASE ReapCommit(a)
  <2>1. /\ ReleaseAll(a) /\ pc'[a] = "idle"
        /\ \A q \in Procs \ {a} : pc'[q] = pc[q]
        /\ \A q \in Reapers \ {a} : sweep'[q] = sweep[q]
    BY <1>1, <1>4 DEF ReapCommit, StateInv
  <2> QED
    BY <1>1, <2>1, ReleasedOrder, OrderKept
<1> QED
  BY <1>2, <1>3, <1>4 DEF ReaperStep

(* Every other step ends a transaction, or takes no lock and holds no balance. *)
LEMMA OthersOrdered ==
  ASSUME TransactionInv, LockOrder, [Next]_vars,
         ~(\E p \in Requests : RequestStep(p)), ~(\E a \in Reapers : ReaperStep(a))
  PROVE  LockOrder'
<1> USE DEF Goto
<1>1. /\ StateInv /\ LockOrder
      /\ Requests \subseteq Procs /\ Reapers \subseteq Procs /\ Admins \subseteq Procs
      /\ \A p \in Requests : p \notin Reapers /\ RequestOrder(p)
      /\ \A a \in Admins : a \notin Reapers /\ a \notin Requests
  BY ProcessesDistinct DEF TransactionInv, Procs, LockOrder
<1>2. CASE UNCHANGED <<pc, holds, sweep>>
  BY <1>1, <1>2 DEF LockOrder, RequestOrder, ReaperOrder, HoldsRow, Owns
<1>3. ASSUME NEW p \in Requests, sweep' = sweep, holds' = holds,
             pc[p] \in {"idle", "granted", "settled", "settle_failed"},
             NEW label, pc' = [pc EXCEPT ![p] = label]
      PROVE  LockOrder'
  <2>1. \A q \in Procs \ {p} : pc'[q] = pc[q] /\ holds'[q] = holds[q]
    BY <1>1, <1>3 DEF StateInv
  <2>2. RequestOrder(p)'
    BY <1>1, <1>3 DEF RequestOrder, HoldsRow, Owns
  <2> QED
    BY <1>1, <1>3, <2>1, <2>2, OrderKept
<1>4. ASSUME NEW a \in Admins, sweep' = sweep,
             \A q \in Procs \ {a} : pc'[q] = pc[q] /\ holds'[q] = holds[q]
      PROVE  LockOrder'
  BY <1>1, <1>4, OrderKept
<1>5. ASSUME NEW p \in Requests, NEW k \in Keys, NEW m \in Models, NEW est \in Amounts,
             BeginReserve(p, k, m, est)
      PROVE  LockOrder'
  BY <1>3, <1>5 DEF BeginReserve
<1>6. ASSUME NEW p \in Requests, NEW actual \in Amounts, BeginSettle(p, actual)
      PROVE  LockOrder'
  BY <1>3, <1>6 DEF BeginSettle
<1>7. ASSUME NEW p \in Requests, DeferredRelease(p) PROVE LockOrder'
  BY <1>3, <1>7 DEF DeferredRelease
<1>8. ASSUME NEW k \in Keys, NEW limit \in LimitValues, NEW allowed \in SUBSET Models,
             CreateKey(k, limit, allowed)
      PROVE  LockOrder'
  BY <1>2, <1>8 DEF CreateKey, locals
<1>9. ASSUME NEW a \in Admins, NEW k \in Keys, RevokeKey(a, k) PROVE LockOrder'
  BY <1>1, <1>4, <1>9 DEF RevokeKey, locals, StateInv
<1>10. ASSUME NEW a \in Admins, NEW k \in Keys, NEW limit \in LimitValues \cup {Keep},
              NEW allowed \in (SUBSET Models) \cup {Keep}, BeginUpdate(a, k, limit, allowed)
       PROVE  LockOrder'
  BY <1>1, <1>4, <1>10 DEF BeginUpdate, StateInv
<1>11. ASSUME NEW a \in Admins, AdminStep(a) PROVE LockOrder'
  <2>1. sweep' = sweep /\ \A q \in Procs \ {a} : pc'[q] = pc[q] /\ holds'[q] = holds[q]
    BY <1>1, <1>11 DEF AdminStep, UpdateLock, UpdateLimit, UpdateCommit, Take, ReleaseAll,
                       locals, StateInv
  <2> QED
    BY <1>4, <2>1
<1>12. ASSUME NEW p \in Procs, RollBack(p) PROVE LockOrder'
  <2>1. /\ ReleaseAll(p) /\ \A q \in Procs \ {p} : pc'[q] = pc[q]
        /\ pc'[p] # "reap_lock"
        /\ \A q \in Reapers \ {p} : sweep'[q] = sweep[q]
    BY <1>1, <1>12 DEF RollBack, StateInv
  <2> QED
    BY <1>1, <2>1, ReleasedOrder, OrderKept
<1>13. ASSUME NEW p \in Requests, Crash(p) PROVE LockOrder'
  <2>1. /\ ReleaseAll(p) /\ \A q \in Procs \ {p} : pc'[q] = pc[q]
        /\ sweep' = sweep
    BY <1>1, <1>13 DEF Crash, locals, StateInv
  <2> QED
    BY <1>1, <2>1, ReleasedOrder, OrderKept
<1>14. CASE Tick
  BY <1>2, <1>14 DEF Tick, locals
<1>15. CASE UNCHANGED vars
  BY <1>2, <1>15 DEF vars
<1> QED
  BY <1>5, <1>6, <1>7, <1>8, <1>9, <1>10, <1>11, <1>12, <1>13, <1>14, <1>15
  DEF Next, Fail, DeadlockAbort

LEMMA InitOrder == Init => LockOrder
<1>1. Requests \subseteq Procs /\ Reapers \subseteq Procs
  BY DEF Procs
<1> QED
  BY <1>1 DEF Init, LockOrder, RequestOrder, ReaperOrder, HoldsRow, Owns

THEOREM LockingIsOrdered == Spec => []LockOrder
<1>1. TransactionInv /\ LockOrder /\ [Next]_vars => LockOrder'
  BY RequestOrdered, ReaperOrdered, OthersOrdered
<1> QED
  BY <1>1, InitOrder, TransactionInvariance, PTL DEF Spec

-------------------------------------------------------------------------------
(* Handlers and reapers never deadlock among themselves. *)

LEMMA WantedBy ==
  ASSUME StateInv, NEW p \in Procs, NEW l \in Wanted(p)
  PROVE  \/ pc[p] \in {"reserve_lock", "settle_budget"} /\ l = NoKey("kb", req[p].key)
         \/ pc[p] = "reserve_insert" /\ l = Share(req[p].key)
         \/ pc[p] = "settle_row" /\ l = NoKey("rv", p)
         \/ pc[p] = "reap_lock" /\ \E k \in LowestFirst(p) : l = ForUpdate("kb", k)
         \/ pc[p] = "update_lock"
         \/ pc[p] = "update_limit"
BY DEF Wanted

(* A set of keys has a greatest member. *)
LEMMA GreatestKey ==
  ASSUME NEW W \in SUBSET Keys, W # {}
  PROVE  \E k \in W : \A j \in W : ~(k < j)
<1> DEFINE T == {NKeys - k : k \in W}
           R == OpToRel(<, Nat)
<1>1. NKeys \in Nat /\ \A k \in W : k \in Nat /\ k <= NKeys
  BY KeysAndModels DEF Keys
<1>2. T \subseteq Nat /\ T # {}
  BY <1>1
<1>3. IsWellFoundedOn(R, Nat)
  BY NatLessThanWellFounded
<1>4. PICK x \in T : \A y \in T : ~(<<y, x>> \in R)
  <2> HIDE DEF T, R
  <2> QED
    BY <1>2, <1>3, WFMin
<1>5. \A y \in T : ~(y < x)
  BY <1>2, <1>4 DEF OpToRel
<1>6. PICK k \in W : x = NKeys - k
  OBVIOUS
<1> QED
  BY <1>1, <1>5, <1>6

LEMMA NobodyStuck ==
  ASSUME TransactionInv, LockOrder, NEW S \in SUBSET (Requests \cup Reapers)
  PROVE  ~Stuck(S)
<1> SUFFICES ASSUME Stuck(S) PROVE FALSE
  OBVIOUS
<1>1. /\ StateInv /\ S # {}
      /\ \A p \in Requests : /\ RequestInv(p) /\ RequestOrder(p) /\ p \in Procs
                             /\ req[p].key \in Keys /\ p \notin Reapers
      /\ \A a \in Reapers : /\ ReaperInv(a) /\ ReaperOrder(a) /\ a \in Procs
                            /\ sweep[a].todo \subseteq Keys
  BY ProcessesDistinct DEF TransactionInv, LockOrder, Stuck, StateInv, Procs, Call
<1> DEFINE Holder(p, l) ==
              \E q \in S : \E m \in holds[q] : /\ q # p /\ m.row = l.row
                                               /\ l.mode = "key share" => m.mode # "key share"
           BlockedOn(p, k) ==
              \E l \in Wanted(p) : l.row = <<"kb", k>> /\ Holder(p, l)
(* Whoever waits, waits for a row that another of them holds. *)
<1>2. ASSUME NEW p \in S PROVE \E l \in Wanted(p) : Holder(p, l)
  <2>1. PICK q \in S : WaitsFor(p, q)
    BY DEF Stuck
  <2>2. PICK l \in Wanted(p), m \in holds[q] : Conflicts(m, l) /\ q # p
    BY <2>1 DEF WaitsFor, Blocks
  <2>3. m.row = l.row /\ (l.mode = "key share" => m.mode # "key share")
    BY <2>2 DEF Conflicts
  <2> QED
    BY <2>2, <2>3
(* Nobody waits at an insert: only UpdateKey locks a key against it. *)
<1>3. ASSUME NEW p \in S, pc[p] = "reserve_insert" PROVE FALSE
  <2>1. p \in Requests
    <3>1. p \in Reapers => pc[p] \in InSweep \cup {"idle"}
      BY <1>1 DEF ReaperInv
    <3> QED
      BY <1>3, <3>1 DEF InSweep
  <2>2. PICK l \in Wanted(p) : Holder(p, l)
    BY <1>2
  <2>3. l = Share(req[p].key)
    BY <1>1, <1>3, <2>1, WantedBy
  <2>4. l.row = <<"vk", req[p].key>> /\ l.mode = "key share"
    BY <2>3 DEF Share, Lock
  <2>5. PICK q \in S : HoldsRow(q, <<"vk", req[p].key>>) /\ Owns(q, <<"vk", req[p].key>>)
    BY <2>2, <2>4 DEF HoldsRow, Owns
  <2> QED
    BY <1>1, <2>1, <2>5 DEF RequestOrder, ReaperOrder
(* Everybody else waits for a balance, but for a settle at its row. *)
<1>4. ASSUME NEW p \in S, pc[p] # "settle_row"
      PROVE  \E k \in Keys : BlockedOn(p, k) /\ (p \in Reapers => k \in sweep[p].todo)
  <2>1. PICK l \in Wanted(p) : Holder(p, l)
    BY <1>2
  <2> HIDE DEF Holder
  <2>2. CASE p \in Requests
    <3>1. l = NoKey("kb", req[p].key)
      BY <1>1, <1>3, <1>4, <2>1, <2>2, WantedBy DEF RequestInv, InReserve, InSettle
    <3>2. l.row = <<"kb", req[p].key>>
      BY <3>1 DEF NoKey, Lock
    <3> QED
      BY <1>1, <2>1, <2>2, <3>2
  <2>3. CASE p \in Reapers
    <3>1. PICK k \in LowestFirst(p) : l = ForUpdate("kb", k)
      BY <1>1, <2>1, <2>3, WantedBy DEF ReaperInv, InSweep
    <3>2. l.row = <<"kb", k>>
      BY <3>1 DEF ForUpdate, Lock
    <3>3. k \in Keys /\ k \in sweep[p].todo
      BY <1>1, <2>3, <3>1 DEF LowestFirst
    <3> QED
      BY <2>1, <3>2, <3>3
  <2> QED
    BY <2>2, <2>3
(* A row that a settle waits for is held by a reaper. *)
<1>5. ASSUME NEW p \in S, pc[p] = "settle_row"
      PROVE  \E q \in S : q \in Reapers
  <2>1. p \in Requests
    <3>1. p \in Reapers => pc[p] \in InSweep \cup {"idle"}
      BY <1>1 DEF ReaperInv
    <3> QED
      BY <1>5, <3>1 DEF InSweep
  <2>2. PICK l \in Wanted(p) : Holder(p, l)
    BY <1>2
  <2>3. l = NoKey("rv", p)
    BY <1>1, <1>5, <2>1, WantedBy
  <2>4. l.row = <<"rv", p>>
    BY <2>3 DEF NoKey, Lock
  <2>5. PICK q \in S : q # p /\ HoldsRow(q, <<"rv", p>>)
    BY <2>2, <2>4 DEF HoldsRow
  <2> QED
    BY <1>1, <2>1, <2>5 DEF RequestOrder
(* Who holds a balance that is waited for waits for a higher one. *)
<1>6. ASSUME NEW p \in S, NEW k \in Keys, BlockedOn(p, k)
      PROVE  \E q \in S, j \in Keys : BlockedOn(q, j) /\ k < j
  <2>1. PICK q \in S : HoldsRow(q, <<"kb", k>>)
    BY <1>6 DEF HoldsRow
  <2>2. CASE q \in Requests
    <3>1. pc[q] \in {"reserve_insert", "reserve_commit", "diagnose", "settle_commit"}
      BY <1>1, <2>1, <2>2 DEF RequestOrder
    <3>2. PICK l \in Wanted(q) : TRUE
      BY <1>2
    <3>3. pc[q] = "reserve_insert"
      BY <1>1, <2>2, <3>1, <3>2, WantedBy
    <3> QED
      BY <1>3, <3>3
  <2>3. CASE q \in Reapers
    <3>1. pc[q] # "settle_row"
      <4>1. pc[q] \in InSweep \cup {"idle"}
        BY <1>1, <2>3 DEF ReaperInv
      <4> QED
        BY <4>1 DEF InSweep
    <3> HIDE DEF BlockedOn
    <3>2. PICK j \in Keys : BlockedOn(q, j) /\ j \in sweep[q].todo
      BY <1>4, <2>3, <3>1
    <3>3. k < j
      BY <1>1, <2>1, <2>3, <3>2 DEF ReaperOrder
    <3> QED
      BY <3>2, <3>3
  <2> QED
    BY <2>2, <2>3
<1> DEFINE W == {k \in Keys : \E p \in S : BlockedOn(p, k)}
<1> HIDE DEF BlockedOn
<1>7. W # {}
  <2>1. PICK p \in S : pc[p] # "settle_row"
    <3>1. PICK p \in S : TRUE
      BY <1>1
    <3>2. CASE pc[p] = "settle_row"
      <4>1. PICK q \in S : q \in Reapers
        BY <1>5, <3>2
      <4>2. pc[q] \in InSweep \cup {"idle"}
        BY <1>1, <4>1 DEF ReaperInv
      <4> QED
        BY <4>2 DEF InSweep
    <3> QED
      BY <3>1, <3>2
  <2> QED
    BY <1>4, <2>1
<1>8. PICK k \in W : \A j \in W : ~(k < j)
  <2> HIDE DEF W
  <2>1. W \in SUBSET Keys
    BY DEF W
  <2> QED
    BY <1>7, <2>1, GreatestKey
<1> QED
  BY <1>6, <1>8

(* Handlers and reapers never wait for each other in a circle, however many *)
(* keys a sweep spans: a settle locks its row before the balance, a sweep   *)
(* skips locked rows and locks balances in the order of their keys.         *)
THEOREM NoDeadlock == Spec => []NoDeadlockWithoutUpdate
<1>1. TransactionInv /\ LockOrder => NoDeadlockWithoutUpdate
  BY NobodyStuck DEF NoDeadlockWithoutUpdate
<1> QED
  BY <1>1, TransactionInvariance, LockingIsOrdered, PTL

===============================================================================
