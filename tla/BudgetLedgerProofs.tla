-------------------------- MODULE BudgetLedgerProofs --------------------------
(***************************************************************************)
(* Proofs about BudgetLedger, for any keys, amounts and limits, and any    *)
(* finite set of reservations.                                             *)
(*                                                                         *)
(* BalanceMatchesLog is not inductive by itself: a rotation zeroes spent,  *)
(* which agrees with the log only because no row of the log lies in a      *)
(* later window (LogWithinWindow).  TypeOK is not either: that a settle or *)
(* a sweep leaves reserved at zero or more follows from the balance being  *)
(* the sum of the pending estimates.  LedgerInv is the conjunction, and    *)
(* there is one lemma per action.                                          *)
(***************************************************************************)
EXTENDS BudgetLedger, SumTheorems

USE DEF Months

(* The sets and amounts that the sums range over. *)
LEMMA LogTypes ==
    ASSUME TypeOK
    PROVE  /\ \A k \in Keys : IsFiniteSet(Pending(k))
           /\ \A k \in Keys, w \in Months : IsFiniteSet(SettledIn(k, w))
           /\ \A r \in Reservations :
                 /\ Estimates[r] \in Nat /\ Estimates[r] = res[r].est
                 /\ Actuals[r] \in Nat /\ Actuals[r] = res[r].actual
                 /\ Excess[r] \in Nat
<1>1. \A S \in SUBSET Reservations : IsFiniteSet(S)
  BY ReservationsFinite, FS_Subset
<1>2. \A k \in Keys : Pending(k) \in SUBSET Reservations
  BY DEF Pending
<1>3. \A k \in Keys, w \in Months : SettledIn(k, w) \in SUBSET Reservations
  BY DEF SettledIn
<1>4. ASSUME NEW r \in Reservations
      PROVE  /\ Estimates[r] \in Nat /\ Estimates[r] = res[r].est
             /\ Actuals[r] \in Nat /\ Actuals[r] = res[r].actual
             /\ Excess[r] \in Nat
  BY DEF TypeOK, ReservationRow, Estimates, Actuals, Excess
<1> QED
  BY <1>1, <1>2, <1>3, <1>4

(* The same of the next state. *)
LEMMA LogTypesNext ==
    ASSUME TypeOK'
    PROVE  /\ \A k \in Keys : IsFiniteSet(Pending(k)')
           /\ \A k \in Keys : IsFiniteSet(SettledIn(k, budget[k].window)')
           /\ \A r \in Reservations :
                 /\ Estimates'[r] \in Nat /\ Estimates'[r] = res'[r].est
                 /\ Actuals'[r] \in Nat /\ Actuals'[r] = res'[r].actual
                 /\ Excess'[r] \in Nat
<1>1. \A S \in SUBSET Reservations : IsFiniteSet(S)
  BY ReservationsFinite, FS_Subset
<1>2. \A k \in Keys : Pending(k)' \in SUBSET Reservations
  BY DEF Pending
<1>3. \A k \in Keys : SettledIn(k, budget[k].window)' \in SUBSET Reservations
  BY DEF SettledIn
<1>4. ASSUME NEW r \in Reservations
      PROVE  /\ Estimates'[r] \in Nat /\ Estimates'[r] = res'[r].est
             /\ Actuals'[r] \in Nat /\ Actuals'[r] = res'[r].actual
             /\ Excess'[r] \in Nat
  BY DEF TypeOK, ReservationRow, Estimates, Actuals, Excess
<1> QED
  BY <1>1, <1>2, <1>3, <1>4

(* A step that leaves the log's sets and amounts of a key alone leaves its  *)
(* sums alone.                                                              *)
LEMMA SumsUnchanged ==
    ASSUME NEW k \in Keys,
           Pending(k)' = Pending(k),
           SettledIn(k, budget[k].window)' = SettledIn(k, budget[k].window),
           \A q \in Pending(k) : Estimates'[q] = Estimates[q],
           \A q \in SettledIn(k, budget[k].window) :
               Actuals'[q] = Actuals[q] /\ Excess'[q] = Excess[q]
    PROVE  /\ LogReserved(k)' = LogReserved(k)
           /\ LogSpent(k)' = LogSpent(k)
           /\ Total(SettledIn(k, budget[k].window), Excess)'
                 = Total(SettledIn(k, budget[k].window), Excess)
BY TotalSame DEF LogReserved, LogSpent

LEMMA InitLedger == Init => LedgerInv
<1> SUFFICES ASSUME Init PROVE LedgerInv
  OBVIOUS
<1>1. TypeOK
  BY KeysNonEmpty, MaxMonthNatural
  DEF Init, TypeOK, BudgetRow, LimitValues, ReservationRow, AbsentRow
<1>2. \A r \in Reservations : res[r].state = "none"
  BY DEF Init, AbsentRow
<1>3. ASSUME NEW k \in Keys
      PROVE  Pending(k) = {} /\ SettledIn(k, budget[k].window) = {}
  BY <1>2 DEF Pending, SettledIn
<1>4. BalanceMatchesLog
  BY <1>3, TotalEmpty DEF BalanceMatchesLog, LogSpent, LogReserved, Init
<1>5. SpendWithinCeiling
  BY <1>3, TotalEmpty DEF SpendWithinCeiling, Init
<1> QED
  BY <1>1, <1>2, <1>4, <1>5 DEF LedgerInv, LogWithinWindow

LEMMA ReserveLedger ==
    ASSUME LedgerInv,
           NEW k \in Keys, NEW r \in Reservations, NEW t \in Months,
           NEW est \in Amounts, NEW due \in BOOLEAN, Reserve(k, r, t, est, due)
    PROVE  LedgerInv'
<1> DEFINE w == WindowAt(k, t)
           row == [state |-> "pending", key |-> k, window |-> w, est |-> est,
                   actual |-> 0, late |-> FALSE, due |-> due]
<1> USE DEF LedgerInv
<1>1. est \in Nat /\ w \in Months /\ SpentAt(k, t) \in Nat /\ row \in ReservationRow
  BY AmountsNatural DEF TypeOK, BudgetRow, WindowAt, SpentAt, ReservationRow
<1>2. /\ budget'[k] = [window |-> w, limit |-> budget[k].limit,
                       spent |-> SpentAt(k, t), reserved |-> budget[k].reserved + est]
      /\ \A j \in Keys \ {k} : budget'[j] = budget[j]
      /\ res'[r] = row
      /\ \A q \in Reservations \ {r} : res'[q] = res[q]
      /\ res[r].state = "none"
      /\ ceiling'[k] = budget[k].limit
      /\ \A j \in Keys \ {k} : ceiling'[j] = ceiling[j]
      /\ keys' = keys /\ k \in keys
  BY DEF Reserve, TypeOK, BudgetRow
<1>3. TypeOK'
  <2>1. budget' \in [Keys -> BudgetRow]
    <3>1. budget' = [j \in Keys |-> budget'[j]]
      BY DEF Reserve, TypeOK
    <3>2. budget'[k] \in BudgetRow
      BY <1>1, <1>2 DEF TypeOK, BudgetRow
    <3>3. \A j \in Keys \ {k} : budget'[j] \in BudgetRow
      BY <1>2 DEF TypeOK
    <3> QED
      BY <3>1, <3>2, <3>3
  <2>2. res' \in [Reservations -> ReservationRow]
    BY <1>1 DEF Reserve, TypeOK
  <2>3. ceiling' \in [Keys -> Nat \cup {NoLimit}]
    BY LimitsNatural DEF Reserve, TypeOK, BudgetRow, LimitValues
  <2> QED
    BY <2>1, <2>2, <2>3 DEF Reserve, TypeOK
<1>4. w >= budget[k].window
  BY DEF WindowAt, Rotated, TypeOK, BudgetRow
<1>5. LogWithinWindow'
  BY <1>1, <1>2, <1>4 DEF LogWithinWindow, TypeOK, BudgetRow, ReservationRow
<1>6. \A q \in Reservations \ {r} :
         /\ Estimates'[q] = Estimates[q]
         /\ Actuals'[q] = Actuals[q]
         /\ Excess'[q] = Excess[q]
  BY <1>2 DEF Estimates, Actuals, Excess
<1>7. \A j \in Keys : r \notin Pending(j) /\ \A v \in Months : r \notin SettledIn(j, v)
  BY <1>2 DEF Pending, SettledIn
<1>8. /\ \A j \in Keys \ {k} : Pending(j)' = Pending(j)
      /\ Pending(k)' = Pending(k) \cup {r}
  BY <1>2 DEF Pending
<1>9. \A j \in Keys, v \in Months : SettledIn(j, v)' = SettledIn(j, v)
  BY <1>2 DEF SettledIn
<1>10. ASSUME NEW j \in Keys \ {k}
       PROVE  /\ LogReserved(j)' = LogReserved(j)
              /\ LogSpent(j)' = LogSpent(j)
              /\ Total(SettledIn(j, budget[j].window), Excess)'
                    = Total(SettledIn(j, budget[j].window), Excess)
  <2>1. budget[j].window \in Months /\ budget'[j].window = budget[j].window
    BY <1>2 DEF TypeOK, BudgetRow
  <2>2. SettledIn(j, budget[j].window)' = SettledIn(j, budget[j].window)
    BY <2>1, <1>9
  <2>3. Pending(j) \subseteq Reservations \ {r}
    BY <1>7 DEF Pending
  <2>4. SettledIn(j, budget[j].window) \subseteq Reservations \ {r}
    BY <1>7, <2>1 DEF SettledIn
  <2> QED
    BY <2>2, <2>3, <2>4, <1>6, <1>8, SumsUnchanged
<1>11. LogReserved(k)' = LogReserved(k) + est
  <2>1. IsFiniteSet(Pending(k)) /\ \A q \in Reservations : Estimates'[q] \in Nat
    BY <1>3, LogTypes, LogTypesNext
  <2>2. Pending(k) \subseteq Reservations \ {r}
    BY <1>7 DEF Pending
  <2>3. Total(Pending(k) \cup {r}, Estimates') = Total(Pending(k), Estimates') + Estimates'[r]
    BY <2>1, <2>2, TotalAdd
  <2>4. Total(Pending(k), Estimates') = Total(Pending(k), Estimates)
    BY <2>2, <1>6, TotalSame
  <2>5. Estimates'[r] = est
    BY <1>2 DEF Estimates
  <2> QED
    BY <2>3, <2>4, <2>5, <1>8 DEF LogReserved
<1>12. /\ LogSpent(k)' = SpentAt(k, t)
       /\ Total(SettledIn(k, budget[k].window), Excess)' \in Nat
  <2>1. Total(SettledIn(k, budget[k].window), Excess)' \in Nat
    <3>1. SettledIn(k, budget[k].window)' \subseteq Reservations
      BY DEF SettledIn
    <3>2. /\ IsFiniteSet(SettledIn(k, budget[k].window)')
          /\ \A q \in SettledIn(k, budget[k].window)' : Excess'[q] \in Nat
      BY <3>1, <1>3, LogTypesNext
    <3> QED
      BY <3>2, TotalNat
  <2>2. budget'[k].window = w
    BY <1>2
  <2>3. SettledIn(k, budget[k].window)' = SettledIn(k, w)
    BY <2>2, <1>1, <1>9
  <2>4. CASE Rotated(k, t)
    <3>1. SettledIn(k, w) = {}
      BY <2>4 DEF LogWithinWindow, SettledIn, WindowAt, Rotated, TypeOK, BudgetRow,
                  ReservationRow
    <3>2. SpentAt(k, t) = 0
      BY <2>4 DEF SpentAt
    <3> QED
      BY <2>1, <2>3, <3>1, <3>2, TotalEmpty DEF LogSpent
  <2>5. CASE ~Rotated(k, t)
    <3>1. w = budget[k].window /\ SpentAt(k, t) = budget[k].spent
      BY <2>5 DEF WindowAt, SpentAt
    <3>2. SettledIn(k, w) \subseteq Reservations \ {r}
      BY <1>1, <1>7 DEF SettledIn
    <3>3. Total(SettledIn(k, w), Actuals') = Total(SettledIn(k, w), Actuals)
      BY <3>2, <1>6, TotalSame
    <3> QED
      BY <2>1, <2>3, <3>1, <3>3 DEF LogSpent, BalanceMatchesLog
  <2> QED
    BY <2>4, <2>5
<1>13. BalanceMatchesLog'
  BY <1>2, <1>10, <1>11, <1>12 DEF BalanceMatchesLog
<1>14. SpendWithinCeiling'
  <2>1. ASSUME NEW j \in Keys \ {k}
        PROVE  ceiling'[j] # NoLimit =>
                  budget'[j].spent + budget'[j].reserved
                    <= ceiling'[j] + Total(SettledIn(j, budget[j].window), Excess)'
    BY <1>2, <1>10 DEF SpendWithinCeiling
  <2>2. ASSUME ceiling'[k] # NoLimit
        PROVE  budget'[k].spent + budget'[k].reserved
                 <= ceiling'[k] + Total(SettledIn(k, budget[k].window), Excess)'
    <3>1. budget[k].limit \in Nat /\ budget[k].reserved \in Nat
      BY <2>2, <1>2, LimitsNatural DEF TypeOK, BudgetRow, LimitValues
    <3>2. SpentAt(k, t) + budget[k].reserved + est <= budget[k].limit
      BY <2>2, <1>2 DEF Reserve, Affordable
    <3> QED
      BY <3>1, <3>2, <1>1, <1>2, <1>12
  <2> QED
    BY <2>1, <2>2 DEF SpendWithinCeiling
<1> QED
  BY <1>3, <1>5, <1>13, <1>14

LEMMA SettleLedger ==
    ASSUME LedgerInv,
           NEW r \in Reservations, NEW actual \in Amounts, Settle(r, actual)
    PROVE  LedgerInv'
<1>0. PICK k \in Keys : k = res[r].key
  BY DEF LedgerInv, TypeOK, ReservationRow
<1> DEFINE w == res[r].window
           released == Released(r)
           charged == Charged(r, actual)
           late == (res[r].state = "expired")
           win == budget[k].window
           row == [window |-> win, limit |-> budget[k].limit,
                   spent |-> budget[k].spent + charged,
                   reserved |-> budget[k].reserved - released]
<1> USE DEF LedgerInv
<1>1. /\ k \in Keys /\ w \in Months /\ actual \in Nat /\ res[r].est \in Nat
      /\ budget[k] \in BudgetRow /\ win \in Months
  BY <1>0, AmountsNatural DEF TypeOK, BudgetRow, ReservationRow
<1>2. released \in Nat /\ charged \in Nat /\ late \in BOOLEAN
  BY <1>0, <1>1 DEF Released, Charged
<1>3. /\ budget' = [budget EXCEPT ![k] = row]
      /\ res' = [res EXCEPT ![r] = [res[r] EXCEPT !.state = "settled", !.actual = actual,
                                                  !.late = late]]
      /\ res[r].state \in {"pending", "expired"}
      /\ keys' = keys /\ ceiling' = ceiling /\ month' = month
  <2>1. budget'[k] = row
    BY <1>0, <1>1 DEF Settle, TypeOK, BudgetRow
  <2>2. \A j \in Keys \ {k} : budget'[j] = budget[j]
    BY <1>0, <1>1 DEF Settle, TypeOK
  <2>3. budget' = [j \in Keys |-> budget'[j]] /\ budget = [j \in Keys |-> budget[j]]
    BY DEF Settle, TypeOK
  <2>4. budget' = [budget EXCEPT ![k] = row]
    BY <2>1, <2>2, <2>3
  <2> QED
    BY <2>4, <1>1 DEF Settle, TypeOK
<1>4. /\ budget'[k].window = win /\ budget'[k].limit = budget[k].limit
      /\ budget'[k].spent = budget[k].spent + charged
      /\ budget'[k].reserved = budget[k].reserved - released
      /\ \A j \in Keys \ {k} : budget'[j] = budget[j]
  BY <1>1, <1>3 DEF TypeOK, BudgetRow
<1>5. /\ res'[r].state = "settled" /\ res'[r].key = k /\ res'[r].window = w
      /\ res'[r].est = res[r].est /\ res'[r].actual = actual /\ res'[r].late = late
      /\ \A q \in Reservations \ {r} : res'[q] = res[q]
  BY <1>0, <1>1, <1>3 DEF TypeOK, ReservationRow
<1>6. released <= LogReserved(k) /\ LogReserved(k)' = LogReserved(k) - released
  <2>1. /\ IsFiniteSet(Pending(k)) /\ Pending(k) \subseteq Reservations
        /\ \A q \in Reservations : Estimates[q] \in Nat /\ Estimates[q] = res[q].est
    BY <1>1, LogTypes DEF Pending
  <2>2. Estimates' = Estimates
    BY <1>5 DEF Estimates
  <2>3. CASE res[r].state = "pending"
    <3>1. r \in Pending(k) /\ released = Estimates[r]
      BY <2>1, <2>3, <1>0 DEF Pending, Released
    <3>2. Pending(k)' = Pending(k) \ {r}
      BY <1>5 DEF Pending
    <3>3. /\ Total(Pending(k) \ {r}, Estimates) = Total(Pending(k), Estimates) - Estimates[r]
          /\ Estimates[r] <= Total(Pending(k), Estimates)
      BY <2>1, <3>1, TotalRemove
    <3> QED
      BY <2>2, <3>1, <3>2, <3>3 DEF LogReserved
  <2>4. CASE res[r].state = "expired"
    <3>1. released = 0
      BY <2>4 DEF Released
    <3>2. Pending(k)' = Pending(k)
      BY <2>4, <1>5 DEF Pending
    <3>3. LogReserved(k) \in Nat
      BY <2>1, TotalNat DEF LogReserved
    <3> QED
      BY <2>2, <3>1, <3>2, <3>3 DEF LogReserved
  <2> QED
    BY <2>3, <2>4, <1>3
<1>7. TypeOK'
  <2>1. budget[k].reserved - released \in Nat
    BY <1>1, <1>2, <1>6 DEF BalanceMatchesLog, BudgetRow
  <2>2. row \in BudgetRow
    BY <2>1, <1>1, <1>2 DEF BudgetRow
  <2>3. budget' \in [Keys -> BudgetRow]
    BY <2>2, <1>3 DEF TypeOK
  <2>4. [res[r] EXCEPT !.state = "settled", !.actual = actual, !.late = late]
           \in ReservationRow
    BY <1>1, <1>2 DEF TypeOK, ReservationRow
  <2>5. res' \in [Reservations -> ReservationRow]
    BY <2>4, <1>3 DEF TypeOK
  <2> QED
    BY <2>3, <2>5, <1>3 DEF TypeOK
<1>8. LogWithinWindow'
  BY <1>0, <1>1, <1>3, <1>4, <1>5 DEF LogWithinWindow
<1>9. \A q \in Reservations \ {r} :
         /\ Estimates'[q] = Estimates[q]
         /\ Actuals'[q] = Actuals[q]
         /\ Excess'[q] = Excess[q]
  BY <1>5 DEF Estimates, Actuals, Excess
<1>10. Estimates'[r] = Estimates[r]
  BY <1>5 DEF Estimates
<1>11. \A j \in Keys, v \in Months : r \notin SettledIn(j, v)
  BY <1>3 DEF SettledIn
<1>12. ASSUME NEW j \in Keys \ {k}
       PROVE  /\ LogReserved(j)' = LogReserved(j)
              /\ LogSpent(j)' = LogSpent(j)
              /\ Total(SettledIn(j, budget[j].window), Excess)'
                    = Total(SettledIn(j, budget[j].window), Excess)
  <2>1. Pending(j)' = Pending(j)
    BY <1>0, <1>5 DEF Pending
  <2>2. budget[j].window \in Months
    BY DEF TypeOK, BudgetRow
  <2>3. SettledIn(j, budget[j].window)' = SettledIn(j, budget[j].window)
    BY <1>0, <1>3, <1>4, <1>5 DEF SettledIn
  <2>4. SettledIn(j, budget[j].window) \subseteq Reservations \ {r}
    BY <2>2, <1>11 DEF SettledIn
  <2>5. \A q \in Pending(j) : Estimates'[q] = Estimates[q]
    BY <1>9, <1>10 DEF Pending
  <2> QED
    BY <2>1, <2>3, <2>4, <2>5, <1>9, SumsUnchanged
<1>13. /\ LogSpent(k) \in Nat
       /\ Total(SettledIn(k, win), Excess) \in Nat
       /\ LogSpent(k)' = LogSpent(k) + charged
       /\ Total(SettledIn(k, budget[k].window), Excess)'
             >= Total(SettledIn(k, win), Excess) + charged - released
  <2>1. /\ IsFiniteSet(SettledIn(k, win))
        /\ SettledIn(k, win) \subseteq Reservations \ {r}
        /\ \A q \in Reservations : /\ Actuals[q] \in Nat /\ Actuals'[q] \in Nat
                                    /\ Excess[q] \in Nat /\ Excess'[q] \in Nat
    BY <1>1, <1>7, <1>11, LogTypes, LogTypesNext DEF SettledIn
  <2>2. /\ Total(SettledIn(k, win), Actuals) \in Nat
        /\ Total(SettledIn(k, win), Excess) \in Nat
    BY <2>1, TotalNat
  <2>3. /\ Total(SettledIn(k, win), Actuals') = Total(SettledIn(k, win), Actuals)
        /\ Total(SettledIn(k, win), Excess') = Total(SettledIn(k, win), Excess)
    BY <2>1, <1>9, TotalSame
  <2>4. CASE w = win
    <3>1. SettledIn(k, budget[k].window)' = SettledIn(k, win) \cup {r}
      BY <2>4, <1>1, <1>4, <1>5 DEF SettledIn
    <3>2. Total(SettledIn(k, win) \cup {r}, Actuals')
             = Total(SettledIn(k, win), Actuals') + Actuals'[r]
      BY <2>1, TotalAdd
    <3>3. Total(SettledIn(k, win) \cup {r}, Excess')
             = Total(SettledIn(k, win), Excess') + Excess'[r]
      BY <2>1, TotalAdd
    <3>4. Actuals'[r] = actual /\ charged = actual
      BY <2>4, <1>0, <1>5 DEF Actuals, Charged
    <3>5. Excess'[r] >= actual - released
      <4>1. CASE res[r].state = "expired"
        <5>1. res'[r].late /\ released = 0
          BY <4>1, <1>5 DEF Released
        <5> QED
          BY <5>1, <1>1, <1>5 DEF Excess
      <4>2. CASE res[r].state = "pending"
        <5>1. ~res'[r].late /\ released = res[r].est
          BY <4>2, <1>5 DEF Released
        <5> QED
          BY <5>1, <1>1, <1>5 DEF Excess
      <4> QED
        BY <4>1, <4>2, <1>3
    <3> QED
      BY <2>1, <2>2, <2>3, <3>1, <3>2, <3>3, <3>4, <3>5, <1>2 DEF LogSpent
  <2>5. CASE w # win
    <3>1. SettledIn(k, budget[k].window)' = SettledIn(k, win)
      BY <2>5, <1>3, <1>4, <1>5 DEF SettledIn
    <3>2. charged = 0
      BY <2>5, <1>0 DEF Charged
    <3> QED
      BY <2>2, <2>3, <3>1, <3>2, <1>2 DEF LogSpent
  <2> QED
    BY <2>4, <2>5
<1>14. BalanceMatchesLog'
  BY <1>1, <1>4, <1>6, <1>12, <1>13 DEF BalanceMatchesLog
<1>15. SpendWithinCeiling'
  <2>1. ASSUME NEW j \in Keys \ {k}
        PROVE  ceiling'[j] # NoLimit =>
                  budget'[j].spent + budget'[j].reserved
                    <= ceiling'[j] + Total(SettledIn(j, budget[j].window), Excess)'
    BY <1>3, <1>4, <1>12 DEF SpendWithinCeiling
  <2>2. ASSUME ceiling'[k] # NoLimit
        PROVE  budget'[k].spent + budget'[k].reserved
                 <= ceiling'[k] + Total(SettledIn(k, budget[k].window), Excess)'
    <3>1. ceiling[k] \in Nat /\ budget[k].spent \in Nat /\ budget[k].reserved \in Nat
      BY <2>2, <1>1, <1>3 DEF TypeOK, BudgetRow
    <3>2. budget[k].spent + budget[k].reserved
             <= ceiling[k] + Total(SettledIn(k, win), Excess)
      BY <2>2, <1>1, <1>3 DEF SpendWithinCeiling
    <3>3. Total(SettledIn(k, budget[k].window), Excess)' \in Nat
      <4>1. SettledIn(k, budget[k].window)' \subseteq Reservations
        BY DEF SettledIn
      <4> QED
        BY <4>1, <1>1, <1>7, LogTypesNext, TotalNat
    <3> QED
      BY <3>1, <3>2, <3>3, <1>2, <1>3, <1>4, <1>13
  <2> QED
    BY <2>1, <2>2 DEF SpendWithinCeiling
<1> QED
  BY <1>7, <1>8, <1>14, <1>15

LEMMA ReapLedger ==
    ASSUME LedgerInv, NEW B \in SUBSET Reservations, Reap(B)
    PROVE  LedgerInv'
<1> USE DEF LedgerInv
<1>1. /\ keys' = keys /\ ceiling' = ceiling /\ month' = month
      /\ \A r \in B : res[r].state = "pending"
      /\ \A r \in Reservations :
            /\ res'[r].key = res[r].key /\ res'[r].window = res[r].window
            /\ res'[r].est = res[r].est /\ res'[r].actual = res[r].actual
            /\ res'[r].late = res[r].late
            /\ res'[r].state = IF r \in B THEN "expired" ELSE res[r].state
  BY DEF Reap, Reapable, TypeOK, ReservationRow
<1>2. \A k \in Keys : /\ budget'[k].window = budget[k].window
                      /\ budget'[k].limit = budget[k].limit
                      /\ budget'[k].spent = budget[k].spent
                      /\ budget'[k].reserved
                            = budget[k].reserved - Total(ClaimsOf(B, k), Estimates)
  BY DEF Reap, TypeOK, BudgetRow
<1>3. Estimates' = Estimates /\ Actuals' = Actuals /\ Excess' = Excess
  BY <1>1 DEF Estimates, Actuals, Excess
<1>4. ASSUME NEW k \in Keys
      PROVE  /\ Total(ClaimsOf(B, k), Estimates) \in Nat
             /\ Total(ClaimsOf(B, k), Estimates) <= LogReserved(k)
             /\ LogReserved(k)' = LogReserved(k) - Total(ClaimsOf(B, k), Estimates)
  <2>1. /\ IsFiniteSet(Pending(k))
        /\ \A q \in Reservations : Estimates[q] \in Nat
    BY LogTypes
  <2>2. ClaimsOf(B, k) \in SUBSET Pending(k) /\ Pending(k) \subseteq Reservations
    BY <1>1 DEF ClaimsOf, Pending
  <2>3. Pending(k)' = Pending(k) \ ClaimsOf(B, k)
    BY <1>1 DEF ClaimsOf, Pending
  <2>4. IsFiniteSet(ClaimsOf(B, k))
    BY <2>1, <2>2, FS_Subset
  <2>5. Total(ClaimsOf(B, k), Estimates) \in Nat
    BY <2>1, <2>2, <2>4, TotalNat
  <2>6. /\ Total(Pending(k) \ ClaimsOf(B, k), Estimates)
              = Total(Pending(k), Estimates) - Total(ClaimsOf(B, k), Estimates)
        /\ Total(ClaimsOf(B, k), Estimates) <= Total(Pending(k), Estimates)
    BY <2>1, <2>2, TotalDiff
  <2> QED
    BY <2>3, <2>5, <2>6, <1>3 DEF LogReserved
<1>5. \A k \in Keys : SettledIn(k, budget[k].window)' = SettledIn(k, budget[k].window)
  BY <1>1, <1>2 DEF SettledIn
<1>6. TypeOK'
  <2>1. \A k \in Keys : budget'[k].reserved \in Nat
    BY <1>2, <1>4 DEF BalanceMatchesLog, TypeOK, BudgetRow
  <2>2. budget' \in [Keys -> BudgetRow]
    <3>1. ASSUME NEW k \in Keys
          PROVE  [budget[k] EXCEPT !.reserved = budget'[k].reserved] \in BudgetRow
      BY <2>1 DEF TypeOK, BudgetRow
    <3>2. \A k \in Keys : budget'[k] = [budget[k] EXCEPT !.reserved = budget'[k].reserved]
      BY <1>2 DEF Reap, TypeOK, BudgetRow
    <3>3. budget' = [k \in Keys |-> budget'[k]]
      BY DEF Reap
    <3> QED
      BY <3>1, <3>2, <3>3
  <2>3. res' \in [Reservations -> ReservationRow]
    BY DEF Reap, TypeOK, ReservationRow
  <2> QED
    BY <2>2, <2>3, <1>1 DEF TypeOK
<1>7. LogWithinWindow'
  BY <1>1, <1>2 DEF LogWithinWindow, TypeOK, ReservationRow
<1>8. BalanceMatchesLog'
  BY <1>2, <1>3, <1>4, <1>5 DEF BalanceMatchesLog, LogSpent
<1>9. SpendWithinCeiling'
  <2> SUFFICES ASSUME NEW k \in Keys, ceiling'[k] # NoLimit
               PROVE  budget'[k].spent + budget'[k].reserved
                        <= ceiling'[k] + Total(SettledIn(k, budget[k].window), Excess)'
    BY DEF SpendWithinCeiling
  <2>1. /\ ceiling[k] \in Nat /\ budget[k].spent \in Nat /\ budget[k].reserved \in Nat
        /\ SettledIn(k, budget[k].window) \subseteq Reservations
        /\ budget[k].window \in Months
    BY <1>1 DEF TypeOK, BudgetRow, SettledIn
  <2>2. Total(SettledIn(k, budget[k].window), Excess) \in Nat
    BY <2>1, LogTypes, TotalNat
  <2>3. budget[k].spent + budget[k].reserved
           <= ceiling[k] + Total(SettledIn(k, budget[k].window), Excess)
    BY <1>1 DEF SpendWithinCeiling
  <2>4. Total(SettledIn(k, budget[k].window), Excess)'
           = Total(SettledIn(k, budget[k].window), Excess)
    BY <1>3, <1>5
  <2> QED
    BY <2>1, <2>2, <2>3, <2>4, <1>1, <1>2, <1>4
<1> QED
  BY <1>6, <1>7, <1>8, <1>9

LEMMA CreateKeyLedger ==
    ASSUME LedgerInv, NEW k \in Keys, NEW limit \in LimitValues, NEW t \in Months,
           CreateKey(k, limit, t)
    PROVE  LedgerInv'
<1> USE DEF LedgerInv
<1>1. /\ k \notin keys /\ keys' = keys \cup {k}
      /\ budget'[k] = [window |-> t, limit |-> limit, spent |-> 0, reserved |-> 0]
      /\ \A j \in Keys \ {k} : budget'[j] = budget[j]
      /\ res' = res /\ ceiling' = ceiling /\ month' = month
  BY DEF CreateKey, TypeOK
<1>2. TypeOK'
  <2>1. budget' \in [Keys -> BudgetRow]
    BY DEF CreateKey, TypeOK, BudgetRow
  <2> QED
    BY <2>1, <1>1 DEF TypeOK
<1>3. \A r \in Reservations : res[r].state # "none" => res[r].key # k
  BY <1>1 DEF LogWithinWindow
<1>4. LogWithinWindow'
  BY <1>1, <1>3 DEF LogWithinWindow, TypeOK, ReservationRow
<1>5. Estimates' = Estimates /\ Actuals' = Actuals /\ Excess' = Excess
  BY <1>1 DEF Estimates, Actuals, Excess
<1>6. ASSUME NEW j \in Keys \ {k}
      PROVE  /\ Pending(j)' = Pending(j)
             /\ SettledIn(j, budget[j].window)' = SettledIn(j, budget[j].window)
  BY <1>1 DEF Pending, SettledIn
<1>7. Pending(k)' = {} /\ SettledIn(k, budget[k].window)' = {}
  BY <1>1, <1>3 DEF Pending, SettledIn
<1>8. BalanceMatchesLog'
  <2>1. ASSUME NEW j \in Keys \ {k}
        PROVE  budget'[j].spent = LogSpent(j)' /\ budget'[j].reserved = LogReserved(j)'
    BY <1>1, <1>5, <1>6 DEF BalanceMatchesLog, LogSpent, LogReserved
  <2>2. LogSpent(k)' = 0 /\ LogReserved(k)' = 0
    BY <1>7, TotalEmpty DEF LogSpent, LogReserved
  <2> QED
    BY <2>1, <2>2, <1>1 DEF BalanceMatchesLog
<1>9. SpendWithinCeiling'
  <2>1. ASSUME NEW j \in Keys \ {k}
        PROVE  ceiling'[j] # NoLimit =>
                  budget'[j].spent + budget'[j].reserved
                    <= ceiling'[j] + Total(SettledIn(j, budget[j].window), Excess)'
    BY <1>1, <1>5, <1>6 DEF SpendWithinCeiling
  <2>2. ASSUME ceiling'[k] # NoLimit
        PROVE  budget'[k].spent + budget'[k].reserved
                 <= ceiling'[k] + Total(SettledIn(k, budget[k].window), Excess)'
    <3>1. ceiling'[k] \in Nat
      BY <2>2, <1>2 DEF TypeOK
    <3>2. Total(SettledIn(k, budget[k].window), Excess)' = 0
      BY <1>7, TotalEmpty
    <3> QED
      BY <3>1, <3>2, <1>1
  <2> QED
    BY <2>1, <2>2 DEF SpendWithinCeiling
<1> QED
  BY <1>2, <1>4, <1>8, <1>9

(* A step that changes no row of the log (but the due marks), and of the   *)
(* balances only limits, keeps the invariant.                              *)
LEMMA BalancesUntouched ==
    ASSUME LedgerInv, TypeOK',
           keys' = keys, ceiling' = ceiling,
           \A k \in Keys : /\ budget'[k].window = budget[k].window
                           /\ budget'[k].spent = budget[k].spent
                           /\ budget'[k].reserved = budget[k].reserved,
           \A r \in Reservations :
               /\ res'[r].key = res[r].key /\ res'[r].window = res[r].window
               /\ res'[r].est = res[r].est /\ res'[r].actual = res[r].actual
               /\ res'[r].late = res[r].late /\ res'[r].state = res[r].state
    PROVE  LedgerInv'
<1> USE DEF LedgerInv
<1>1. LogWithinWindow'
  BY DEF LogWithinWindow, TypeOK, ReservationRow
<1>2. Estimates' = Estimates /\ Actuals' = Actuals /\ Excess' = Excess
  BY DEF Estimates, Actuals, Excess
<1>3. \A k \in Keys :
         /\ Pending(k)' = Pending(k)
         /\ SettledIn(k, budget[k].window)' = SettledIn(k, budget[k].window)
  BY DEF Pending, SettledIn
<1>4. BalanceMatchesLog'
  BY <1>2, <1>3 DEF BalanceMatchesLog, LogSpent, LogReserved
<1>5. SpendWithinCeiling'
  BY <1>2, <1>3 DEF SpendWithinCeiling
<1> QED
  BY <1>1, <1>4, <1>5

LEMMA UpdateLimitLedger ==
    ASSUME LedgerInv, NEW k \in Keys, NEW limit \in LimitValues, UpdateLimit(k, limit)
    PROVE  LedgerInv'
<1>1. TypeOK'
  BY DEF LedgerInv, UpdateLimit, TypeOK, BudgetRow
<1>2. \A j \in Keys : /\ budget'[j].window = budget[j].window
                      /\ budget'[j].spent = budget[j].spent
                      /\ budget'[j].reserved = budget[j].reserved
  BY DEF LedgerInv, UpdateLimit, TypeOK, BudgetRow
<1> QED
  BY <1>1, <1>2, BalancesUntouched DEF UpdateLimit

LEMMA TimePassesLedger ==
    ASSUME LedgerInv, NEW m \in Months, NEW D \in SUBSET Reservations, TimePasses(m, D)
    PROVE  LedgerInv'
<1>1. TypeOK'
  BY DEF LedgerInv, TimePasses, TypeOK, ReservationRow
<1>2. \A r \in Reservations :
         /\ res'[r].key = res[r].key /\ res'[r].window = res[r].window
         /\ res'[r].est = res[r].est /\ res'[r].actual = res[r].actual
         /\ res'[r].late = res[r].late /\ res'[r].state = res[r].state
  BY DEF LedgerInv, TimePasses, TypeOK, ReservationRow
<1> QED
  BY <1>1, <1>2, BalancesUntouched DEF TimePasses

(* Every step keeps the inductive invariant. *)
LEMMA NextLedger == LedgerInv /\ [Next]_vars => LedgerInv'
<1> SUFFICES ASSUME LedgerInv, [Next]_vars PROVE LedgerInv'
  OBVIOUS
<1>1. CASE UNCHANGED vars
  <2>1. TypeOK'
    BY <1>1 DEF LedgerInv, TypeOK, vars
  <2> QED
    BY <2>1, <1>1, BalancesUntouched DEF vars
<1>2. CASE Next
  BY <1>2, ReserveLedger, SettleLedger, ReapLedger, CreateKeyLedger, UpdateLimitLedger,
     TimePassesLedger DEF Next
<1> QED
  BY <1>1, <1>2

-------------------------------------------------------------------------------
(* The inductive invariant holds in every behaviour of the ledger. *)
THEOREM LedgerInvariance == Spec => []LedgerInv
  BY InitLedger, NextLedger, PTL DEF Spec

(* The balance of every key stays a pair of natural numbers: no settle and  *)
(* no sweep ever releases more than is reserved, as the CHECK constraints   *)
(* of key_budgets demand.                                                   *)
THEOREM TypeCorrectness == Spec => []TypeOK
<1>1. LedgerInv => TypeOK
  BY DEF LedgerInv
<1> QED
  BY <1>1, LedgerInvariance, PTL

(* The first check of Reconcile finds no drift: after any number of         *)
(* committed reserves, settles, late settles, sweeps and rotations, every   *)
(* materialised balance equals the one recomputed from the log.             *)
THEOREM NoBalanceDrift == Spec => []BalanceMatchesLog
<1>1. LedgerInv => BalanceMatchesLog
  BY DEF LedgerInv
<1> QED
  BY <1>1, LedgerInvariance, PTL

(* The hard stop of Reserve: a balance exceeds the limit its last reserve   *)
(* was admitted under only by requests that overshot their estimate or      *)
(* settled after the reaper had released them.                              *)
THEOREM HardStop == Spec => []SpendWithinCeiling
<1>1. LedgerInv => SpendWithinCeiling
  BY DEF LedgerInv
<1> QED
  BY <1>1, LedgerInvariance, PTL

(* The spending window of a key only moves forward, although a reserve may  *)
(* run with a now() older than a rotation that has committed.               *)
THEOREM WindowMonotone == Spec => WindowNeverGoesBack
<1>1. ASSUME LedgerInv, [Next]_vars
      PROVE  [\A k \in keys : budget'[k].window >= budget[k].window]_vars
  <2> SUFFICES ASSUME Next, NEW k \in keys
               PROVE  budget'[k].window >= budget[k].window
    BY <1>1
  <2>0. TypeOK /\ k \in Keys /\ budget[k].window \in Nat
    BY <1>1, MaxMonthNatural DEF LedgerInv, TypeOK, BudgetRow
  <2>1. ASSUME NEW j \in Keys, NEW r \in Reservations, NEW t \in Months,
               NEW est \in Amounts, NEW due \in BOOLEAN, Reserve(j, r, t, est, due)
        PROVE  budget'[k].window >= budget[k].window
    BY <2>0, <2>1 DEF Reserve, WindowAt, Rotated, TypeOK, BudgetRow
  <2>2. ASSUME NEW r \in Reservations, NEW actual \in Amounts, Settle(r, actual)
        PROVE  budget'[k].window >= budget[k].window
    BY <2>0, <2>2 DEF Settle, TypeOK, BudgetRow
  <2>3. ASSUME NEW B \in SUBSET Reservations, Reap(B)
        PROVE  budget'[k].window >= budget[k].window
    BY <2>0, <2>3 DEF Reap, TypeOK, BudgetRow
  <2>4. ASSUME NEW j \in Keys, NEW limit \in LimitValues, NEW t \in Months,
               CreateKey(j, limit, t)
        PROVE  budget'[k].window >= budget[k].window
    BY <2>0, <2>4 DEF CreateKey, TypeOK
  <2>5. ASSUME NEW j \in Keys, NEW limit \in LimitValues, UpdateLimit(j, limit)
        PROVE  budget'[k].window >= budget[k].window
    BY <2>0, <2>5 DEF UpdateLimit, TypeOK, BudgetRow
  <2>6. ASSUME NEW m \in Months, NEW D \in SUBSET Reservations, TimePasses(m, D)
        PROVE  budget'[k].window >= budget[k].window
    BY <2>0, <2>6 DEF TimePasses
  <2> QED
    BY <2>1, <2>2, <2>3, <2>4, <2>5, <2>6 DEF Next
<1> QED
  BY <1>1, LedgerInvariance, PTL DEF Spec, WindowNeverGoesBack

===============================================================================
