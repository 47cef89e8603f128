---------------------------- MODULE ProcessProofs -----------------------------
(***************************************************************************)
(* Proofs about the life of a gateway process.                             *)
(*                                                                         *)
(* Replicas (Lifecycle), for any number of them and any timeouts that the  *)
(* configuration accepts: they migrate one at a time, a reservation        *)
(* outlives its request, and a shutdown refuses nobody and cuts off nobody *)
(* before its time.                                                        *)
(*                                                                         *)
(* The usage buffer inside one (UsageBuffer), for every number of records, *)
(* every capacity, every batch size and every bound on failures: BufferInv *)
(* is inductive.  AcceptedIsHeld is so almost by itself; that a clean      *)
(* shutdown keeps everything also needs to know that the last look at the  *)
(* channel stays true, because by then nobody can add to it.               *)
(***************************************************************************)
EXTENDS Lifecycle, UsageBuffer, FiniteSetTheorems, TLAPS

-------------------------------------------------------------------------------
(* Replicas. *)

(* Before anything has started, nobody migrates. *)
LEMMA MigrationInit == Init => MigrationInv
  BY DEF Init, MigrationInv, MigratorHoldsLock, MigrationReadHolds, OrphanIsNext

(* A replica that goes on to a phase outside the migration, the lock and    *)
(* the schema staying as they are, disturbs nobody.                         *)
LEMMA PlainMove ==
  ASSUME MigrationInv, NEW r \in Replicas,
         NEW to \in {"exited", "locking", "loading", "serving", "draining",
                     "stopping", "flushing"},
         Goto(r, to), UNCHANGED <<lock, version, seen, orphan, landed>>
  PROVE  MigrationInv'
  BY DEF MigrationInv, MigratorHoldsLock, MigrationReadHolds, OrphanIsNext, Goto

(* A process that is gone holds no lock, and took nobody else's; a COMMIT   *)
(* it leaves behind is that of the next migration, and nobody else migrates.*)
LEMMA VanishKeeps ==
  ASSUME MigrationInv, NEW r \in Replicas, NEW why, Vanish(r, why)
  PROVE  MigrationInv'
<1>1. /\ phase' \in [Replicas -> {"exited", "locking", "locked", "migrating", "loading",
                                  "serving", "draining", "stopping", "flushing"}]
      /\ phase'[r] = "exited" /\ \A s \in Replicas : s # r => phase'[s] = phase[s]
  BY DEF MigrationInv, Vanish, Goto
<1>2. /\ DOMAIN seen' = Replicas /\ seen' = [s \in Replicas |-> seen'[s]]
      /\ \A s \in Replicas : s # r => seen'[s] = seen[s]
      /\ version' = version /\ landed' = landed
  BY DEF MigrationInv, Vanish
<1>3. MigratorHoldsLock' /\ MigrationReadHolds'
  BY <1>1, <1>2, NobodyAssumption
     DEF MigrationInv, MigratorHoldsLock, MigrationReadHolds, Vanish
<1>4. OrphanIsNext'
  <2>1. CASE orphan' = orphan
    BY <1>1, <1>2, <2>1 DEF MigrationInv, OrphanIsNext
  <2>2. CASE phase[r] = "migrating" /\ seen[r] < LastMigration /\ seen[r] = version
             /\ orphan' = version + 1
    <3>1. \A s \in Replicas : phase'[s] # "migrating"
      BY <1>1, <2>2 DEF MigrationInv, MigratorHoldsLock
    <3> QED
      BY <1>2, <2>2, <3>1, PoolAssumption DEF MigrationInv, OrphanIsNext
  <2> QED
    BY <2>1, <2>2 DEF Vanish
<1> QED
  BY <1>1, <1>2, <1>3, <1>4 DEF MigrationInv

(* The next migration, or one that a late COMMIT has applied before. *)
LEMMA UpKeeps ==
  ASSUME MigrationInv, NEW r \in Replicas, Up(r) PROVE MigrationInv'
<1> USE DEF process, fate
<1>1. /\ version \in Nat /\ seen[r] \in {version, version - 1}
      /\ seen[r] = version - 1 => orphan = 0
      /\ orphan # 0 => orphan = version + 1
  BY DEF MigrationInv, MigrationReadHolds, OrphanIsNext, Up
<1>2. orphan = 0
  BY <1>1 DEF Up
<1>3. /\ version' = seen[r] + 1 /\ seen'[r] = seen[r] + 1
      /\ \A s \in Replicas : s # r => phase[s] # "migrating"
      /\ UNCHANGED <<phase, lock, orphan, landed>>
  BY DEF MigrationInv, MigratorHoldsLock, Up
<1>4. DOMAIN seen' = Replicas /\ seen' = [s \in Replicas |-> seen'[s]]
  BY DEF MigrationInv, Up
<1>5. version' \in Nat
  <2>1. CASE seen[r] = version
    BY <1>1, <1>3, <2>1
  <2>2. CASE seen[r] = version - 1
    BY <1>1, <1>3, <2>2
  <2> QED
    BY <1>1, <2>1, <2>2
<1>6. MigratorHoldsLock' /\ MigrationReadHolds' /\ OrphanIsNext'
  BY <1>2, <1>3 DEF MigrationInv, MigratorHoldsLock, MigrationReadHolds, OrphanIsNext
<1> QED
  BY <1>3, <1>4, <1>5, <1>6 DEF MigrationInv

(* A COMMIT on its own lands one migration, the next one. *)
LEMMA OrphanKeeps ==
  ASSUME MigrationInv, NEW commits \in BOOLEAN, OrphanEnds(commits)
  PROVE  MigrationInv'
<1> USE DEF process
<1>1. /\ version \in Nat /\ orphan = version + 1
      /\ \A r \in Replicas : phase[r] = "migrating" => seen[r] = version
  BY DEF MigrationInv, OrphanIsNext, OrphanEnds
<1>2. UNCHANGED <<phase, lock, seen>> /\ orphan' = 0
  BY DEF OrphanEnds
<1>3. \/ version' = version
      \/ version' = version + 1 /\ version' \in landed'
  BY <1>1 DEF OrphanEnds
<1>4. MigrationReadHolds'
  BY <1>1, <1>2, <1>3 DEF MigrationReadHolds
<1> QED
  BY <1>1, <1>2, <1>3, <1>4 DEF MigrationInv, MigratorHoldsLock, OrphanIsNext

(* Every step keeps the migrator in possession of the lock and its reading  *)
(* of the version true: boot, one action at a time, then the rest.          *)
LEMMA MigrationStep == MigrationInv /\ [Next]_vars => MigrationInv'
<1> SUFFICES ASSUME MigrationInv, [Next]_vars PROVE MigrationInv'
  OBVIOUS
<1> USE DEF process, database, fate, balancer
<1>1. ASSUME UNCHANGED <<phase, database>> PROVE MigrationInv'
  BY <1>1 DEF MigrationInv, MigratorHoldsLock, MigrationReadHolds, OrphanIsNext
<1>2. ASSUME NEW r \in Replicas, Start(r) PROVE MigrationInv'
  BY <1>2, PlainMove DEF Start
<1>3. ASSUME NEW r \in Replicas, TakeLock(r) PROVE MigrationInv'
  BY <1>3, NobodyAssumption
     DEF TakeLock, Goto, MigrationInv, MigratorHoldsLock, MigrationReadHolds, OrphanIsNext
<1>4. ASSUME NEW r \in Replicas, ReadVersion(r) PROVE MigrationInv'
  BY <1>4 DEF ReadVersion, Goto, MigrationInv, MigratorHoldsLock, MigrationReadHolds,
              OrphanIsNext
<1>5. ASSUME NEW r \in Replicas, Unlock(r) PROVE MigrationInv'
  BY <1>5 DEF Unlock, Goto, MigrationInv, MigratorHoldsLock, MigrationReadHolds,
              OrphanIsNext
<1>6. ASSUME NEW r \in Replicas, Listen(r) PROVE MigrationInv'
  BY <1>6, PlainMove DEF Listen
<1>7. ASSUME NEW r \in Replicas,
             BootFails(r) \/ UpFails(r) \/ Abort(r) \/ Exit(r) \/ Crash(r) \/ ListenerFails(r)
      PROVE  MigrationInv'
  BY <1>7, VanishKeeps DEF BootFails, UpFails, Abort, Exit, Crash, ListenerFails
<1>8. ASSUME NEW r \in Replicas, BeginDraining(r) \/ Shutdown(r) \/ StopBackground(r)
      PROVE  MigrationInv'
  BY <1>8, PlainMove DEF BeginDraining, Shutdown, StopBackground
<1>9. ASSUME NEW r \in Replicas,
             \/ Signal(r) \/ \E ping \in BOOLEAN : Probe(r, ping)
             \/ \E q \in Requests, d \in KeyDrains : Arrive(q, r, d)
             \/ \E q \in Requests : Reap(q, r)
      PROVE  MigrationInv'
  BY <1>9, <1>1 DEF Signal, Probe, Arrive, Reap
<1>10. ASSUME NEW q \in Requests, Serve(q) PROVE MigrationInv'
  BY <1>10, <1>1
     DEF Serve, WaitEnds, Reserved, ReserveFails, WriteSucceeds, WriteFails, Finish,
         Settled, SettleFails, WriteBlocks, ClientGone, SlotGranted
<1>11. CASE Tick
  BY <1>11, <1>1 DEF Tick
<1>12. CASE UNCHANGED vars
  BY <1>12, <1>1 DEF vars
<1> QED
  BY <1>2, <1>3, <1>4, <1>5, <1>6, <1>7, <1>8, <1>9, <1>10, <1>11, <1>12, UpKeeps,
     OrphanKeeps DEF Next, Boot, Stop

(* MigrationReadHolds, for every number of replicas and of migrations:      *)
(* withMigrationLock serialises what goose reads with what it writes, but   *)
(* for a COMMIT that outlives its process and is the one migration ahead.   *)
THEOREM MigrationsSerialised == Spec => []MigrationReadHolds
<1>1. MigrationInv => MigrationReadHolds
  BY DEF MigrationInv
<1> QED
  BY MigrationInit, MigrationStep, <1>1, PTL DEF Spec

-------------------------------------------------------------------------------
(* The reservation and its request. *)

(* What LoadFrom accepts has numbers for its timeouts, and a TTL that       *)
(* covers provider and drain timeout.                                       *)
LEMMA AcceptedConfig ==
  ASSUME NEW e \in Envs, cfg = LoadFrom(e) PROVE ConfigSound
<1> SUFFICES ASSUME LoadFrom(e) # Refused PROVE ConfigSound
  BY DEF ConfigSound
<1> DEFINE c == Resolved(e)
           given == [f \in DOMAIN e |-> IF f \in Durations \ {"ttl"}
                                        THEN duration(e[f], Default[f]) ELSE e[f]]
<1>1. cfg = c /\ c.ttl >= c.provider + c.drain /\ \A f \in Durations : Valid(e[f])
  BY DEF LoadFrom
<1>2. \A f \in Durations \ {"ttl"} : given[f] \in Nat
  BY <1>1, EnvsAssumption, UnsetAssumption DEF duration, Valid
<1>3. /\ given.provider \in Nat /\ given.drain \in Nat /\ given.write \in Nat
      /\ given.delay \in Nat /\ given.shutdown \in Nat
  BY <1>2 DEF Durations
<1>4. c = [given EXCEPT !["ttl"] = duration(given["ttl"],
                                           given.provider + given.drain + TTLMargin)]
  BY DEF Resolved
<1>5. /\ c.provider = given.provider /\ c.drain = given.drain /\ c.write = given.write
      /\ c.delay = given.delay /\ c.shutdown = given.shutdown
      /\ c.ttl = duration(e["ttl"], given.provider + given.drain + TTLMargin)
  BY <1>4, EnvsAssumption DEF Durations
<1>6. c.ttl \in Nat
  BY <1>1, <1>3, <1>5, EnvsAssumption, UnsetAssumption, TimesAssumption
     DEF duration, Valid, Durations
<1>7. c.delay > ProbeInterval
  BY <1>1, <1>3, <1>5, ProbeAssumption, TimesAssumption
<1> QED
  BY <1>1, <1>3, <1>5, <1>6, <1>7 DEF ConfigSound

(* The configuration is read once, and nothing runs yet. *)
LEMMA ReservationInit == Init => ReservationInv
<1> SUFFICES ASSUME Init PROVE ReservationInv
  OBVIOUS
<1>1. ConfigSound
  BY AcceptedConfig DEF Init
<1>2. Idle \in Request /\ InTime(Idle)
  BY DEF Idle, Request, InTime, Active
<1> QED
  BY <1>1, <1>2 DEF Init, ReservationInv

(* A step that concerns the process alone, and starts it only with a valid  *)
(* configuration.                                                           *)
LEMMA ProcessMove ==
  ASSUME ReservationInv, NEW r \in Replicas,
         NEW to \in {"exited", "locking", "locked", "migrating", "loading",
                     "serving", "draining", "stopping", "flushing"},
         Goto(r, to), to = "exited" \/ cfg # Refused, UNCHANGED <<cfg, req>>
  PROVE  ReservationInv'
<1>1. \A q \in Requests : InTime(req[q])'
  BY DEF ReservationInv, InTime, Drained
<1> QED
  BY <1>1 DEF ReservationInv, ConfigSound, Goto

(* A step of one request, from one record to another that is in time.       *)
LEMMA RequestMove ==
  ASSUME ReservationInv, NEW q \in Requests, NEW x \in Request, InTime(x),
         req' = [req EXCEPT ![q] = x], UNCHANGED <<cfg, phase>>
  PROVE  ReservationInv'
<1>1. \A p \in Requests : InTime(req'[p])
  BY DEF ReservationInv
<1>2. \A p \in Requests : InTime(req[p])'
  BY <1>1 DEF InTime, Drained
<1> QED
  BY <1>2 DEF ReservationInv, ConfigSound

(* A request that is over, and what one that was not settled leaves. *)
LEMMA OverInTime ==
  /\ Done \in Request /\ InTime(Done) /\ Done.at = "done" /\ Done.host = Nobody
  /\ \A x \in Request, why \in {"cut", "lost", "unsettled"} :
        /\ Left(x, why) \in Request /\ InTime(Left(x, why))
        /\ Left(x, why).at = why /\ Left(x, why).host = Nobody
  /\ \A x \in Request :
        /\ Unknown(x) \in Request /\ InTime(Unknown(x))
        /\ Unknown(x).at = "unsettled" /\ Unknown(x).host = Nobody
<1>1. Done \in Request /\ InTime(Done) /\ Done.at = "done" /\ Done.host = Nobody
  BY DEF Done, Idle, Request, InTime, Active
<1>2. ASSUME NEW x \in Request, NEW why \in {"cut", "lost", "unsettled"}
      PROVE  /\ Left(x, why) \in Request
             /\ Left(x, why).at = why /\ Left(x, why).host = Nobody
  <2>1. CASE x.res = "pending"
    BY <2>1 DEF Left, Idle, Request, Active
  <2>2. CASE x.res # "pending"
    BY <2>2 DEF Left, Idle, Request, Active
  <2> QED
    BY <2>1, <2>2
<1>3. ASSUME NEW x \in Request, NEW why \in {"cut", "lost", "unsettled"}
      PROVE  InTime(Left(x, why))
  BY <1>2, <1>3 DEF InTime, Active
<1>4. ASSUME NEW x \in Request
      PROVE  /\ Unknown(x) \in Request /\ InTime(Unknown(x))
             /\ Unknown(x).at = "unsettled" /\ Unknown(x).host = Nobody
  <2> DEFINE y == [x EXCEPT !.res = "pending"]
  <2>1. y \in Request
    BY DEF Request
  <2>2. Unknown(x) = Left(y, "unsettled")
    BY DEF Unknown
  <2> HIDE DEF y
  <2> QED
    BY <1>2, <1>3, <2>1, <2>2
<1> QED
  BY <1>1, <1>2, <1>3, <1>4

(* A process that is gone runs no request. *)
LEMMA VanishInTime ==
  ASSUME ReservationInv, NEW r \in Replicas, NEW why \in {"cut", "lost"},
         Vanish(r, why), UNCHANGED cfg
  PROVE  ReservationInv'
<1>1. \A q \in Requests : req'[q] = req[q] \/ req'[q] = Left(req[q], why)
  BY DEF Vanish
<1>2. ASSUME NEW q \in Requests PROVE req'[q] \in Request /\ InTime(req'[q])
  <2>1. req[q] \in Request /\ InTime(req[q])
    BY DEF ReservationInv
  <2>2. Left(req[q], why) \in Request /\ InTime(Left(req[q], why))
    BY <2>1, OverInTime
  <2> QED
    BY <1>1, <2>1, <2>2
<1>3. \A q \in Requests : InTime(req[q])'
  BY <1>2 DEF InTime, Drained
<1>4. req' \in [Requests -> Request]
  BY <1>2 DEF Vanish
<1> QED
  BY <1>3, <1>4 DEF ReservationInv, ConfigSound, Vanish, Goto

(* Every wait of a request ends within what its record allows. *)
LEMMA ServeInTime ==
  ASSUME ReservationInv, NEW q \in Requests, Serve(q) PROVE ReservationInv'
<1> USE DEF process, database, balancer
<1> DEFINE x == req[q]
<1>1. x \in Request /\ InTime(x) /\ ConfigSound
  BY DEF ReservationInv
<1>2. /\ x.age \in Nat /\ x.left \in Nat /\ x.drain \in Nat /\ x.up \in Nat
      /\ x.late \in Nat /\ x.extra \in Nat /\ SettleTimeout \in Nat
  BY <1>1, TimesAssumption DEF Request
<1>3. CASE Reserved(q)
  <2> DEFINE y == [x EXCEPT !.at = "read", !.res = "pending", !.up = cfg.provider]
  <2>1. y \in Request
    BY <1>1, <1>2, <1>3 DEF Reserved, Request, Active, InTime, ConfigSound
  <2>2. /\ y.at = "read" /\ y.up = cfg.provider /\ y.res = "pending" /\ (y.gone <=> x.gone)
        /\ y.age = x.age /\ y.drain = x.drain /\ y.extra = x.extra
    BY <1>1, <1>3 DEF Reserved, Request, Active, InTime
  <2> HIDE DEF y
  <2>3. InTime(y)
    BY <1>1, <1>2, <1>3, <2>2 DEF Reserved, InTime, Drained, ConfigSound, Active
  <2>4. req' = [req EXCEPT ![q] = y]
    BY <1>3 DEF Reserved, ReservationInv, y
  <2> QED
    BY <1>3, <2>1, <2>3, <2>4, RequestMove DEF Reserved
<1>4. CASE WriteSucceeds(q)
  <2> DEFINE y == [x EXCEPT !.at = "read", !.left = 0]
  <2>1. y \in Request
    BY <1>1, <1>2, <1>4 DEF WriteSucceeds, Request, Active, InTime, ConfigSound
  <2>2. /\ y.at = "read" /\ (y.gone <=> x.gone) /\ y.up = x.up /\ y.res = x.res
        /\ y.age = x.age /\ y.drain = x.drain /\ y.extra = x.extra
    BY <1>1, <1>4 DEF WriteSucceeds, Request, Active, InTime
  <2> HIDE DEF y
  <2>3. InTime(y)
    BY <1>1, <1>2, <1>4, <2>2 DEF WriteSucceeds, InTime, Drained, ConfigSound, Active
  <2>4. req' = [req EXCEPT ![q] = y]
    BY <1>4 DEF WriteSucceeds, ReservationInv, y
  <2> QED
    BY <1>4, <2>1, <2>3, <2>4, RequestMove DEF WriteSucceeds
<1>5. CASE WriteFails(q)
  <2> DEFINE y == [x EXCEPT !.at = "read", !.left = 0, !.gone = TRUE]
  <2>1. y \in Request
    BY <1>1, <1>2, <1>5 DEF WriteFails, Request, Active, InTime, ConfigSound
  <2>2. /\ y.at = "read" /\ y.gone /\ y.up = x.up /\ y.res = x.res
        /\ y.age = x.age /\ y.drain = x.drain /\ y.extra = x.extra
    BY <1>1, <1>5 DEF WriteFails, Request, Active, InTime
  <2> HIDE DEF y
  <2>3. InTime(y)
    BY <1>1, <1>2, <1>5, <2>2 DEF WriteFails, InTime, Drained, ConfigSound, Active
  <2>4. req' = [req EXCEPT ![q] = y]
    BY <1>5 DEF WriteFails, ReservationInv, y
  <2> QED
    BY <1>5, <2>1, <2>3, <2>4, RequestMove DEF WriteFails
<1>6. CASE Finish(q)
  <2> DEFINE y == [x EXCEPT !.at = "settle", !.left = SettleTimeout]
  <2>1. y \in Request
    BY <1>1, <1>2, <1>6 DEF Finish, Request, Active, InTime, ConfigSound
  <2>2. /\ y.at = "settle" /\ (y.gone <=> x.gone) /\ y.up = x.up /\ y.res = x.res
        /\ y.age = x.age /\ y.drain = x.drain /\ y.extra = x.extra
    BY <1>1, <1>6 DEF Finish, Request, Active, InTime
  <2> HIDE DEF y
  <2>3. InTime(y)
    BY <1>1, <1>2, <1>6, <2>2 DEF Finish, InTime, Drained, ConfigSound, Active
  <2>4. req' = [req EXCEPT ![q] = y]
    BY <1>6 DEF Finish, ReservationInv, y
  <2> QED
    BY <1>6, <2>1, <2>3, <2>4, RequestMove DEF Finish
<1>7. CASE WriteBlocks(q)
  <2> DEFINE y == [x EXCEPT !.at = "write", !.left = cfg.write,
                            !.late = IF x.up > 0 THEN @ ELSE @ + 1]
  <2>0. (IF x.up > 0 THEN x.late ELSE x.late + 1) \in Nat /\ cfg.write \in Nat
    BY <1>1, <1>2, <1>7 DEF WriteBlocks, InTime, ConfigSound, Active
  <2>1. y \in Request
    BY <1>1, <2>0 DEF Request, Active
  <2>2. /\ y.at = "write" /\ (y.gone <=> x.gone) /\ y.up = x.up /\ y.res = x.res
        /\ y.age = x.age /\ y.drain = x.drain /\ y.extra = x.extra
    BY <1>1, <1>7 DEF WriteBlocks, Request, Active, InTime
  <2> HIDE DEF y
  <2>3. InTime(y)
    BY <1>1, <1>2, <1>7, <2>2 DEF WriteBlocks, InTime, Drained, ConfigSound, Active
  <2>4. req' = [req EXCEPT ![q] = y]
    BY <1>7 DEF WriteBlocks, ReservationInv, y
  <2> QED
    BY <1>7, <2>1, <2>3, <2>4, RequestMove DEF WriteBlocks
<1>8. CASE ClientGone(q)
  <2> DEFINE y == [x EXCEPT !.at = "slot", !.gone = TRUE, !.left = x.drain]
  <2>1. y \in Request
    BY <1>1, <1>2, <1>8 DEF ClientGone, Request, Active, InTime, ConfigSound
  <2>2. /\ y.at = "slot" /\ y.gone /\ y.left = x.drain /\ y.up = x.up /\ y.res = x.res
        /\ y.age = x.age /\ y.drain = x.drain /\ y.extra = x.extra
    BY <1>1, <1>8 DEF ClientGone, Request, Active, InTime
  <2> HIDE DEF y
  <2>3. InTime(y)
    BY <1>1, <1>2, <1>8, <2>2 DEF ClientGone, InTime, Drained, ConfigSound, Active
  <2>4. req' = [req EXCEPT ![q] = y]
    BY <1>8 DEF ClientGone, ReservationInv, y
  <2> QED
    BY <1>8, <2>1, <2>3, <2>4, RequestMove DEF ClientGone
<1>9. CASE SlotGranted(q)
  <2> DEFINE y == [x EXCEPT !.at = "read", !.left = 0]
  <2>1. y \in Request
    BY <1>1, <1>2, <1>9 DEF SlotGranted, Request, Active, InTime, ConfigSound
  <2>2. /\ y.at = "read" /\ (y.gone <=> x.gone) /\ y.up = x.up /\ y.res = x.res
        /\ y.age = x.age /\ y.drain = x.drain /\ y.extra = x.extra
    BY <1>1, <1>9 DEF SlotGranted, Request, Active, InTime
  <2> HIDE DEF y
  <2>3. InTime(y)
    BY <1>1, <1>2, <1>9, <2>2 DEF SlotGranted, InTime, Drained, ConfigSound, Active
  <2>4. req' = [req EXCEPT ![q] = y]
    BY <1>9 DEF SlotGranted, ReservationInv, y
  <2> QED
    BY <1>9, <2>1, <2>3, <2>4, RequestMove DEF SlotGranted
<1>10. CASE ReserveFails(q) \/ Settled(q)
  <2>1. req' = [req EXCEPT ![q] = Done] \/ req' = [req EXCEPT ![q] = Unknown(x)]
    BY <1>10 DEF ReserveFails, Settled
  <2>2. UNCHANGED <<cfg, phase>>
    BY <1>10 DEF ReserveFails, Settled
  <2> QED
    BY <1>1, <2>1, <2>2, OverInTime, RequestMove
<1>11. CASE SettleFails(q)
  <2>1. Left(x, "unsettled") \in Request /\ InTime(Left(x, "unsettled"))
    BY <1>1, OverInTime
  <2> QED
    BY <1>11, <2>1, RequestMove DEF SettleFails
<1> QED
  BY <1>3, <1>4, <1>5, <1>6, <1>7, <1>8, <1>9, <1>10, <1>11 DEF Serve, WaitEnds

(* A request arrives at a replica that accepts, so that there is a valid    *)
(* configuration.                                                           *)
LEMMA ArriveInTime ==
  ASSUME ReservationInv, NEW q \in Requests, NEW r \in Replicas, NEW d \in KeyDrains,
         Arrive(q, r, d)
  PROVE  ReservationInv'
<1> DEFINE y == [Idle EXCEPT !.at = "reserve", !.host = r,
                             !.drain = duration(d, cfg.drain)]
<1>1. cfg # Refused /\ ConfigSound
  BY DEF Arrive, Accepting, ReservationInv
<1>2. y \in Request
  BY <1>1, KeyDrainsAssumption DEF Idle, Request, Active, duration, ConfigSound
<1>3. /\ y.at = "reserve" /\ ~y.gone /\ y.age = 0 /\ y.extra = 0 /\ y.up = 0
      /\ y.res = "none"
  BY DEF Idle
<1>4. InTime(y)
  BY <1>1, <1>3 DEF InTime, ConfigSound, Drained
<1> QED
  BY <1>2, <1>4, RequestMove DEF Arrive, process

(* The reaper expires what is older than the TTL, and nothing younger.      *)
LEMMA ReapInTime ==
  ASSUME ReservationInv, NEW q \in Requests, NEW r \in Replicas, Reap(q, r)
  PROVE  ReservationInv'
<1> DEFINE x == req[q]
           y == [x EXCEPT !.res = "expired"]
<1>1. x \in Request /\ InTime(x)
  BY DEF ReservationInv
<1>2. CASE Running(q)
  <2>1. y \in Request
    BY <1>1 DEF Request
  <2>2. /\ y.at = x.at /\ y.age = x.age /\ y.left = x.left /\ y.drain = x.drain
        /\ y.up = x.up /\ y.extra = x.extra
        /\ (y.gone <=> x.gone) /\ Drained(y) = Drained(x)
    BY <1>1 DEF Request, Drained
  <2> HIDE DEF y
  <2>3. InTime(y)
    BY <1>1, <2>2 DEF InTime, Reap
  <2> QED
    BY <1>2, <2>1, <2>3, RequestMove DEF Reap, process, y
<1>3. CASE ~Running(q)
  BY <1>3, OverInTime, RequestMove DEF Reap, process
<1> QED
  BY <1>2, <1>3

(* What a tick makes of a request. *)
LEMMA LaterFields ==
  ASSUME NEW x \in Request
  PROVE  /\ Later(x) \in Request
         /\ Later(x).at = x.at /\ Later(x).host = x.host /\ Later(x).drain = x.drain
         /\ Later(x).res = x.res /\ (Later(x).gone <=> x.gone)
         /\ Later(x).age = IF Old(x.age) THEN x.age ELSE x.age + 1
         /\ Later(x).left = Before(x.left) /\ Later(x).up = Before(x.up)
         /\ Later(x).extra = IF Extra(x) THEN x.extra + 1 ELSE x.extra
<1> DEFINE a == IF Old(x.age) THEN x.age ELSE x.age + 1
           l == Before(x.left)
           u == Before(x.up)
           e == IF Extra(x) THEN x.extra + 1 ELSE x.extra
<1>1. a \in Nat /\ l \in Nat /\ u \in Nat /\ e \in Nat
  BY DEF Request, Before
<1>2. Later(x) = [x EXCEPT !.age = a, !.left = l, !.up = u, !.extra = e]
  BY DEF Later, Request
<1> HIDE DEF a, l, u, e
<1>3. /\ Later(x) \in Request
      /\ Later(x).at = x.at /\ Later(x).host = x.host /\ Later(x).drain = x.drain
      /\ Later(x).res = x.res /\ (Later(x).gone <=> x.gone)
      /\ Later(x).age = a /\ Later(x).left = l /\ Later(x).up = u /\ Later(x).extra = e
  BY <1>1, <1>2 DEF Request
<1> QED
  BY <1>3 DEF a, l, u, e

(* Time: no wait is passed over, and a tick in a reserve, in a settle or in *)
(* a write after the upstream deadline is one that extra counts.            *)
LEMMA TickInTime == ASSUME ReservationInv, Tick PROVE ReservationInv'
<1>1. ASSUME NEW q \in Requests PROVE req'[q] \in Request /\ InTime(req'[q])
  <2> DEFINE x == req[q]
             y == Later(x)
  <2>1. x \in Request /\ InTime(x) /\ ConfigSound
    BY DEF ReservationInv
  <2>2. req'[q] = x \/ req'[q] = y
    BY DEF Tick
  <2>3. y \in Request
    BY <2>1, LaterFields
  <2>4. CASE ~Running(q)
    <3>1. InTime(x) /\ InTime(y)
      BY <2>1, <2>4, LaterFields DEF InTime, Running
    <3> QED
      BY <2>1, <2>2, <2>3, <3>1
  <2>5. CASE Running(q)
    <3>1. /\ y.at = x.at /\ y.drain = x.drain /\ y.res = x.res /\ (y.gone <=> x.gone)
          /\ y.age = IF Old(x.age) THEN x.age ELSE x.age + 1
          /\ y.left = Before(x.left) /\ y.up = Before(x.up)
          /\ y.extra = IF Extra(x) THEN x.extra + 1 ELSE x.extra
      BY <2>1, LaterFields
    <3>2. /\ x.age \in Nat /\ x.left \in Nat /\ x.drain \in Nat /\ x.up \in Nat
          /\ x.extra \in Nat /\ x.at \in Active /\ cfg # Refused
      BY <2>1, <2>5 DEF Request, Running, InTime
    <3>3. /\ x.at = "read" => x.up > 0
          /\ x.at \in {"write", "slot", "settle"} => x.left > 0
          /\ Extra(x) <=> x.at \in {"reserve", "settle"} \/ (x.at = "write" /\ x.up = 0)
      BY DEF Tick, Extra
    <3>4. req'[q] = y
      BY <2>5 DEF Tick
    <3> HIDE DEF y
    <3>5. /\ Drained(y) = Drained(x) /\ Drained(x) \in Nat
          /\ x.gone => Drained(x) = x.drain
          /\ y.age <= x.age + 1 /\ y.age >= x.age /\ y.age \in Nat /\ y.extra \in Nat
          /\ y.extra >= x.extra /\ y.up \in Nat /\ y.left \in Nat
          /\ x.up > 0 => y.up = x.up - 1
          /\ x.up = 0 => y.up = 0
          /\ x.left > 0 => y.left = x.left - 1
      BY <3>1, <3>2 DEF Drained, Before
    <3>6. /\ y.at = "reserve" => y.age <= y.extra /\ ~y.gone
          /\ y.at = "write" => ~y.gone
          /\ y.at = "slot" => /\ y.gone
                              /\ y.age + y.left <= cfg.provider + y.extra + y.drain
          /\ y.at # "settle" /\ y.up > 0 => y.age + y.up <= cfg.provider + y.extra
          /\ y.res = "expired" => y.age > cfg.ttl
      BY <2>1, <3>1, <3>2, <3>3, <3>5 DEF InTime, ConfigSound
    <3>7. y.age <= cfg.provider + y.extra + Drained(y)
      <4>0. /\ cfg.provider \in Nat /\ x.age <= cfg.provider + x.extra + Drained(x)
            /\ x.up > 0 /\ x.at # "settle" => x.age + x.up <= cfg.provider + x.extra
        BY <2>1, <3>2 DEF InTime, ConfigSound
      <4>1. CASE Extra(x)
        BY <3>1, <3>2, <3>5, <4>0, <4>1
      <4>2. CASE x.at \in {"read", "write"} /\ ~Extra(x)
        BY <3>1, <3>2, <3>3, <3>5, <4>0, <4>2
      <4>3. CASE x.at = "slot"
        BY <3>1, <3>2, <3>3, <3>5, <3>6, <4>0, <4>3
      <4> QED
        BY <3>2, <3>3, <4>1, <4>2, <4>3 DEF Active
    <3>8. InTime(y)
      BY <3>2, <3>6, <3>7 DEF InTime
    <3> QED
      BY <2>3, <3>4, <3>8
  <2> QED
    BY <2>4, <2>5
<1>2. \A q \in Requests : InTime(req[q])'
  BY <1>1 DEF InTime, Drained, Tick
<1>3. req' \in [Requests -> Request]
  BY <1>1 DEF Tick
<1> QED
  BY <1>2, <1>3 DEF ReservationInv, ConfigSound, Tick

(* One step per action: boot and shutdown move the process, the others a    *)
(* request.                                                                 *)
LEMMA ReservationStep == ReservationInv /\ [Next]_vars => ReservationInv'
<1> SUFFICES ASSUME ReservationInv, [Next]_vars PROVE ReservationInv'
  OBVIOUS
<1> USE DEF process, database, balancer
<1>1. ASSUME UNCHANGED <<cfg, phase, req>> PROVE ReservationInv'
  BY <1>1 DEF ReservationInv, ConfigSound, InTime, Drained
<1>2. \A r \in Replicas : phase[r] # "exited" => cfg # Refused
  BY DEF ReservationInv
<1>3. ASSUME NEW r \in Replicas,
             Start(r) \/ TakeLock(r) \/ ReadVersion(r) \/ Unlock(r) \/ Listen(r)
      PROVE  ReservationInv'
  BY <1>2, <1>3, ProcessMove DEF Start, TakeLock, ReadVersion, Unlock, Listen
<1>4. ASSUME NEW r \in Replicas, BeginDraining(r) \/ Shutdown(r) \/ StopBackground(r)
      PROVE  ReservationInv'
  BY <1>2, <1>4, ProcessMove DEF BeginDraining, Shutdown, StopBackground
<1>5. ASSUME NEW r \in Replicas,
             BootFails(r) \/ UpFails(r) \/ Abort(r) \/ Exit(r) \/ Crash(r) \/ ListenerFails(r)
      PROVE  ReservationInv'
  BY <1>5, VanishInTime DEF BootFails, UpFails, Abort, Exit, Crash, ListenerFails
<1>6. ASSUME NEW r \in Replicas,
             Up(r) \/ Signal(r) \/ \E ping \in BOOLEAN : Probe(r, ping)
      PROVE  ReservationInv'
  BY <1>1, <1>6 DEF Up, Signal, Probe
<1>7. ASSUME NEW commits \in BOOLEAN, OrphanEnds(commits) PROVE ReservationInv'
  BY <1>1, <1>7 DEF OrphanEnds
<1>8. CASE UNCHANGED vars
  BY <1>1, <1>8 DEF vars
<1> QED
  BY <1>3, <1>4, <1>5, <1>6, <1>7, <1>8, ArriveInTime, ReapInTime, ServeInTime, TickInTime
     DEF Next, Boot, Stop

(* ReservationOutlivesRequest, for all timeouts that LoadFrom accepts and   *)
(* all bounds on the waits it does not look at: the reaper expires the      *)
(* reservation of a running request only where the key's drain timeout, or  *)
(* the time spent on reserve, late writes and settle, goes beyond what the  *)
(* TTL was checked for.                                                     *)
THEOREM TTLCoversRequest == Spec => []ReservationOutlivesRequest
<1>1. ReservationInv => ReservationOutlivesRequest
  <2> SUFFICES ASSUME ReservationInv, NEW q \in Requests,
                      Running(q), req[q].res = "expired", ~(req[q].drain > cfg.drain)
               PROVE  /\ req[q].extra > 0
                      /\ cfg.ttl < cfg.provider + cfg.drain + req[q].extra
    BY DEF ReservationOutlivesRequest
  <2> DEFINE x == req[q]
  <2>1. x \in Request /\ InTime(x) /\ ConfigSound /\ cfg # Refused
    BY DEF ReservationInv, InTime, Running
  <2>2. /\ x.age \in Nat /\ x.extra \in Nat /\ x.drain \in Nat /\ x.age > cfg.ttl
        /\ cfg.ttl \in Nat /\ cfg.provider \in Nat /\ cfg.drain \in Nat
        /\ cfg.ttl >= cfg.provider + cfg.drain
    BY <2>1 DEF Request, InTime, Running, ConfigSound
  <2>3. Drained(x) \in Nat /\ Drained(x) <= x.drain
    BY <2>2 DEF Drained
  <2>4. x.age <= cfg.provider + x.extra + Drained(x)
    BY <2>1 DEF InTime, Running
  <2>5. x.drain <= cfg.drain
    BY <2>2
  <2> HIDE DEF x
  <2>6. x.extra > 0 /\ cfg.ttl < cfg.provider + cfg.drain + x.extra
    BY <2>2, <2>3, <2>4, <2>5
  <2> QED
    BY <2>6 DEF x
<1> QED
  BY ReservationInit, ReservationStep, <1>1, PTL DEF Spec

-------------------------------------------------------------------------------
(* The shutdown. *)

LEMMA ShutdownInit == Init => ShutdownInv
<1> SUFFICES ASSUME Init PROVE ShutdownInv
  OBVIOUS
<1>1. timer \in [Replicas -> Nat] /\ probed \in [Replicas -> 0 .. ProbeInterval]
  BY TimesAssumption DEF Init
<1>2. routed \subseteq Replicas /\ NothingRefused /\ \A r \in Replicas : StillRouted(r)
  BY DEF Init, NothingRefused, StillRouted
<1>3. \A q \in Requests : Hosted(q)
  BY DEF Init, Hosted, Running, Idle, Active
<1> QED
  BY <1>1, <1>2, <1>3 DEF ShutdownInv

(* A request stays with its host, at its age, until it is over. *)
LEMMA RequestAtHost ==
  ASSUME ReservationInv, ShutdownInv, NEW q \in Requests, NEW y,
         \/ /\ Running(q) /\ y.at \in Active
            /\ y.host = req[q].host /\ y.age = req[q].age
         \/ y.at \notin Active /\ y.host = Nobody,
         req' = [req EXCEPT ![q] = y], UNCHANGED <<cfg, process, balancer>>
  PROVE  ShutdownInv'
<1> USE DEF process, balancer
<1>1. req'[q] = y /\ \A p \in Requests : p # q => req'[p] = req[p]
  BY DEF ReservationInv
<1>2. ASSUME NEW p \in Requests PROVE Hosted(p)'
  <2>1. Hosted(p) /\ Hosted(q)
    BY DEF ShutdownInv
  <2>2. CASE p = q
    BY <1>1, <2>1, <2>2 DEF Hosted, Running
  <2>3. CASE p # q
    BY <1>1, <2>1, <2>3 DEF Hosted, Running
  <2> QED
    BY <2>2, <2>3
<1>3. routed' \subseteq Replicas /\ NothingRefused' /\ \A r \in Replicas : StillRouted(r)'
  BY DEF ShutdownInv, NothingRefused, Accepting, StillRouted
<1> QED
  BY <1>2, <1>3 DEF ShutdownInv

LEMMA ServeAtHost ==
  ASSUME ReservationInv, ShutdownInv, NEW q \in Requests, Serve(q)
  PROVE  ShutdownInv'
<1> DEFINE x == req[q]
<1>1. x \in Request
  BY DEF ReservationInv
<1>2. CASE Reserved(q)
  <2> DEFINE y == [x EXCEPT !.at = "read", !.res = "pending", !.up = cfg.provider]
  <2>1. y.at \in Active /\ y.host = x.host /\ y.age = x.age
    BY <1>1 DEF Request, Active
  <2>2. req' = [req EXCEPT ![q] = y] /\ Running(q) /\ UNCHANGED <<cfg, process, balancer>>
    BY <1>2 DEF Reserved, Running, Active, ReservationInv
  <2> HIDE DEF y
  <2> QED
    BY <2>1, <2>2, RequestAtHost
<1>3. CASE WriteSucceeds(q)
  <2> DEFINE y == [x EXCEPT !.at = "read", !.left = 0]
  <2>1. y.at \in Active /\ y.host = x.host /\ y.age = x.age
    BY <1>1 DEF Request, Active
  <2>2. req' = [req EXCEPT ![q] = y] /\ Running(q) /\ UNCHANGED <<cfg, process, balancer>>
    BY <1>3 DEF WriteSucceeds, Running, Active, ReservationInv
  <2> HIDE DEF y
  <2> QED
    BY <2>1, <2>2, RequestAtHost
<1>4. CASE WriteFails(q)
  <2> DEFINE y == [x EXCEPT !.at = "read", !.left = 0, !.gone = TRUE]
  <2>1. y.at \in Active /\ y.host = x.host /\ y.age = x.age
    BY <1>1 DEF Request, Active
  <2>2. req' = [req EXCEPT ![q] = y] /\ Running(q) /\ UNCHANGED <<cfg, process, balancer>>
    BY <1>4 DEF WriteFails, Running, Active, ReservationInv
  <2> HIDE DEF y
  <2> QED
    BY <2>1, <2>2, RequestAtHost
<1>5. CASE Finish(q)
  <2> DEFINE y == [x EXCEPT !.at = "settle", !.left = SettleTimeout]
  <2>1. y.at \in Active /\ y.host = x.host /\ y.age = x.age
    BY <1>1 DEF Request, Active
  <2>2. req' = [req EXCEPT ![q] = y] /\ Running(q) /\ UNCHANGED <<cfg, process, balancer>>
    BY <1>5 DEF Finish, Running, Active, ReservationInv
  <2> HIDE DEF y
  <2> QED
    BY <2>1, <2>2, RequestAtHost
<1>6. CASE WriteBlocks(q)
  <2> DEFINE y == [x EXCEPT !.at = "write", !.left = cfg.write,
                            !.late = IF x.up > 0 THEN @ ELSE @ + 1]
  <2>1. y.at \in Active /\ y.host = x.host /\ y.age = x.age
    BY <1>1 DEF Request, Active
  <2>2. req' = [req EXCEPT ![q] = y] /\ Running(q) /\ UNCHANGED <<cfg, process, balancer>>
    BY <1>6 DEF WriteBlocks, Running, Active, ReservationInv
  <2> HIDE DEF y
  <2> QED
    BY <2>1, <2>2, RequestAtHost
<1>7. CASE ClientGone(q)
  <2> DEFINE y == [x EXCEPT !.at = "slot", !.gone = TRUE, !.left = x.drain]
  <2>1. y.at \in Active /\ y.host = x.host /\ y.age = x.age
    BY <1>1 DEF Request, Active
  <2>2. req' = [req EXCEPT ![q] = y] /\ Running(q) /\ UNCHANGED <<cfg, process, balancer>>
    BY <1>7 DEF ClientGone, Running, Active, ReservationInv
  <2> HIDE DEF y
  <2> QED
    BY <2>1, <2>2, RequestAtHost
<1>8. CASE SlotGranted(q)
  <2> DEFINE y == [x EXCEPT !.at = "read", !.left = 0]
  <2>1. y.at \in Active /\ y.host = x.host /\ y.age = x.age
    BY <1>1 DEF Request, Active
  <2>2. req' = [req EXCEPT ![q] = y] /\ Running(q) /\ UNCHANGED <<cfg, process, balancer>>
    BY <1>8 DEF SlotGranted, Running, Active, ReservationInv
  <2> HIDE DEF y
  <2> QED
    BY <2>1, <2>2, RequestAtHost
<1>9. CASE ReserveFails(q) \/ Settled(q)
  <2>1. /\ Done.at \notin Active /\ Done.host = Nobody
        /\ Unknown(x).at \notin Active /\ Unknown(x).host = Nobody
    BY <1>1, OverInTime DEF Active
  <2>2. req' = [req EXCEPT ![q] = Done] \/ req' = [req EXCEPT ![q] = Unknown(x)]
    BY <1>9 DEF ReserveFails, Settled
  <2>3. UNCHANGED <<cfg, process, balancer>>
    BY <1>9 DEF ReserveFails, Settled
  <2> QED
    BY <2>1, <2>2, <2>3, RequestAtHost
<1>10. CASE SettleFails(q)
  <2>1. Left(x, "unsettled").at \notin Active /\ Left(x, "unsettled").host = Nobody
    BY <1>1, OverInTime DEF Active
  <2> QED
    BY <1>10, <2>1, RequestAtHost DEF SettleFails
<1> QED
  BY <1>2, <1>3, <1>4, <1>5, <1>6, <1>7, <1>8, <1>9, <1>10 DEF Serve, WaitEnds

(* A request only arrives at a replica that accepts it. *)
LEMMA ArriveAtHost ==
  ASSUME ReservationInv, ShutdownInv, NEW q \in Requests, NEW r \in Replicas,
         NEW d \in KeyDrains, Arrive(q, r, d)
  PROVE  ShutdownInv'
<1> USE DEF process, balancer
<1> DEFINE y == [Idle EXCEPT !.at = "reserve", !.host = r,
                             !.drain = duration(d, cfg.drain)]
<1>1. y.at = "reserve" /\ y.host = r
  BY DEF Idle
<1>2. req'[q] = y /\ \A p \in Requests : p # q => req'[p] = req[p]
  BY DEF ReservationInv, Arrive
<1> HIDE DEF y
<1>3. ASSUME NEW p \in Requests PROVE Hosted(p)'
  <2>1. Hosted(p)
    BY DEF ShutdownInv
  <2>2. CASE p = q
    BY <1>1, <1>2, <2>2 DEF Hosted, Running, Active, Arrive, Accepting
  <2>3. CASE p # q
    BY <1>2, <2>1, <2>3 DEF Hosted, Running, Arrive
  <2> QED
    BY <2>2, <2>3
<1>4. routed' \subseteq Replicas /\ NothingRefused' /\ \A s \in Replicas : StillRouted(s)'
  BY DEF ShutdownInv, NothingRefused, Accepting, StillRouted, Arrive
<1> QED
  BY <1>3, <1>4 DEF ShutdownInv, Arrive

LEMMA ReapAtHost ==
  ASSUME ReservationInv, ShutdownInv, NEW q \in Requests, NEW r \in Replicas, Reap(q, r)
  PROVE  ShutdownInv'
<1> DEFINE x == req[q]
           y == [x EXCEPT !.res = "expired"]
<1>1. x \in Request
  BY DEF ReservationInv
<1>2. CASE Running(q)
  <2>1. y.at = x.at /\ y.host = x.host /\ y.age = x.age
    BY <1>1 DEF Request
  <2>2. req' = [req EXCEPT ![q] = y] /\ UNCHANGED <<cfg, process, balancer>>
    BY <1>2 DEF Reap
  <2> HIDE DEF y
  <2> QED
    BY <1>2, <2>1, <2>2, RequestAtHost DEF Running
<1>3. CASE ~Running(q)
  <2>1. Done.at \notin Active /\ Done.host = Nobody
    BY OverInTime DEF Active
  <2> QED
    BY <1>3, <2>1, RequestAtHost DEF Reap
<1> QED
  BY <1>2, <1>3

(* Before its listener opens a replica hosts nothing, and the load balancer *)
(* sends it nothing that it has not sent since a crash.                     *)
LEMMA BootMove ==
  ASSUME ReservationInv, ShutdownInv, NEW r \in Replicas,
         NEW to \in {"locking", "locked", "migrating", "loading", "serving"},
         phase[r] \in {"exited", "locking", "locked", "migrating", "loading"},
         Goto(r, to), UNCHANGED <<cfg, timer, balancer, req>>
  PROVE  ShutdownInv'
<1> USE DEF balancer
<1>1. phase'[r] = to /\ \A s \in Replicas : s # r => phase'[s] = phase[s]
  BY DEF ReservationInv, Goto
<1>2. ASSUME NEW q \in Requests PROVE Hosted(q)'
  <2>1. Hosted(q)
    BY DEF ShutdownInv
  <2> QED
    BY <1>1, <2>1 DEF Hosted, Running
<1>3. routed' \subseteq Replicas /\ NothingRefused' /\ \A s \in Replicas : StillRouted(s)'
  BY <1>1 DEF ShutdownInv, NothingRefused, Accepting, StillRouted
<1> QED
  BY <1>2, <1>3 DEF ShutdownInv

(* Readiness fails: the sleep begins, and no probe has seen it yet. *)
LEMMA DrainingBegins ==
  ASSUME ReservationInv, ShutdownInv, NEW r \in Replicas, BeginDraining(r)
  PROVE  ShutdownInv'
<1> USE DEF balancer
<1>1. /\ phase'[r] = "draining" /\ timer'[r] = cfg.delay /\ cfg.delay \in Nat
      /\ \A s \in Replicas : s # r => phase'[s] = phase[s] /\ timer'[s] = timer[s]
      /\ timer' \in [Replicas -> Nat]
  BY DEF ReservationInv, ConfigSound, BeginDraining, Goto, ShutdownInv
<1>2. ASSUME NEW q \in Requests PROVE Hosted(q)'
  <2>1. Hosted(q)
    BY DEF ShutdownInv
  <2> QED
    BY <1>1, <2>1 DEF Hosted, Running, BeginDraining
<1>3. probed[r] \in Nat
  BY TimesAssumption DEF ShutdownInv
<1>4. routed' \subseteq Replicas /\ NothingRefused' /\ \A s \in Replicas : StillRouted(s)'
  BY <1>1, <1>3 DEF ShutdownInv, NothingRefused, Accepting, StillRouted, BeginDraining
<1> QED
  BY <1>1, <1>2, <1>4 DEF ShutdownInv, BeginDraining

(* The sleep is over, and is longer than a probe can be away: the listener  *)
(* closes on nobody.                                                        *)
LEMMA ListenerCloses ==
  ASSUME ReservationInv, ShutdownInv, NEW r \in Replicas, Shutdown(r)
  PROVE  ShutdownInv'
<1> USE DEF balancer
<1>1. /\ phase'[r] = "stopping" /\ timer'[r] = cfg.shutdown /\ cfg.shutdown \in Nat
      /\ cfg.delay \in Nat /\ cfg.delay > ProbeInterval
      /\ \A s \in Replicas : s # r => phase'[s] = phase[s] /\ timer'[s] = timer[s]
      /\ timer' \in [Replicas -> Nat]
  BY DEF ReservationInv, ConfigSound, Shutdown, Goto, ShutdownInv
<1>2. ASSUME NEW q \in Requests PROVE Hosted(q)'
  <2>1. Hosted(q) /\ req[q].age \in Nat
    BY DEF ShutdownInv, ReservationInv, Request
  <2> QED
    BY <1>1, <2>1 DEF Hosted, Running, Shutdown
<1>3. r \notin routed
  BY <1>1, TimesAssumption DEF ShutdownInv, StillRouted, Shutdown
<1>4. routed' \subseteq Replicas /\ NothingRefused' /\ \A s \in Replicas : StillRouted(s)'
  BY <1>1, <1>3 DEF ShutdownInv, NothingRefused, Accepting, StillRouted, Shutdown
<1> QED
  BY <1>1, <1>2, <1>4 DEF ShutdownInv, Shutdown

(* What is still in flight when the background stops has had its time. *)
LEMMA BackgroundStops ==
  ASSUME ReservationInv, ShutdownInv, NEW r \in Replicas, StopBackground(r)
  PROVE  ShutdownInv'
<1> USE DEF balancer
<1>1. phase'[r] = "flushing" /\ \A s \in Replicas : s # r => phase'[s] = phase[s]
  BY DEF ReservationInv, StopBackground, Goto
<1>2. ASSUME NEW q \in Requests PROVE Hosted(q)'
  <2>1. Hosted(q) /\ req[q].age \in Nat
    BY DEF ShutdownInv, ReservationInv, Request
  <2> QED
    BY <1>1, <2>1 DEF Hosted, Running, StopBackground, InFlight
<1>3. routed' \subseteq Replicas /\ NothingRefused' /\ \A s \in Replicas : StillRouted(s)'
  BY <1>1 DEF ShutdownInv, NothingRefused, Accepting, StillRouted, StopBackground
<1> QED
  BY <1>2, <1>3 DEF ShutdownInv, StopBackground

(* A process that goes away hosts nothing any more.  Only one that died     *)
(* had a listener open.                                                     *)
LEMMA VanishAtHost ==
  ASSUME ReservationInv, ShutdownInv, NEW r \in Replicas, NEW why \in {"cut", "lost"},
         Vanish(r, why), UNCHANGED <<cfg, routed, probed>>,
         \/ ~Accepting(r) /\ crashed' = crashed
         \/ crashed' = crashed \cup {r}
  PROVE  ShutdownInv'
<1>1. /\ phase'[r] = "exited" /\ timer'[r] = 0
      /\ \A s \in Replicas : s # r => phase'[s] = phase[s] /\ timer'[s] = timer[s]
      /\ timer' \in [Replicas -> Nat]
  BY DEF ReservationInv, Vanish, Goto, ShutdownInv
<1>2. ASSUME NEW q \in Requests PROVE Hosted(q)'
  <2>1. Hosted(q) /\ req[q] \in Request
    BY DEF ShutdownInv, ReservationInv
  <2>2. CASE q \in InFlight(r)
    <3>1. req'[q] = Left(req[q], why)
      BY <2>2 DEF Vanish
    <3>2. req'[q].at \in {"cut", "lost"} /\ req'[q].host = Nobody
      BY <2>1, <3>1, OverInTime
    <3> QED
      BY <3>2 DEF Hosted, Running, Active
  <2>3. CASE q \notin InFlight(r)
    <3>1. req'[q] = req[q]
      BY <2>3 DEF Vanish
    <3>2. Running(q) => req[q].host # r
      BY <2>3 DEF InFlight
    <3> QED
      BY <1>1, <2>1, <3>1, <3>2 DEF Hosted, Running
  <2> QED
    BY <2>2, <2>3
<1>3. routed' \subseteq Replicas /\ NothingRefused' /\ \A s \in Replicas : StillRouted(s)'
  BY <1>1 DEF ShutdownInv, NothingRefused, Accepting, StillRouted
<1> QED
  BY <1>1, <1>2, <1>3 DEF ShutdownInv

(* A probe routes to a replica that is ready, and to no other. *)
LEMMA ProbeRoutes ==
  ASSUME ReservationInv, ShutdownInv, NEW r \in Replicas, NEW ping \in BOOLEAN,
         Probe(r, ping)
  PROVE  ShutdownInv'
<1> USE DEF process
<1>1. /\ probed' \in [Replicas -> 0 .. ProbeInterval]
      /\ \A s \in Replicas : s # r => probed'[s] = probed[s]
  BY TimesAssumption DEF ShutdownInv, Probe
<1>2. ASSUME NEW q \in Requests PROVE Hosted(q)'
  BY DEF ShutdownInv, Hosted, Running, Probe
<1>3. routed' \subseteq Replicas /\ NothingRefused' /\ \A s \in Replicas : StillRouted(s)'
  BY <1>1 DEF ShutdownInv, NothingRefused, Accepting, StillRouted, Probe, Ready
<1> QED
  BY <1>1, <1>2, <1>3 DEF ShutdownInv, Probe

(* Time passes for the sleep, the timeout, the load balancer and the        *)
(* requests alike.                                                          *)
LEMMA TickShutdown == ASSUME ReservationInv, ShutdownInv, Tick PROVE ShutdownInv'
<1>1. timer \in [Replicas -> Nat] /\ probed \in [Replicas -> 0 .. ProbeInterval]
  BY DEF ShutdownInv
<1>2. ASSUME NEW r \in Replicas
      PROVE  timer[r] \in Nat /\ probed[r] \in Nat
  <2>1. timer[r] \in Nat /\ probed[r] \in 0 .. ProbeInterval
    BY <1>1
  <2> QED
    BY <2>1, TimesAssumption
<1>3. \A r \in Replicas :
         /\ probed[r] < ProbeInterval /\ probed'[r] = probed[r] + 1
         /\ timer'[r] = IF timer[r] > 0 THEN timer[r] - 1 ELSE 0
         /\ phase[r] \in {"draining", "stopping"} => timer[r] > 0
         /\ phase[r] # "flushing"
  BY DEF Tick, Before
<1>4. /\ timer' = [r \in Replicas |-> IF timer[r] > 0 THEN timer[r] - 1 ELSE 0]
      /\ probed' = [r \in Replicas |-> probed[r] + 1]
      /\ UNCHANGED <<cfg, phase, routed, crashed>>
  BY DEF Tick, Before
<1>5. timer' \in [Replicas -> Nat]
  <2>1. ASSUME NEW r \in Replicas
        PROVE  (IF timer[r] > 0 THEN timer[r] - 1 ELSE 0) \in Nat
    BY <1>2
  <2> QED
    BY <1>4, <2>1
<1>6. probed' \in [Replicas -> 0 .. ProbeInterval]
  <2>1. ASSUME NEW r \in Replicas PROVE probed[r] + 1 \in 0 .. ProbeInterval
    BY <1>3, <1>2, TimesAssumption
  <2> QED
    BY <1>4, <2>1
<1>7. ASSUME NEW q \in Requests PROVE Hosted(q)'
  <2> DEFINE x == req[q]
  <2>1. Hosted(q) /\ x \in Request
    BY DEF ShutdownInv, ReservationInv
  <2>2. req'[q] = x \/ req'[q] = Later(x)
    BY DEF Tick
  <2>3. req'[q].at = x.at /\ req'[q].host = x.host
    BY <2>1, <2>2, LaterFields
  <2>4. CASE ~Running(q)
    BY <2>1, <2>3, <2>4 DEF Hosted, Running
  <2>5. CASE Running(q)
    <3>1. req'[q] = Later(x)
      BY <2>5 DEF Tick
    <3>2. req'[q].age = (IF Old(x.age) THEN x.age ELSE x.age + 1) /\ x.age \in Nat
      BY <2>1, <3>1, LaterFields DEF Request
    <3>3. cfg.shutdown \in Nat
      BY <2>5 DEF ReservationInv, InTime, Running, ConfigSound
    <3> QED
      BY <1>3, <1>2, <1>4, <2>1, <2>3, <2>5, <3>2, <3>3 DEF Hosted, Running, Old
  <2> QED
    BY <2>4, <2>5
<1>8. routed' \subseteq Replicas /\ NothingRefused'
  BY DEF ShutdownInv, NothingRefused, Accepting, Tick
<1>9. ASSUME NEW r \in Replicas PROVE StillRouted(r)'
  <2>1. StillRouted(r)
    BY DEF ShutdownInv
  <2>2. CASE phase[r] = "draining"
    <3>1. cfg.delay \in Nat
      BY <2>2 DEF ReservationInv, ConfigSound
    <3> QED
      BY <1>3, <1>2, <1>4, <2>1, <2>2, <3>1 DEF StillRouted
  <2>3. CASE phase[r] # "draining"
    BY <2>3 DEF StillRouted, Tick
  <2> QED
    BY <2>2, <2>3
<1> QED
  BY <1>6, <1>7, <1>8, <1>9, <1>5 DEF ShutdownInv

LEMMA ReplicaShutdownStep ==
  ReservationInv /\ ShutdownInv /\ [Next]_vars => ShutdownInv'
<1> SUFFICES ASSUME ReservationInv, ShutdownInv, [Next]_vars PROVE ShutdownInv'
  OBVIOUS
<1>1. ASSUME UNCHANGED <<cfg, phase, timer, balancer, req>> PROVE ShutdownInv'
  BY <1>1 DEF balancer, ShutdownInv, NothingRefused, Accepting, StillRouted, Hosted, Running
<1>2. ASSUME NEW r \in Replicas,
             Start(r) \/ TakeLock(r) \/ ReadVersion(r) \/ Unlock(r) \/ Listen(r)
      PROVE  ShutdownInv'
  BY <1>2, BootMove DEF Start, TakeLock, ReadVersion, Unlock, Listen
<1>3. ASSUME NEW r \in Replicas, BootFails(r) \/ UpFails(r) \/ Abort(r) \/ Exit(r)
      PROVE  ShutdownInv'
  BY <1>3, VanishAtHost DEF BootFails, UpFails, Abort, Exit, Accepting, balancer
<1>4. ASSUME NEW r \in Replicas, Crash(r) \/ ListenerFails(r) PROVE ShutdownInv'
  BY <1>4, VanishAtHost DEF Crash, ListenerFails
<1>5. ASSUME NEW r \in Replicas, Up(r) \/ Signal(r) PROVE ShutdownInv'
  BY <1>1, <1>5 DEF Up, Signal, process
<1>6. CASE UNCHANGED vars
  BY <1>1, <1>6 DEF vars, process
<1>7. ASSUME NEW commits \in BOOLEAN, OrphanEnds(commits) PROVE ShutdownInv'
  BY <1>1, <1>7 DEF OrphanEnds, process
<1> QED
  BY <1>2, <1>3, <1>4, <1>5, <1>6, <1>7, DrainingBegins, ListenerCloses, BackgroundStops,
     ProbeRoutes, ArriveAtHost, ReapAtHost, ServeAtHost, TickShutdown
     DEF Next, Boot, Stop

(* Only Exit cuts off a running request, and by then it has had its time.   *)
LEMMA CutOffStep ==
  ReservationInv /\ ShutdownInv /\ [Next]_vars => CutOffOnlyWhenSlow
<1> SUFFICES ASSUME ReservationInv, ShutdownInv, [Next]_vars, NEW q \in Requests,
                    Running(q), req'[q].at = "cut"
             PROVE  req[q].age >= cfg.shutdown
  BY DEF CutOffOnlyWhenSlow
<1> DEFINE x == req[q]
<1> USE DEF process, database, balancer
<1>1. x \in Request /\ x.at \in Active /\ x.at # "cut" /\ Hosted(q)
  BY DEF Running, ReservationInv, ShutdownInv, Active
<1>2. req'[q] # x
  BY <1>1
<1>3. ASSUME NEW r \in Replicas, Vanish(r, "cut") PROVE x.host = r
  BY <1>2, <1>3 DEF Vanish, InFlight
<1>4. ASSUME NEW r \in Replicas, BootFails(r) \/ UpFails(r) \/ Abort(r) \/ Exit(r)
      PROVE  x.age >= cfg.shutdown
  BY <1>1, <1>3, <1>4 DEF BootFails, UpFails, Abort, Exit, Hosted
<1>5. ASSUME NEW r \in Replicas, Crash(r) \/ ListenerFails(r) PROVE FALSE
  <2>1. req'[q] = x \/ req'[q] = Left(x, "lost")
    BY <1>5 DEF Crash, ListenerFails, Vanish
  <2>2. Left(x, "lost").at = "lost"
    BY <1>1, OverInTime
  <2> QED
    BY <1>2, <2>1, <2>2
<1>6. ASSUME NEW r \in Replicas,
             \/ Start(r) \/ TakeLock(r) \/ ReadVersion(r) \/ Up(r) \/ Unlock(r)
             \/ Listen(r) \/ BeginDraining(r) \/ Shutdown(r) \/ StopBackground(r)
             \/ Signal(r) \/ \E ping \in BOOLEAN : Probe(r, ping)
      PROVE  FALSE
  BY <1>2, <1>6 DEF Start, TakeLock, ReadVersion, Up, Unlock, Listen, BeginDraining,
                    Shutdown, StopBackground, Signal, Probe
<1>7. ASSUME NEW p \in Requests, NEW y, req' = [req EXCEPT ![p] = y], y.at # "cut"
      PROVE  FALSE
  BY <1>1, <1>7 DEF ReservationInv
<1>8. ASSUME NEW p \in Requests, Serve(p) PROVE FALSE
  <2>1. req[p] \in Request
    BY DEF ReservationInv
  <2>2. CASE Reserved(p)
    <3> DEFINE y == [req[p] EXCEPT !.at = "read", !.res = "pending", !.up = cfg.provider]
    <3>1. y.at # "cut"
      BY <2>1 DEF Request
    <3>2. req' = [req EXCEPT ![p] = y]
      BY <2>2 DEF Reserved, ReservationInv
    <3> HIDE DEF y
    <3> QED
      BY <1>7, <3>1, <3>2
  <2>3. CASE WriteSucceeds(p)
    <3> DEFINE y == [req[p] EXCEPT !.at = "read", !.left = 0]
    <3>1. y.at # "cut"
      BY <2>1 DEF Request
    <3>2. req' = [req EXCEPT ![p] = y]
      BY <2>3 DEF WriteSucceeds, ReservationInv
    <3> HIDE DEF y
    <3> QED
      BY <1>7, <3>1, <3>2
  <2>4. CASE WriteFails(p)
    <3> DEFINE y == [req[p] EXCEPT !.at = "read", !.left = 0, !.gone = TRUE]
    <3>1. y.at # "cut"
      BY <2>1 DEF Request
    <3>2. req' = [req EXCEPT ![p] = y]
      BY <2>4 DEF WriteFails, ReservationInv
    <3> HIDE DEF y
    <3> QED
      BY <1>7, <3>1, <3>2
  <2>5. CASE Finish(p)
    <3> DEFINE y == [req[p] EXCEPT !.at = "settle", !.left = SettleTimeout]
    <3>1. y.at # "cut"
      BY <2>1 DEF Request
    <3>2. req' = [req EXCEPT ![p] = y]
      BY <2>5 DEF Finish, ReservationInv
    <3> HIDE DEF y
    <3> QED
      BY <1>7, <3>1, <3>2
  <2>6. CASE WriteBlocks(p)
    <3> DEFINE y == [req[p] EXCEPT !.at = "write", !.left = cfg.write,
                                   !.late = IF req[p].up > 0 THEN @ ELSE @ + 1]
    <3>1. y.at # "cut"
      BY <2>1 DEF Request
    <3>2. req' = [req EXCEPT ![p] = y]
      BY <2>6 DEF WriteBlocks, ReservationInv
    <3> HIDE DEF y
    <3> QED
      BY <1>7, <3>1, <3>2
  <2>7. CASE ClientGone(p)
    <3> DEFINE y == [req[p] EXCEPT !.at = "slot", !.gone = TRUE, !.left = req[p].drain]
    <3>1. y.at # "cut"
      BY <2>1 DEF Request
    <3>2. req' = [req EXCEPT ![p] = y]
      BY <2>7 DEF ClientGone, ReservationInv
    <3> HIDE DEF y
    <3> QED
      BY <1>7, <3>1, <3>2
  <2>8. CASE SlotGranted(p)
    <3> DEFINE y == [req[p] EXCEPT !.at = "read", !.left = 0]
    <3>1. y.at # "cut"
      BY <2>1 DEF Request
    <3>2. req' = [req EXCEPT ![p] = y]
      BY <2>8 DEF SlotGranted, ReservationInv
    <3> HIDE DEF y
    <3> QED
      BY <1>7, <3>1, <3>2
  <2>9. CASE ReserveFails(p) \/ Settled(p)
    <3>1. Done.at # "cut" /\ Unknown(req[p]).at # "cut"
      BY <2>1, OverInTime
    <3>2. req' = [req EXCEPT ![p] = Done] \/ req' = [req EXCEPT ![p] = Unknown(req[p])]
      BY <2>9 DEF ReserveFails, Settled
    <3> QED
      BY <1>7, <3>1, <3>2
  <2>10. CASE SettleFails(p)
    <3>1. Left(req[p], "unsettled").at # "cut"
      BY <2>1, OverInTime
    <3> QED
      BY <1>7, <2>10, <3>1 DEF SettleFails
  <2> QED
    BY <1>8, <2>2, <2>3, <2>4, <2>5, <2>6, <2>7, <2>8, <2>9, <2>10 DEF Serve, WaitEnds
<1>9. ASSUME NEW r \in Replicas, NEW p \in Requests, NEW d \in KeyDrains, Arrive(p, r, d)
      PROVE  FALSE
  <2> DEFINE y == [Idle EXCEPT !.at = "reserve", !.host = r,
                               !.drain = duration(d, cfg.drain)]
  <2>1. y.at # "cut"
    BY DEF Idle
  <2>2. req' = [req EXCEPT ![p] = y]
    BY <1>9 DEF Arrive
  <2> HIDE DEF y
  <2> QED
    BY <1>7, <2>1, <2>2
<1>10. ASSUME NEW r \in Replicas, NEW p \in Requests, Reap(p, r) PROVE FALSE
  <2>1. CASE Running(p)
    <3>1. [req[p] EXCEPT !.res = "expired"].at = req[p].at
      BY DEF ReservationInv, Request
    <3> QED
      BY <1>7, <1>10, <2>1, <3>1 DEF Reap, Running, Active
  <2>2. CASE ~Running(p)
    <3>1. Done.at # "cut"
      BY OverInTime
    <3> QED
      BY <1>7, <1>10, <2>2, <3>1 DEF Reap
  <2> QED
    BY <2>1, <2>2
<1>11. ASSUME Tick PROVE FALSE
  <2>1. req'[q].at = x.at
    BY <1>1, <1>11, LaterFields DEF Tick
  <2> QED
    BY <1>1, <2>1
<1>12. ASSUME NEW commits \in BOOLEAN, OrphanEnds(commits) PROVE FALSE
  BY <1>2, <1>12 DEF OrphanEnds
<1>13. CASE UNCHANGED vars
  BY <1>2, <1>13 DEF vars
<1> QED
  BY <1>4, <1>5, <1>6, <1>8, <1>9, <1>10, <1>11, <1>12, <1>13 DEF Next, Boot, Stop

(* ShutdownIsGraceful, for any number of replicas and requests and any      *)
(* accepted timeouts: with a load balancer that asks within DrainDelay, a   *)
(* replica is asked for nothing once its listener is closed, and a request  *)
(* that is cut off has been running for all of ShutdownTimeout.             *)
THEOREM GracefulShutdown == Spec => ShutdownIsGraceful
<1>1. ReservationInv /\ ShutdownInv /\ [Next]_vars
        => [NothingRefused' /\ CutOffOnlyWhenSlow]_vars
  <2>1. ShutdownInv' => NothingRefused'
    BY DEF ShutdownInv
  <2> QED
    BY <2>1, ReplicaShutdownStep, CutOffStep
<1> QED
  BY ReservationInit, ReservationStep, ShutdownInit, ReplicaShutdownStep, <1>1, PTL
     DEF Spec, ShutdownIsGraceful

-------------------------------------------------------------------------------
(* The types. *)

(* Every variable stays in its range: the schema, because what a migrator   *)
(* read still holds when it goes on to the next migration.                  *)
LEMMA TypeStep ==
  TypeOK /\ MigrationInv /\ ReservationInv /\ ShutdownInv'
    /\ MigrationInv' /\ ReservationInv' /\ [Next]_vars => TypeOK'
<1> SUFFICES ASSUME TypeOK, MigrationInv, ReservationInv, ShutdownInv', MigrationInv',
                    ReservationInv', [Next]_vars
             PROVE  TypeOK'
  OBVIOUS
<1> USE DEF process, database, fate, balancer
<1>1. (\E e \in Envs : cfg = LoadFrom(e))'
  <2>1. UNCHANGED cfg
    BY ZenonT(60) DEF Next, vars, Boot, Stop, Serve, Start, ReadVersion, Up, Unlock, Listen,
           BootFails, TakeLock, Abort, BeginDraining, Shutdown, StopBackground, Exit,
           Signal, Crash, Probe, Arrive, Reap, WaitEnds, Reserved,
           ReserveFails, WriteSucceeds, WriteFails, Finish, Settled, SettleFails,
           WriteBlocks, ClientGone, SlotGranted, UpFails, ListenerFails, OrphanEnds, Tick
  <2> QED
    BY <2>1 DEF TypeOK
<1>2. lock' \in Replicas \cup {Nobody}
  BY ZenonT(60) DEF TypeOK, Next, vars, Boot, Stop, Serve, Start, ReadVersion, Up, Unlock, Listen,
         BootFails, TakeLock, Abort, BeginDraining, Shutdown, StopBackground, Exit,
         Signal, Crash, Probe, Arrive, Reap, WaitEnds, Reserved,
         ReserveFails, WriteSucceeds, WriteFails, Finish, Settled, SettleFails,
         WriteBlocks, ClientGone, SlotGranted, UpFails, ListenerFails, OrphanEnds, Tick, Vanish
<1>3. version' \in 0 .. LastMigration
  <2>1. ASSUME NEW r \in Replicas, Up(r) PROVE version' \in 0 .. LastMigration
    BY <2>1, PoolAssumption DEF Up, TypeOK, MigrationInv, MigrationReadHolds
  <2>2. ASSUME NEW commits \in BOOLEAN, OrphanEnds(commits)
        PROVE  version' \in 0 .. LastMigration
    BY <2>2 DEF OrphanEnds, TypeOK
  <2> QED
    BY <2>1, <2>2, ZenonT(60)
       DEF TypeOK, Next, vars, Boot, Stop, Serve, Start, ReadVersion, Unlock, Listen,
           BootFails, TakeLock, Abort, BeginDraining, Shutdown, StopBackground, Exit,
           Signal, Crash, Probe, Arrive, Reap, WaitEnds, Reserved,
           ReserveFails, WriteSucceeds, WriteFails, Finish, Settled, SettleFails,
           WriteBlocks, ClientGone, SlotGranted, UpFails, ListenerFails, OrphanEnds, Tick, Vanish
<1>4. (routed \cup crashed \cup signalled \subseteq Replicas)'
  <2>1. routed' \subseteq Replicas
    BY ZenonT(60) DEF TypeOK, Next, vars, Boot, Stop, Serve, Start, ReadVersion, Up, Unlock, Listen,
           BootFails, TakeLock, Abort, BeginDraining, Shutdown, StopBackground, Exit,
           Signal, Crash, Probe, Arrive, Reap, WaitEnds, Reserved,
           ReserveFails, WriteSucceeds, WriteFails, Finish, Settled, SettleFails,
           WriteBlocks, ClientGone, SlotGranted, UpFails, ListenerFails, OrphanEnds, Tick, Vanish
  <2>2. crashed' \subseteq Replicas
    BY ZenonT(60) DEF TypeOK, Next, vars, Boot, Stop, Serve, Start, ReadVersion, Up, Unlock, Listen,
           BootFails, TakeLock, Abort, BeginDraining, Shutdown, StopBackground, Exit,
           Signal, Crash, Probe, Arrive, Reap, WaitEnds, Reserved,
           ReserveFails, WriteSucceeds, WriteFails, Finish, Settled, SettleFails,
           WriteBlocks, ClientGone, SlotGranted, UpFails, ListenerFails, OrphanEnds, Tick, Vanish
  <2>3. signalled' \subseteq Replicas
    BY ZenonT(60) DEF TypeOK, Next, vars, Boot, Stop, Serve, Start, ReadVersion, Up, Unlock, Listen,
           BootFails, TakeLock, Abort, BeginDraining, Shutdown, StopBackground, Exit,
           Signal, Crash, Probe, Arrive, Reap, WaitEnds, Reserved,
           ReserveFails, WriteSucceeds, WriteFails, Finish, Settled, SettleFails,
           WriteBlocks, ClientGone, SlotGranted, UpFails, ListenerFails, OrphanEnds, Tick, Vanish
  <2> QED
    BY <2>1, <2>2, <2>3
<1>5. (\A r \in Replicas : probed[r] \in 0 .. ProbeInterval)'
  BY DEF ShutdownInv
<1>6. (\A q \in Requests :
          /\ req[q].at \in Active \cup {"idle", "cut", "lost", "unsettled", "done"}
          /\ Running(q) <=> req[q].host \in Replicas
          /\ req[q].res \in {"none", "pending", "expired"})'
  <2> SUFFICES ASSUME NEW q \in Requests
               PROVE  (/\ req[q].at \in Active \cup {"idle", "cut", "lost", "unsettled",
                                                      "done"}
                       /\ Running(q) <=> req[q].host \in Replicas
                       /\ req[q].res \in {"none", "pending", "expired"})'
    OBVIOUS
  <2>1. req'[q] \in Request /\ Hosted(q)'
    BY DEF ReservationInv, ShutdownInv
  <2> QED
    BY <2>1, NobodyAssumption DEF Request, Hosted, Running
<1>7. (orphan \in 0 .. LastMigration)'
  BY <1>3, PoolAssumption DEF MigrationInv, OrphanIsNext
<1>8. (landed \subseteq 1 .. LastMigration)'
  <2>1. ASSUME NEW commits \in BOOLEAN, OrphanEnds(commits)
        PROVE  landed' \subseteq 1 .. LastMigration
    <3>1. orphan \in 1 .. LastMigration
      BY <2>1, PoolAssumption DEF OrphanEnds, TypeOK
    <3> QED
      BY <2>1, <3>1 DEF OrphanEnds, TypeOK
  <2>2. (\E commits \in BOOLEAN : OrphanEnds(commits)) \/ landed' = landed
    BY ZenonT(60) DEF Next, vars, Boot, Stop, Serve, Start, ReadVersion, Up, Unlock, Listen,
           BootFails, TakeLock, Abort, BeginDraining, Shutdown, StopBackground, Exit,
           Signal, Crash, Probe, Arrive, Reap, WaitEnds, Reserved,
           ReserveFails, WriteSucceeds, WriteFails, Finish, Settled, SettleFails,
           WriteBlocks, ClientGone, SlotGranted, UpFails, ListenerFails, Tick, Vanish
  <2> QED
    BY <2>1, <2>2 DEF TypeOK
<1> QED
  BY <1>1, <1>2, <1>3, <1>4, <1>5, <1>6, <1>7, <1>8 DEF TypeOK, MigrationInv

(* The inductive invariant of Lifecycle, all of its parts together. *)
THEOREM LifecycleInvariance == Spec => []LifecycleInv
<1>1. Init => TypeOK
  <2> SUFFICES ASSUME Init PROVE TypeOK
    OBVIOUS
  <2>1. \A q \in Requests :
           /\ req[q].at \in Active \cup {"idle", "cut", "lost", "unsettled", "done"}
           /\ Running(q) <=> req[q].host \in Replicas
           /\ req[q].res \in {"none", "pending", "expired"}
    BY NobodyAssumption DEF Init, Idle, Running, Active
  <2> QED
    BY <2>1, PoolAssumption, TimesAssumption DEF Init, TypeOK
<1>2. Init => LifecycleInv
  BY <1>1, MigrationInit, ReservationInit, ShutdownInit DEF LifecycleInv
<1>3. LifecycleInv /\ [Next]_vars => LifecycleInv'
  BY MigrationStep, ReservationStep, ReplicaShutdownStep, TypeStep DEF LifecycleInv
<1> QED
  BY <1>2, <1>3, PTL DEF Spec

(* TypeOK: the schema never runs ahead of the embedded migrations, and a    *)
(* request has a host exactly while it runs.                                *)
THEOREM LifecycleTypes == Spec => []TypeOK
<1>1. LifecycleInv => TypeOK
  BY DEF LifecycleInv
<1> QED
  BY LifecycleInvariance, <1>1, PTL

-------------------------------------------------------------------------------
(* The usage buffer. *)

(* Taking the head off a channel removes that record and no other. *)
LEMMA HeadAndTail ==
    ASSUME NEW q \in Seq(Records), q # <<>>
    PROVE  /\ Head(q) \in Records
           /\ Tail(q) \in Seq(Records)
           /\ Len(Tail(q)) = Len(q) - 1
           /\ \A i \in 1 .. Len(q) :
                 q[i] = Head(q) \/ \E j \in 1 .. Len(Tail(q)) : Tail(q)[j] = q[i]
<1>1. Head(q) \in Records /\ Head(q) = q[1]
  OBVIOUS
<1>2. Tail(q) \in Seq(Records) /\ Len(Tail(q)) = Len(q) - 1
  OBVIOUS
<1>3. ASSUME NEW i \in 1 .. Len(q), i # 1
      PROVE  \E j \in 1 .. Len(Tail(q)) : Tail(q)[j] = q[i]
  <2>1. i - 1 \in 1 .. Len(Tail(q)) /\ Tail(q)[i - 1] = q[i]
    BY <1>2, <1>3
  <2>. QED  BY <2>1
<1>. QED  BY <1>1, <1>2, <1>3

(* A batch with one more record has at most one more. *)
LEMMA BatchGrows ==
    ASSUME NEW B, IsFiniteSet(B), NEW r
    PROVE  /\ IsFiniteSet(B \cup {r})
           /\ Cardinality(B) \in Nat
           /\ Cardinality(B \cup {r}) \in Nat
           /\ Cardinality(B \cup {r}) <= Cardinality(B) + 1
BY FS_AddElement, FS_CardinalityType

(* The empty batch. *)
LEMMA BatchEmpty == IsFiniteSet({}) /\ Cardinality({}) = 0
BY FS_EmptySet

(* Initially nothing is held and nothing accepted. *)
LEMMA BufferInitHolds == BufferInit => BufferInv
<1>. SUFFICES ASSUME BufferInit PROVE BufferInv
  OBVIOUS
<1>. USE SizesPositive, MaxFailuresNatural DEF BufferInit
<1>1. BufferTypeOK
  <2>1. /\ queue \in Seq(Records) /\ Len(queue) <= Capacity
        /\ batch \subseteq Records /\ Cardinality(batch) <= BatchSize
    BY BatchEmpty
  <2>2. add \in [Records -> InAdd \cup {"idle", "accepted", "written", "failed"}]
    OBVIOUS
  <2>3. failures \in 0 .. MaxFailures
    OBVIOUS
  <2>. QED  BY <2>1, <2>2, <2>3 DEF BufferTypeOK
<1>2. BatchBound
  BY BatchEmpty DEF BatchBound
<1>3. RunOrder /\ DrainedForGood
  BY DEF RunOrder, DrainedForGood
<1>4. AcceptedIsHeld
  BY DEF AcceptedIsHeld, Accepted
<1>. QED  BY <1>1, <1>2, <1>3, <1>4 DEF BufferInv

(* Take, shared by Receive and Drain: the record moves to the batch. *)
LEMMA TakeHolds ==
    ASSUME BufferInv, NEW next \in {"select", "drain"}, NEW who, Take(next, who),
           run \in {"select", "drain"}
    PROVE  /\ queue' \in Seq(Records) /\ Len(queue') <= Capacity
           /\ batch' \subseteq Records /\ Cardinality(batch') <= BatchSize
           /\ IsFiniteSet(batch')
           /\ run' \in {next, "flush"}
           /\ run' # "flush" => Cardinality(batch') < BatchSize
           /\ Queued \cup batch \subseteq Queued' \cup batch'
<1>. USE SizesPositive
<1>1. queue \in Seq(Records) /\ queue # <<>> /\ Len(queue) <= Capacity
  BY DEF BufferInv, BufferTypeOK, Take
<1>2. queue' \in Seq(Records) /\ Len(queue') <= Capacity /\ batch' \subseteq Records
  BY <1>1, HeadAndTail DEF Take, BufferInv, BufferTypeOK
<1>3. /\ IsFiniteSet(batch') /\ Cardinality(batch') \in Nat
      /\ Cardinality(batch') <= BatchSize
  <2>1. IsFiniteSet(batch) /\ Cardinality(batch) < BatchSize
    BY DEF BufferInv, BatchBound
  <2>2. batch' = batch \cup {Head(queue)}
    BY DEF Take
  <2>3. LET B == batch \cup {Head(queue)}
        IN  /\ IsFiniteSet(B) /\ Cardinality(batch) \in Nat /\ Cardinality(B) \in Nat
            /\ Cardinality(B) <= Cardinality(batch) + 1
    BY <2>1, BatchGrows
  <2>. QED  BY <2>1, <2>2, <2>3
<1>4. run' \in {next, "flush"} /\ (run' # "flush" => Cardinality(batch') < BatchSize)
  BY <1>3 DEF Take
<1>5. Queued \cup batch \subseteq Queued' \cup batch'
  BY <1>1, HeadAndTail, SMTT(30) DEF Take, Queued
<1>. QED  BY <1>2, <1>3, <1>4, <1>5

(* What one attempt to write leaves in the table. *)
LEMMA AttemptKeeps ==
    ASSUME BufferInv, NEW R \in SUBSET Records, NEW o, Attempt(R, o)
    PROVE  /\ table \subseteq table' /\ table' \subseteq Records
           /\ Lands(R, o) => R \subseteq table'
           /\ failures' \in 0 .. MaxFailures
BY MaxFailuresNatural DEF Attempt, Lands, BufferInv, BufferTypeOK

(* Steps of Add. *)
LEMMA AddPreserves ==
    ASSUME BufferInv, NEW r \in Records, RequestArrives(r) \/ AddStep(r)
    PROVE  BufferInv'
<1>. USE SizesPositive, MaxFailuresNatural
<1>. USE DEF BufferInv
<1>1. CASE RequestArrives(r)
  <2>1. BufferTypeOK'
    BY <1>1 DEF RequestArrives, BufferTypeOK, InAdd, runner, shutdown
  <2>2. BatchBound' /\ RunOrder'
    BY <1>1 DEF RequestArrives, BatchBound, RunOrder, runner, shutdown
  <2>3. DrainedForGood'
    BY <1>1 DEF RequestArrives, DrainedForGood, runner, shutdown
  <2>4. AcceptedIsHeld'
    BY <1>1
    DEF RequestArrives, AcceptedIsHeld, Accepted, Queued, BufferTypeOK, runner, shutdown
  <2>. QED  BY <2>1, <2>2, <2>3, <2>4
<1>2. CASE AddCheck(r)
  <2>1. BufferTypeOK'
    BY <1>2 DEF AddCheck, BufferTypeOK, InAdd, runner, shutdown
  <2>2. BatchBound' /\ RunOrder'
    BY <1>2 DEF AddCheck, BatchBound, RunOrder, runner, shutdown
  <2>3. DrainedForGood'
    BY <1>2 DEF AddCheck, DrainedForGood, InAdd, runner, shutdown
  <2>4. AcceptedIsHeld'
    BY <1>2 DEF AddCheck, AcceptedIsHeld, Accepted, Queued, BufferTypeOK, runner, shutdown
  <2>. QED  BY <2>1, <2>2, <2>3, <2>4
<1>3. CASE AddEnqueue(r)
  <2>1. BufferTypeOK'
    <3>1. queue' \in Seq(Records) /\ Len(queue') <= Capacity
      BY <1>3 DEF AddEnqueue, BufferTypeOK
    <3>2. add' \in [Records -> InAdd \cup {"idle", "accepted", "written", "failed"}]
      BY <1>3 DEF AddEnqueue, BufferTypeOK, InAdd
    <3>. QED  BY <1>3, <3>1, <3>2 DEF AddEnqueue, BufferTypeOK, runner, shutdown
  <2>2. BatchBound' /\ RunOrder'
    BY <1>3 DEF AddEnqueue, BatchBound, RunOrder, runner, shutdown
  <2>3. DrainedForGood'
    (* A request in flight means that the server still serves, or that      *)
    (* shutdownCtx expired: the channel was not found empty for good.       *)
    <3>1. main = "serving" \/ expired
      BY <1>3 DEF AddEnqueue, DrainedForGood, InAdd, BufferTypeOK
    <3>2. expired \/ ~(run = "done" \/ caller = "last")
      BY <3>1 DEF RunOrder, BufferTypeOK
    <3>. QED
      BY <1>3, <3>2 DEF AddEnqueue, DrainedForGood, InAdd, BufferTypeOK, runner, shutdown
  <2>4. AcceptedIsHeld'
    <3>0. queue \in Seq(Records)
      BY DEF BufferTypeOK
    <3>1. Queued \subseteq Queued'
      <4>1. CASE queue' = Append(queue, r)
        BY <3>0, <4>1 DEF Queued
      <4>2. CASE queue' = queue
        BY <4>2 DEF Queued
      <4>. QED  BY <1>3, <4>1, <4>2 DEF AddEnqueue
    <3>2. add'[r] = "accepted" => r \in Queued'
      BY <1>3 DEF AddEnqueue, Queued, BufferTypeOK
    <3>. QED
      BY <1>3, <3>1, <3>2 DEF AddEnqueue, AcceptedIsHeld, Accepted, BufferTypeOK, runner
  <2>. QED  BY <2>1, <2>2, <2>3, <2>4
<1>4. ASSUME NEW o \in Outcomes, AddSync(r, o) PROVE BufferInv'
  <2>. {r} \in SUBSET Records /\ Attempt({r}, o)
    BY <1>4 DEF AddSync
  <2>1. BufferTypeOK'
    BY <1>4, AttemptKeeps DEF AddSync, BufferTypeOK, InAdd, runner, shutdown
  <2>2. BatchBound' /\ RunOrder'
    BY <1>4 DEF AddSync, BatchBound, RunOrder, runner, shutdown
  <2>3. DrainedForGood'
    BY <1>4 DEF AddSync, DrainedForGood, InAdd, runner, shutdown
  <2>4. AcceptedIsHeld'
    BY <1>4, AttemptKeeps, SMTT(60)
    DEF AddSync, AcceptedIsHeld, Accepted, Queued, BufferTypeOK, runner, shutdown
  <2>. QED  BY <2>1, <2>2, <2>3, <2>4
<1>. QED  BY <1>1, <1>2, <1>3, <1>4 DEF AddStep

(* Steps of Run. *)
LEMMA RunPreserves ==
    ASSUME BufferInv, RunStep
    PROVE  BufferInv'
<1>. USE SizesPositive, MaxFailuresNatural
<1>. USE DEF BufferInv
<1>1. CASE Receive
  <2>. Take("select", "loop") /\ run = "select"
    BY <1>1 DEF Receive
  <2>0. /\ queue' \in Seq(Records) /\ Len(queue') <= Capacity
        /\ batch' \subseteq Records /\ Cardinality(batch') <= BatchSize
        /\ IsFiniteSet(batch') /\ run' \in {"select", "flush"} /\ caller' = "loop"
        /\ run' # "flush" => Cardinality(batch') < BatchSize
        /\ Queued \cup batch \subseteq Queued' \cup batch'
    BY TakeHolds DEF Take
  <2>1. BufferTypeOK'
    BY <1>1, <2>0 DEF Receive, BufferTypeOK, shutdown
  <2>2. BatchBound' /\ RunOrder'
    BY <1>1, <2>0 DEF Receive, BatchBound, RunOrder, shutdown
  <2>3. DrainedForGood'
    BY <1>1, <2>0 DEF Receive, DrainedForGood, shutdown
  <2>4. AcceptedIsHeld'
    BY <1>1, <2>0 DEF Receive, AcceptedIsHeld, Accepted
  <2>. QED  BY <2>1, <2>2, <2>3, <2>4
<1>2. CASE FlushTick
  <2>1. BufferTypeOK' /\ BatchBound'
    BY <1>2 DEF FlushTick, BufferTypeOK, BatchBound, shutdown
  <2>2. RunOrder' /\ DrainedForGood'
    BY <1>2 DEF FlushTick, RunOrder, DrainedForGood, shutdown
  <2>3. AcceptedIsHeld'
    BY <1>2 DEF FlushTick, AcceptedIsHeld, Accepted, Queued
  <2>. QED  BY <2>1, <2>2, <2>3
<1>3. CASE StopSeen
  <2>1. BufferTypeOK' /\ BatchBound'
    BY <1>3 DEF StopSeen, BufferTypeOK, BatchBound, shutdown
  <2>2. RunOrder' /\ DrainedForGood'
    BY <1>3 DEF StopSeen, RunOrder, DrainedForGood, shutdown
  <2>3. AcceptedIsHeld'
    BY <1>3 DEF StopSeen, AcceptedIsHeld, Accepted, Queued
  <2>. QED  BY <2>1, <2>2, <2>3
<1>4. CASE Drain
  <2>1. CASE Take("drain", "drain")
    <3>0. /\ queue' \in Seq(Records) /\ Len(queue') <= Capacity
          /\ batch' \subseteq Records /\ Cardinality(batch') <= BatchSize
          /\ IsFiniteSet(batch') /\ run' \in {"drain", "flush"} /\ caller' = "drain"
          /\ run' # "flush" => Cardinality(batch') < BatchSize
          /\ Queued \cup batch \subseteq Queued' \cup batch'
      BY <1>4, <2>1, TakeHolds DEF Take, Drain
    <3>1. BufferTypeOK'
      BY <1>4, <3>0 DEF Drain, BufferTypeOK, shutdown
    <3>2. BatchBound' /\ RunOrder'
      BY <1>4, <3>0 DEF Drain, BatchBound, RunOrder, shutdown
    <3>3. DrainedForGood'
      BY <1>4, <3>0 DEF Drain, DrainedForGood, shutdown
    <3>4. AcceptedIsHeld'
      BY <1>4, <3>0 DEF Drain, AcceptedIsHeld, Accepted
    <3>. QED  BY <3>1, <3>2, <3>3, <3>4
  <2>2. CASE ~Take("drain", "drain")
    <3>0. /\ queue = <<>> /\ caller' = "last" /\ UNCHANGED <<queue, batch>>
          /\ run' = IF batch = {} THEN "done" ELSE "flush"
      BY <1>4, <2>2 DEF Drain
    <3>1. BufferTypeOK' /\ BatchBound'
      BY <1>4, <3>0 DEF Drain, BufferTypeOK, BatchBound, shutdown
    <3>2. RunOrder'
      BY <1>4, <3>0 DEF Drain, RunOrder, shutdown
    <3>3. DrainedForGood'
      BY <1>4, <3>0 DEF Drain, DrainedForGood, shutdown
    <3>4. AcceptedIsHeld'
      BY <1>4, <3>0 DEF Drain, AcceptedIsHeld, Accepted, Queued
    <3>. QED  BY <3>1, <3>2, <3>3, <3>4
  <2>. QED  BY <2>1, <2>2
<1>5. ASSUME NEW o \in Outcomes, FlushWrite(o) PROVE BufferInv'
  <2>. batch \in SUBSET Records /\ Attempt(batch, o)
    BY <1>5 DEF FlushWrite, BufferTypeOK
  <2>a. /\ run = "flush"
        /\ (batch' = batch /\ run' = "backoff") \/ (batch' = {} /\ run' = Return)
    BY <1>5 DEF FlushWrite
  <2>b. /\ IsFiniteSet(batch) /\ Cardinality(batch) <= BatchSize
        /\ IsFiniteSet({}) /\ Cardinality({}) = 0
    BY BatchEmpty DEF BatchBound, BufferTypeOK
  <2>0. /\ IsFiniteSet(batch') /\ Cardinality(batch') <= BatchSize
        /\ run' # "backoff" => Cardinality(batch') < BatchSize
    <3>1. CASE batch' = batch
      <4>1. Cardinality(batch') = Cardinality(batch)
        BY <3>1, Zenon
      <4>2. IsFiniteSet(batch')
        BY <3>1, <2>b, Zenon
      <4>3. run' # "backoff" => batch = {}
        BY <3>1, <2>a
      <4>. QED  BY <2>b, <4>1, <4>2, <4>3
    <3>2. CASE batch' = {}
      <4>1. Cardinality(batch') = 0 /\ IsFiniteSet(batch')
        BY <3>2, <2>b, Zenon
      <4>. QED  BY <4>1
    <3>. QED  BY <2>a, <3>1, <3>2
  <2>c. Return \in {"select", "drain", "done"}
    BY DEF Return, BufferTypeOK
  <2>1. BufferTypeOK'
    <3>1. table' \subseteq Records /\ failures' \in 0 .. MaxFailures
      BY AttemptKeeps
    <3>2. /\ batch' \subseteq Records /\ Cardinality(batch') <= BatchSize
          /\ run' \in {"select", "flush", "backoff", "last_attempt", "drain", "done"}
      BY <2>0, <2>a, <2>c
    <3>. QED  BY <1>5, <3>1, <3>2 DEF FlushWrite, BufferTypeOK, shutdown
  <2>2. BatchBound'
    BY <2>0, <2>a DEF BatchBound
  <2>3. RunOrder'
    BY <1>5, <2>a DEF FlushWrite, RunOrder, Return, BufferTypeOK, shutdown
  <2>4. DrainedForGood'
    BY <1>5, <2>a DEF FlushWrite, DrainedForGood, Return, BufferTypeOK, shutdown
  <2>5. AcceptedIsHeld'
    BY <1>5, AttemptKeeps DEF FlushWrite, AcceptedIsHeld, Accepted, Queued
  <2>. QED  BY <2>1, <2>2, <2>3, <2>4, <2>5
<1>6. ASSUME NEW o \in Outcomes, LastAttempt(o) PROVE BufferInv'
  <2>. batch \in SUBSET Records /\ Attempt(batch, o)
    BY <1>6 DEF LastAttempt, BufferTypeOK
  <2>1. BufferTypeOK'
    <3>1. /\ batch' \subseteq Records /\ Cardinality(batch') <= BatchSize
          /\ lost' \subseteq Records /\ run' = "select"
      BY <1>6, BatchEmpty DEF LastAttempt, BufferTypeOK
    <3>2. table' \subseteq Records /\ failures' \in 0 .. MaxFailures
      BY AttemptKeeps
    <3>. QED  BY <1>6, <3>1, <3>2 DEF LastAttempt, BufferTypeOK, shutdown
  <2>2. BatchBound'
    BY <1>6, BatchEmpty DEF LastAttempt, BatchBound
  <2>3. RunOrder' /\ DrainedForGood'
    BY <1>6 DEF LastAttempt, RunOrder, DrainedForGood, shutdown
  <2>4. AcceptedIsHeld'
    BY <1>6, AttemptKeeps DEF LastAttempt, AcceptedIsHeld, Accepted, Queued
  <2>. QED  BY <2>1, <2>2, <2>3, <2>4
<1>7. ASSUME NEW to \in {"flush", "last_attempt"}, Backoff(to) PROVE BufferInv'
  <2>1. BufferTypeOK' /\ BatchBound'
    BY <1>7 DEF Backoff, BufferTypeOK, BatchBound, shutdown
  <2>2. RunOrder' /\ DrainedForGood'
    BY <1>7 DEF Backoff, RunOrder, DrainedForGood, shutdown
  <2>3. AcceptedIsHeld'
    BY <1>7 DEF Backoff, AcceptedIsHeld, Accepted, Queued
  <2>. QED  BY <2>1, <2>2, <2>3
<1>. QED  BY <1>1, <1>2, <1>3, <1>4, <1>5, <1>6, <1>7 DEF RunStep

(* Steps of the shutdown. *)
LEMMA ShutdownPreserves ==
    ASSUME BufferInv, ShutdownStep
    PROVE  BufferInv'
<1>. USE DEF BufferInv
<1>0. UNCHANGED <<add, queue, batch, run, caller, table, lost, failures>>
  BY DEF ShutdownStep, ShutdownServer, StopBuffer, Close, CloseReturns, runner
<1>1. BufferTypeOK'
  <2>1. expired' \in BOOLEAN
    BY DEF ShutdownStep, ShutdownServer, StopBuffer, Close, CloseReturns, BufferTypeOK
  <2>. QED
    BY <1>0, <2>1
    DEF ShutdownStep, ShutdownServer, StopBuffer, Close, CloseReturns, BufferTypeOK
<1>2. BatchBound' /\ AcceptedIsHeld'
  BY <1>0 DEF BatchBound, AcceptedIsHeld, Accepted, Queued
<1>3. RunOrder'
  <2>1. CASE ShutdownServer
    BY <1>0, <2>1 DEF ShutdownServer, RunOrder
  <2>2. CASE StopBuffer
    BY <1>0, <2>2 DEF StopBuffer, RunOrder
  <2>3. CASE Close
    BY <1>0, <2>3 DEF Close, RunOrder
  <2>4. ASSUME NEW ok \in BOOLEAN, CloseReturns(ok) PROVE RunOrder'
    BY <1>0, <2>4 DEF CloseReturns, RunOrder
  <2>. QED  BY <2>1, <2>2, <2>3, <2>4 DEF ShutdownStep
<1>4. DrainedForGood'
  <2>1. CASE ShutdownServer
    <3>1. ~(run = "done" \/ caller = "last")
      BY <2>1 DEF ShutdownServer, RunOrder, BufferTypeOK
    <3>2. ~expired' => \A r \in Records : add[r] \notin InAdd
      BY <2>1 DEF ShutdownServer
    <3>. QED  BY <1>0, <2>1, <3>1, <3>2 DEF ShutdownServer, DrainedForGood
  <2>2. CASE ~ShutdownServer
    BY <1>0, <2>2 DEF ShutdownStep, StopBuffer, Close, CloseReturns, DrainedForGood
  <2>. QED  BY <2>1, <2>2
<1>. QED  BY <1>1, <1>2, <1>3, <1>4

(* Every reachable state satisfies the inductive invariant. *)
THEOREM BufferInvariance == BufferSpec => []BufferInv
<1>1. BufferInit => BufferInv
  BY BufferInitHolds
<1>2. BufferInv /\ [BufferNext]_bufferVars => BufferInv'
  <2>. SUFFICES ASSUME BufferInv, [BufferNext]_bufferVars PROVE BufferInv'
    OBVIOUS
  <2>1. CASE BufferNext
    BY <2>1, AddPreserves, RunPreserves, ShutdownPreserves DEF BufferNext, BufferServe
  <2>2. CASE UNCHANGED bufferVars
    BY <2>2 DEF bufferVars, BufferInv, BufferTypeOK, BatchBound, RunOrder, DrainedForGood,
                AcceptedIsHeld, Accepted, Queued
  <2>. QED  BY <2>1, <2>2
<1>. QED  BY <1>1, <1>2, PTL DEF BufferSpec

(* The queue and the batch stay within their bounds. *)
THEOREM BufferTypeCorrectness == BufferSpec => []BufferTypeOK
<1>1. BufferInv => BufferTypeOK
  BY DEF BufferInv
<1>. QED  BY <1>1, BufferInvariance, PTL

(* Add, Run, flush, lastAttempt and drainAndFlush between them never drop a *)
(* record that Add accepted.                                                *)
THEOREM AcceptedRecordsHeld == BufferSpec => []AcceptedIsHeld
<1>1. BufferInv => AcceptedIsHeld
  BY DEF BufferInv
<1>. QED  BY <1>1, BufferInvariance, PTL

(* A shutdown in main that waited for every request and saw Close return    *)
(* nil leaves no accepted record in memory.                                 *)
THEOREM CleanShutdown == BufferSpec => []CleanShutdownKeepsAll
<1>1. BufferInv => CleanShutdownKeepsAll
  <2>. SUFFICES ASSUME BufferInv, closeOk, ~expired
                PROVE  Accepted \subseteq table \cup lost
    BY DEF CleanShutdownKeepsAll
  <2>1. run = "done" /\ batch = {} /\ queue = <<>>
    BY DEF BufferInv, RunOrder, DrainedForGood
  <2>2. Queued = {}
    BY <2>1 DEF Queued
  <2>. QED  BY <2>1, <2>2 DEF BufferInv, AcceptedIsHeld
<1>. QED  BY <1>1, BufferInvariance, PTL

===============================================================================
