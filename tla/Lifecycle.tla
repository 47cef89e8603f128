------------------------------ MODULE Lifecycle -------------------------------
(***************************************************************************)
(* A replica from boot to exit: run (cmd/costlane/main.go), the validation *)
(* of its configuration (internal/config), the migration lock              *)
(* (internal/store/store.go) and the readiness it reports                  *)
(* (internal/api/health.go).  Several replicas share a database and stand  *)
(* behind a load balancer that probes them, which is external, as are the  *)
(* supervisor that starts what has exited and the signals.                 *)
(*                                                                         *)
(* Time is discrete: a deadline must be served before the next Tick, and   *)
(* what takes no noticeable time happens between two.  A request is what   *)
(* StreamPump models in detail; here it has only the waits that make it    *)
(* long, and the reservation that must outlive it: from the transaction    *)
(* that reserves, whose now() the TTL counts from, to the end of the one   *)
(* that settles.                                                           *)
(***************************************************************************)
EXTENDS Integers

CONSTANTS
    Replicas,
    Requests,
    Envs,               \* the environments a deployment may be given
    KeyDrains,          \* drain_timeout_ms of a key, Unset when null
    Unset,              \* a variable that is absent
    Default,            \* the defaults of LoadFrom, by field
    Refused,            \* what LoadFrom returns for an invalid environment
    TTLMargin,          \* 60 s: what the default TTL adds to the other two
    LastMigration,      \* the newest embedded migration
    MaxWriteConns,      \* connections of the write pool, 10
    ProbeInterval,      \* how often the load balancer asks, at least
    SettleTimeout,      \* settleTimeout, 15 s
    MaxReserve,         \* bound on the wait for the balance row, which has none
    MaxLate,            \* bound on the writes begun after the upstream deadline
    MaxStops,           \* bound on signals, crashes and failures of a listener
    Nobody              \* no holder of the lock

ASSUME UnsetAssumption == Unset \notin Int
ASSUME NobodyAssumption == Nobody \notin Replicas
ASSUME PoolAssumption == MaxWriteConns \in Nat /\ LastMigration \in Nat
ASSUME TimesAssumption ==
    TTLMargin \in Nat /\ ProbeInterval \in Nat /\ SettleTimeout \in Nat

VARIABLES
    cfg,        \* the configuration of the deployment
    phase,      \* where run is, in each replica
    signalled,  \* replicas whose context a signal has cancelled
    timer,      \* DrainDelay, then ShutdownTimeout, counting down
    lock,       \* the replica whose session holds the advisory lock
    version,    \* goose_db_version
    seen,       \* the version goose believes the database is at
    orphan,     \* the migration whose COMMIT has outlived its process, or 0
    landed,     \* the migrations that such a COMMIT has applied
    routed,     \* replicas the load balancer sends requests to
    probed,     \* ticks since the load balancer asked each
    crashed,    \* replicas that died since it asked
    req,        \* the handler of each request, and its reservation
    stops       \* signals and crashes so far

process == <<phase, signalled, timer>>
fate == <<orphan, landed>>
database == <<lock, version, seen, fate>>
balancer == <<routed, probed, crashed>>
vars == <<cfg, process, database, balancer, req, stops>>

-------------------------------------------------------------------------------
(* Configuration. *)

(* An absent variable has its default; one that is given must be positive. *)
duration(v, def) == IF v = Unset THEN def ELSE v
Valid(v) == v = Unset \/ v > 0

(* provider, drain, ttl, write, delay and shutdown are durations; migrate   *)
(* is MigrateOnBoot, credentials whether any provider has a key.            *)
Durations == {"provider", "drain", "ttl", "write", "delay", "shutdown"}

(* The TTL depends on the two that it must cover. *)
Resolved(e) ==
    LET given == [f \in DOMAIN e |-> IF f \in Durations \ {"ttl"}
                                    THEN duration(e[f], Default[f]) ELSE e[f]]
    IN [given EXCEPT !.ttl = duration(@, given.provider + given.drain + TTLMargin)]

(* Mutant of LoadFrom: the TTL is taken as it is given. *)
LoadUnchecked(e) ==
    LET c == Resolved(e)
    IN IF (\A f \in Durations : Valid(e[f])) /\ c.drain <= c.provider
       THEN c ELSE Refused

LoadFrom(e) ==
    LET c == Resolved(e)
    IN IF /\ \A f \in Durations : Valid(e[f])
          /\ c.drain <= c.provider
          /\ c.ttl >= c.provider + c.drain
       THEN c ELSE Refused

(* Durations are numbers; a key's drain timeout is positive by a CHECK. *)
ASSUME EnvsAssumption ==
    /\ \A e \in Envs : Durations \subseteq DOMAIN e /\ \A f \in Durations : e[f] \in Int \cup {Unset}
    /\ \A f \in Durations \ {"ttl"} : Default[f] \in Nat
    /\ \A e \in Envs : e = [f \in DOMAIN e |-> e[f]]
ASSUME KeyDrainsAssumption == KeyDrains \subseteq Nat \cup {Unset}

(* The load balancer asks often enough to notice within the drain delay. *)
ASSUME ProbeAssumption ==
    \A e \in Envs : LoadFrom(e) # Refused => ProbeInterval < LoadFrom(e).delay

-------------------------------------------------------------------------------
(* Requests, as far as they take time. *)

Idle == [at |-> "idle", host |-> Nobody, res |-> "none", drain |-> 0, age |-> 0,
         left |-> 0, up |-> 0, late |-> 0, extra |-> 0, gone |-> FALSE]
Done == [Idle EXCEPT !.at = "done"]

Active == {"reserve", "read", "write", "slot", "settle"}
Running(q) == req[q].at \in Active
InFlight(r) == {q \in Requests : Running(q) /\ req[q].host = r}

Accepting(r) == phase[r] \in {"serving", "draining"}

(* What a handler that ends without settling leaves: a reservation that is  *)
(* pending, if it had one.                                                  *)
Left(x, why) ==
    IF x.res = "pending" THEN [Idle EXCEPT !.at = why, !.res = "pending", !.age = x.age]
                         ELSE [Idle EXCEPT !.at = why]

(* A request is routed, and its reserve begins: expires_at will be now() of *)
(* this moment plus the TTL, however long it waits for the balance row.     *)
Arrive(q, r, d) ==
    /\ req[q].at = "idle"
    /\ r \in routed
    /\ Accepting(r)
    /\ req' = [req EXCEPT ![q] = [Idle EXCEPT !.at = "reserve", !.host = r,
                                             !.drain = duration(d, cfg.drain)]]
    /\ UNCHANGED <<cfg, process, database, balancer, stops>>

(* The reserve has committed; the upstream call and its deadline start. *)
Reserved(q) ==
    /\ req[q].at = "reserve"
    /\ req' = [req EXCEPT ![q].at = "read", ![q].res = "pending",
                          ![q].up = cfg.provider]
    /\ UNCHANGED <<cfg, process, database, balancer, stops>>

(* The budget refuses, the transaction fails or the client has left; or the *)
(* COMMIT landed and its answer was lost, and nobody will settle.           *)
Unknown(x) == Left([x EXCEPT !.res = "pending"], "unsettled")
ReserveFails(q) ==
    /\ req[q].at = "reserve"
    /\ req' \in {[req EXCEPT ![q] = Done], [req EXCEPT ![q] = Unknown(req[q])]}
    /\ UNCHANGED <<cfg, process, database, balancer, stops>>

(* The client reads slowly, and a write blocks, each with a deadline of its *)
(* own.  After the upstream deadline there may still be frames in the       *)
(* reader's buffer, chunks of the last one, the trailers and [DONE].        *)
WriteBlocks(q) ==
    /\ req[q].at = "read" /\ ~req[q].gone
    /\ req[q].up > 0 \/ req[q].late < MaxLate
    /\ req' = [req EXCEPT ![q].at = "write", ![q].left = cfg.write,
                          ![q].late = IF req[q].up > 0 THEN @ ELSE @ + 1]
    /\ UNCHANGED <<cfg, process, database, balancer, stops>>

WriteSucceeds(q) ==
    /\ req[q].at = "write"
    /\ req' = [req EXCEPT ![q].at = "read", ![q].left = 0]
    /\ UNCHANGED <<cfg, process, database, balancer, stops>>

(* It fails, or its deadline passes: the writer is dropped, and a key that  *)
(* drains reads on without a slot.                                          *)
WriteFails(q) ==
    /\ req[q].at = "write"
    /\ req' = [req EXCEPT ![q].at = "read", ![q].left = 0, ![q].gone = TRUE]
    /\ UNCHANGED <<cfg, process, database, balancer, stops>>

(* Between two frames the client is found gone, and its key drains:         *)
(* acquireDrainSlot waits for at most the drain timeout.                    *)
ClientGone(q) ==
    /\ req[q].at = "read" /\ ~req[q].gone
    /\ req' = [req EXCEPT ![q].at = "slot", ![q].gone = TRUE,
                          ![q].left = req[q].drain]
    /\ UNCHANGED <<cfg, process, database, balancer, stops>>

SlotGranted(q) ==
    /\ req[q].at = "slot"
    /\ req' = [req EXCEPT ![q].at = "read", ![q].left = 0]
    /\ UNCHANGED <<cfg, process, database, balancer, stops>>

(* The response is complete, the upstream call failed or ran into its       *)
(* deadline, there was no slot, or the key cancels: the handler settles.    *)
Finish(q) ==
    /\ req[q].at = "read" \/ (req[q].at = "slot" /\ req[q].left = 0)
    /\ req' = [req EXCEPT ![q].at = "settle", ![q].left = SettleTimeout]
    /\ UNCHANGED <<cfg, process, database, balancer, stops>>

(* The reservation is closed, late or in time.  What the handler does after *)
(* that, the record and the response, does not need it.                     *)
Settled(q) ==
    /\ req[q].at = "settle"
    /\ req' = [req EXCEPT ![q] = Done]
    /\ UNCHANGED <<cfg, process, database, balancer, stops>>

(* The settle fails or runs into its timeout, which is logged. *)
SettleFails(q) ==
    /\ req[q].at = "settle"
    /\ req' = [req EXCEPT ![q] = Left(req[q], "unsettled")]
    /\ UNCHANGED <<cfg, process, database, balancer, stops>>

(* The reaper of any replica that runs one: expires_at < now().             *)
Reap(q, r) ==
    /\ phase[r] \in {"serving", "draining", "stopping"}
    /\ req[q].res = "pending" /\ req[q].age > cfg.ttl
    /\ req' = [req EXCEPT ![q] =
                  IF Running(q) THEN [req[q] EXCEPT !.res = "expired"] ELSE Done]
    /\ UNCHANGED <<cfg, process, database, balancer, stops>>

-------------------------------------------------------------------------------
(* run: boot. *)

Goto(r, to) == phase' = [phase EXCEPT ![r] = to]

(* The process is gone: its sessions end, and with them the lock; requests  *)
(* it was serving leave a reservation behind.  The session of goose is not  *)
(* the one that holds the lock: a COMMIT that is under way may outlive it.  *)
Vanish(r, why) ==
    /\ Goto(r, "exited")
    /\ signalled' = signalled \ {r}
    /\ timer' = [timer EXCEPT ![r] = 0]
    /\ lock' = IF lock = r THEN Nobody ELSE lock
    /\ seen' = [seen EXCEPT ![r] = 0]
    /\ req' = [q \in Requests |-> IF q \in InFlight(r) THEN Left(req[q], why)
                                                       ELSE req[q]]
    /\ \/ UNCHANGED orphan
       \/ /\ phase[r] = "migrating"
          /\ seen[r] < LastMigration /\ seen[r] = version
          /\ orphan' = version + 1
    /\ UNCHANGED <<version, landed>>

(* The supervisor starts it, and the pools are opened and pinged.  With an  *)
(* invalid configuration run returns before it has done anything.           *)
Start(r) ==
    /\ phase[r] = "exited"
    /\ cfg # Refused
    /\ Goto(r, IF cfg.migrate THEN "locking" ELSE "loading")
    /\ UNCHANGED <<cfg, signalled, timer, database, balancer, req, stops>>

(* Mutant of TakeLock: a held lock does not stop the replica. *)
TakeLockAnyway(r) ==
    /\ phase[r] = "locking"
    /\ lock' = IF lock = Nobody THEN r ELSE lock
    /\ Goto(r, "locked")
    /\ UNCHANGED <<cfg, signalled, timer, version, seen, fate, balancer, req, stops>>

(* pg_advisory_lock, on a connection of its own. *)
TakeLock(r) ==
    /\ phase[r] = "locking"
    /\ lock = Nobody
    /\ lock' = r
    /\ Goto(r, "locked")
    /\ UNCHANGED <<cfg, signalled, timer, version, seen, fate, balancer, req, stops>>

(* goose reads the version, over a second connection of the same pool. *)
ReadVersion(r) ==
    /\ phase[r] = "locked"
    /\ MaxWriteConns > 1
    /\ seen' = [seen EXCEPT ![r] = version]
    /\ Goto(r, "migrating")
    /\ UNCHANGED <<cfg, signalled, timer, lock, version, fate, balancer, req, stops>>

(* Mutant of Up: one migration too many. *)
UpOneMore(r) ==
    /\ phase[r] = "migrating"
    /\ seen[r] <= LastMigration
    /\ version' = seen[r] + 1
    /\ seen' = [seen EXCEPT ![r] = seen[r] + 1]
    /\ UNCHANGED <<cfg, process, lock, fate, balancer, req, stops>>

(* One migration, in a transaction of its own, which waits for one that is  *)
(* applying the same.  Where that one has landed it is applied again, if    *)
(* its statements allow it (IF NOT EXISTS), or fails.                       *)
Up(r) ==
    /\ phase[r] = "migrating"
    /\ seen[r] < LastMigration
    /\ orphan # seen[r] + 1
    /\ version' = seen[r] + 1
    /\ seen' = [seen EXCEPT ![r] = seen[r] + 1]
    /\ UNCHANGED <<cfg, process, lock, fate, balancer, req, stops>>

UpFails(r) ==
    /\ phase[r] = "migrating"
    /\ seen[r] # version
    /\ Vanish(r, "cut")
    /\ UNCHANGED <<cfg, balancer, stops>>

(* A COMMIT whose process is gone lands after all, or is rolled back. *)
OrphanEnds(commits) ==
    /\ orphan # 0
    /\ orphan' = 0
    /\ version' = IF commits THEN orphan ELSE version
    /\ landed' = IF commits THEN landed \cup {orphan} ELSE landed
    /\ UNCHANGED <<cfg, process, lock, seen, balancer, req, stops>>

(* Mutant of Unlock: the unlock goes through the pool, to another session. *)
UnlockElsewhere(r) ==
    /\ phase[r] = "migrating"
    /\ seen[r] = LastMigration
    /\ seen' = [seen EXCEPT ![r] = 0]
    /\ Goto(r, "loading")
    /\ UNCHANGED <<cfg, signalled, timer, lock, version, fate, balancer, req, stops>>

(* The deferred unlock, on the connection that took the lock. *)
Unlock(r) ==
    /\ phase[r] = "migrating"
    /\ seen[r] = LastMigration
    /\ lock' = Nobody
    /\ seen' = [seen EXCEPT ![r] = 0]
    /\ Goto(r, "loading")
    /\ UNCHANGED <<cfg, signalled, timer, version, fate, balancer, req, stops>>

(* A signal during the migration cancels whatever statement is under way;   *)
(* the lock is released, and run returns the error.                         *)
Abort(r) ==
    /\ phase[r] \in {"locking", "locked", "migrating"}
    /\ r \in signalled
    /\ Vanish(r, "cut")
    /\ UNCHANGED <<cfg, balancer, stops>>

(* Prices, the router, the background loops, then the listener.  Without    *)
(* any credential buildRouter fails.                                        *)
Listen(r) ==
    /\ phase[r] = "loading"
    /\ cfg.credentials
    /\ Goto(r, "serving")
    /\ UNCHANGED <<cfg, signalled, timer, database, balancer, req, stops>>

BootFails(r) ==
    /\ phase[r] = "loading"
    /\ ~cfg.credentials
    /\ Vanish(r, "cut")
    /\ UNCHANGED <<cfg, balancer, stops>>

(* ListenAndServe returns an error, at once or while it serves: run returns *)
(* it, and what is in flight is lost.                                       *)
ListenerFails(r) ==
    /\ phase[r] = "serving" \/ (phase[r] = "loading" /\ cfg.credentials)
    /\ stops < MaxStops /\ stops' = stops + 1
    /\ Vanish(r, "lost")
    /\ crashed' = crashed \cup {r}
    /\ UNCHANGED <<cfg, routed, probed>>

-------------------------------------------------------------------------------
(* run: shutdown. *)

(* SIGTERM cancels the context. *)
Signal(r) ==
    /\ phase[r] # "exited" /\ r \notin signalled
    /\ stops < MaxStops /\ stops' = stops + 1
    /\ signalled' = signalled \cup {r}
    /\ UNCHANGED <<cfg, phase, timer, database, balancer, req>>

Crash(r) ==
    /\ phase[r] # "exited"
    /\ stops < MaxStops /\ stops' = stops + 1
    /\ Vanish(r, "lost")
    /\ crashed' = crashed \cup {r}
    /\ UNCHANGED <<cfg, routed, probed>>

(* Mutant of BeginDraining: the listener closes at once. *)
CloseAtOnce(r) ==
    /\ phase[r] = "serving"
    /\ r \in signalled
    /\ Goto(r, "stopping")
    /\ timer' = [timer EXCEPT ![r] = cfg.shutdown]
    /\ UNCHANGED <<cfg, signalled, database, balancer, req, stops>>

(* Readiness fails first, and the process sleeps for DrainDelay. *)
BeginDraining(r) ==
    /\ phase[r] = "serving"
    /\ r \in signalled
    /\ Goto(r, "draining")
    /\ timer' = [timer EXCEPT ![r] = cfg.delay]
    /\ UNCHANGED <<cfg, signalled, database, balancer, req, stops>>

(* httpServer.Shutdown: the listener closes. *)
Shutdown(r) ==
    /\ phase[r] = "draining"
    /\ timer[r] = 0
    /\ Goto(r, "stopping")
    /\ timer' = [timer EXCEPT ![r] = cfg.shutdown]
    /\ UNCHANGED <<cfg, signalled, database, balancer, req, stops>>

(* The last request is done, or the timeout is over: the reaper and the     *)
(* buffer stop.                                                             *)
StopBackground(r) ==
    /\ phase[r] = "stopping"
    /\ InFlight(r) = {} \/ timer[r] = 0
    /\ Goto(r, "flushing")
    /\ UNCHANGED <<cfg, signalled, timer, database, balancer, req, stops>>

(* The buffer is closed (UsageBuffer), and run returns: what is still in    *)
(* flight is cut off.                                                       *)
Exit(r) ==
    /\ phase[r] = "flushing"
    /\ Vanish(r, "cut")
    /\ UNCHANGED <<cfg, balancer, stops>>

-------------------------------------------------------------------------------
(* Outside. *)

(* Health.Ready; prices are loaded before the listener opens.  The ping of  *)
(* the read pool may fail.                                                  *)
Ready(r, ping) == phase[r] = "serving" /\ ping

Probe(r, ping) ==
    /\ routed' = IF Ready(r, ping) THEN routed \cup {r} ELSE routed \ {r}
    /\ probed' = [probed EXCEPT ![r] = 0]
    /\ crashed' = crashed \ {r}
    /\ UNCHANGED <<cfg, process, database, req, stops>>

(* An age that no deadline is beyond counts no further. *)
Old(age) == age > cfg.ttl /\ age >= cfg.shutdown

(* Counted in extra is the time that the validation of the TTL leaves out:  *)
(* the reserve, writes after the upstream deadline, and the settle.         *)
Extra(x) == x.at \in {"reserve", "settle"} \/ (x.at = "write" /\ x.up = 0)

Before(n) == IF n > 0 THEN n - 1 ELSE 0
Later(x) == [x EXCEPT !.age = IF Old(@) THEN @ ELSE @ + 1,
                      !.left = Before(@),
                      !.up = Before(@),
                      !.extra = IF Extra(x) THEN @ + 1 ELSE @]

(* No deadline is passed over. *)
Tick ==
    /\ \A r \in Replicas : /\ probed[r] < ProbeInterval
                           /\ phase[r] \in {"draining", "stopping"} => timer[r] > 0
                           /\ phase[r] # "flushing"
    /\ \A q \in Requests :
          /\ req[q].at = "reserve" => req[q].age < MaxReserve
          /\ req[q].at = "read" => req[q].up > 0
          /\ req[q].at \in {"write", "slot", "settle"} => req[q].left > 0
    /\ probed' = [r \in Replicas |-> probed[r] + 1]
    /\ timer' = [r \in Replicas |-> Before(timer[r])]
    /\ req' = [q \in Requests |->
                  IF Running(q) \/ req[q].res = "pending" THEN Later(req[q]) ELSE req[q]]
    /\ UNCHANGED <<cfg, phase, signalled, database, routed, crashed, stops>>

-------------------------------------------------------------------------------
Init ==
    /\ \E e \in Envs : cfg = LoadFrom(e)
    /\ phase = [r \in Replicas |-> "exited"]
    /\ signalled = {}
    /\ timer = [r \in Replicas |-> 0]
    /\ lock = Nobody
    /\ version = 0
    /\ seen = [r \in Replicas |-> 0]
    /\ orphan = 0
    /\ landed = {}
    /\ routed = {}
    /\ probed = [r \in Replicas |-> 0]
    /\ crashed = {}
    /\ req = [q \in Requests |-> Idle]
    /\ stops = 0

Boot(r) ==
    \/ Start(r) \/ ReadVersion(r) \/ Up(r) \/ UpFails(r) \/ Unlock(r)
    \/ Listen(r) \/ BootFails(r)
Stop(r) ==
    Abort(r) \/ BeginDraining(r) \/ Shutdown(r) \/ StopBackground(r) \/ Exit(r)
WaitEnds(q) ==
    \/ Reserved(q) \/ ReserveFails(q) \/ WriteSucceeds(q) \/ WriteFails(q)
    \/ Finish(q) \/ Settled(q) \/ SettleFails(q)
Serve(q) == WaitEnds(q) \/ WriteBlocks(q) \/ ClientGone(q) \/ SlotGranted(q)

Next ==
    \/ \E r \in Replicas :
          \/ Boot(r) \/ TakeLock(r) \/ Stop(r)
          \/ Signal(r) \/ Crash(r) \/ ListenerFails(r)
          \/ \E ping \in BOOLEAN : Probe(r, ping)
          \/ \E q \in Requests, d \in KeyDrains : Arrive(q, r, d)
          \/ \E q \in Requests : Reap(q, r)
    \/ \E q \in Requests : Serve(q)
    \/ \E commits \in BOOLEAN : OrphanEnds(commits)
    \/ Tick

(* The process makes progress and is started again by its supervisor; a     *)
(* reserve gets its row sooner or later, and streams, writes and settles    *)
(* end or run into their deadlines; the reaper sweeps, the load balancer    *)
(* probes and time passes; Postgres ends what has lost its client and       *)
(* serves those who wait for an advisory lock in turn.  Nothing has to be   *)
(* signalled, to crash or to fail.                                          *)
Fairness ==
    /\ \A r \in Replicas :
          /\ WF_vars(Boot(r)) /\ SF_vars(TakeLock(r)) /\ WF_vars(Stop(r))
          /\ WF_vars(\E ping \in BOOLEAN : Probe(r, ping))
    /\ \A q \in Requests :
          WF_vars(WaitEnds(q)) /\ WF_vars(\E r \in Replicas : Reap(q, r))
    /\ WF_vars(\E commits \in BOOLEAN : OrphanEnds(commits))
    /\ WF_vars(Tick)

Spec == Init /\ [][Next]_vars /\ Fairness

-------------------------------------------------------------------------------
(* Properties. *)

(* The type invariant: the schema never runs ahead of the embedded          *)
(* migrations, and a request has a host exactly while it runs.              *)
TypeOK ==
    /\ \E e \in Envs : cfg = LoadFrom(e)
    /\ phase \in [Replicas -> {"exited", "locking", "locked", "migrating", "loading",
                               "serving", "draining", "stopping", "flushing"}]
    /\ lock \in Replicas \cup {Nobody}
    /\ version \in 0 .. LastMigration
    /\ orphan \in 0 .. LastMigration /\ landed \subseteq 1 .. LastMigration
    /\ routed \cup crashed \cup signalled \subseteq Replicas
    /\ \A r \in Replicas : probed[r] \in 0 .. ProbeInterval
    /\ \A q \in Requests :
          /\ req[q].at \in Active \cup {"idle", "cut", "lost", "unsettled", "done"}
          /\ Running(q) <=> req[q].host \in Replicas
          /\ req[q].res \in {"none", "pending", "expired"}

(* What goose read is still so when it acts on it: replicas that boot       *)
(* together, and one that takes over from a replica that died or was        *)
(* stopped halfway, neither repeat a migration nor skip one.  The exception *)
(* is a COMMIT that outlived the process that sent it and the lock: then    *)
(* the one migration it applied is what the successor has not seen.         *)
MigrationReadHolds ==
    \A r \in Replicas :
        phase[r] = "migrating" =>
            seen[r] = version \/ (seen[r] = version - 1 /\ version \in landed)

(* Why: from the lock to the unlock, whoever migrates is its holder; and a  *)
(* COMMIT on its own is that of the next migration, which nobody passes.    *)
MigratorHoldsLock ==
    \A r \in Replicas : phase[r] \in {"locked", "migrating"} => lock = r

OrphanIsNext ==
    orphan # 0 => /\ orphan = version + 1 /\ orphan <= LastMigration
                  /\ \A r \in Replicas : phase[r] = "migrating" => seen[r] = version

MigrationInv ==
    /\ phase \in [Replicas -> {"exited", "locking", "locked", "migrating", "loading",
                               "serving", "draining", "stopping", "flushing"}]
    /\ DOMAIN seen = Replicas /\ seen = [r \in Replicas |-> seen[r]]
    /\ version \in Nat
    /\ MigratorHoldsLock
    /\ MigrationReadHolds
    /\ OrphanIsNext

(* The shutdown sequence.  The load balancer never sends a request to a     *)
(* replica that refuses it, unless the replica died or lost its listener:   *)
(* readiness fails before the listener closes, by long enough.  And a       *)
(* request is only ever cut off by a shutdown if it has been running for    *)
(* all of ShutdownTimeout.                                                  *)
NothingRefused == \A r \in routed : Accepting(r) \/ r \in crashed
CutOffOnlyWhenSlow ==
    \A q \in Requests : Running(q) /\ req'[q].at = "cut" => req[q].age >= cfg.shutdown
ShutdownIsGraceful == [][NothingRefused' /\ CutOffOnlyWhenSlow]_vars

(* What the validated TTL is good for, of which config.go says that a       *)
(* reservation must outlive its request: the reaper expires the reservation *)
(* of a request that is still running only if the key's own                 *)
(* drain_timeout_ms is larger than the configured one, or if the waits that *)
(* the validation leaves out (for the balance row, in writes after the      *)
(* upstream deadline, and in the settle) used up all of its margin.         *)
ReservationOutlivesRequest ==
    \A q \in Requests :
        (Running(q) /\ req[q].res = "expired") =>
            \/ req[q].drain > cfg.drain
            \/ /\ req[q].extra > 0
               /\ cfg.ttl < cfg.provider + cfg.drain + req[q].extra

(* Why: how long a request can have been running, wait by wait. *)
Request == [at: Active \cup {"idle", "cut", "lost", "unsettled", "done"},
            host: Replicas \cup {Nobody}, res: {"none", "pending", "expired"},
            drain: Nat, age: Nat, left: Nat, up: Nat, late: Nat, extra: Nat,
            gone: BOOLEAN]
Drained(x) == IF x.gone THEN x.drain ELSE 0
InTime(x) ==
    x.at \in Active =>
        /\ cfg # Refused
        /\ x.at = "reserve" => x.age <= x.extra /\ ~x.gone
        /\ x.at = "write" => ~x.gone
        /\ x.at = "slot" => /\ x.gone
                            /\ x.age + x.left <= cfg.provider + x.extra + x.drain
        /\ x.at # "settle" /\ x.up > 0 => x.age + x.up <= cfg.provider + x.extra
        /\ x.age <= cfg.provider + x.extra + Drained(x)
        /\ x.res = "expired" => x.age > cfg.ttl

ConfigSound ==
    cfg # Refused => /\ {cfg.provider, cfg.drain, cfg.ttl, cfg.write,
                         cfg.delay, cfg.shutdown} \subseteq Nat
                     /\ cfg.ttl >= cfg.provider + cfg.drain
                     /\ cfg.delay > ProbeInterval

ReservationInv ==
    /\ ConfigSound
    /\ phase \in [Replicas -> {"exited", "locking", "locked", "migrating", "loading",
                               "serving", "draining", "stopping", "flushing"}]
    /\ cfg = Refused => \A r \in Replicas : phase[r] = "exited"
    /\ req \in [Requests -> Request]
    /\ \A q \in Requests : InTime(req[q])

(* Why the shutdown is graceful.  A draining replica that still has traffic *)
(* has not been probed since its readiness failed: the time it has slept is *)
(* time without a probe.                                                    *)
StillRouted(r) ==
    phase[r] = "draining" /\ r \in routed => timer[r] + probed[r] >= cfg.delay

(* A request is hosted by a replica whose listener was open; once it is     *)
(* closed, what is left of the timeout and the request's age make up for    *)
(* the whole timeout.                                                       *)
Hosted(q) ==
    IF Running(q)
    THEN LET r == req[q].host IN
         /\ r \in Replicas /\ phase[r] \in {"serving", "draining", "stopping", "flushing"}
         /\ phase[r] = "stopping" => req[q].age + timer[r] >= cfg.shutdown
         /\ phase[r] = "flushing" => req[q].age >= cfg.shutdown
    ELSE req[q].host = Nobody

ShutdownInv ==
    /\ timer \in [Replicas -> Nat]
    /\ probed \in [Replicas -> 0 .. ProbeInterval]
    /\ routed \subseteq Replicas
    /\ NothingRefused
    /\ \A r \in Replicas : StillRouted(r)
    /\ \A q \in Requests : Hosted(q)

LifecycleInv == TypeOK /\ MigrationInv /\ ReservationInv /\ ShutdownInv

(* A valid deployment recovers: once signals and crashes cease, whatever    *)
(* they interrupted, every replica serves for good, nobody waiting for a    *)
(* lock that nobody releases, and no request leaves a reservation pending.  *)
Recovers ==
    (cfg # Refused /\ cfg.credentials) =>
        <>[](/\ \A r \in Replicas : phase[r] = "serving"
             /\ \A q \in Requests : req[q].res # "pending")
===============================================================================
