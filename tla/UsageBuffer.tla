------------------------------ MODULE UsageBuffer -----------------------------
(***************************************************************************)
(* The usage buffer (internal/usage/buffer.go): handlers hand it records,  *)
(* its goroutine writes them to Postgres in batches, and main shuts it     *)
(* down after the HTTP server (cmd/costlane/main.go).                      *)
(*                                                                         *)
(* A record is named after the request that adds it.  A write is one COPY  *)
(* into usage_records, whose primary key is the record's id: it lands as a *)
(* whole, fails as a whole, or lands while its answer is lost, and it      *)
(* fails whenever one of its rows is there already.                        *)
(*                                                                         *)
(* A hard crash loses what is in memory by design and is not modelled.     *)
(***************************************************************************)
EXTENDS Integers, Sequences, FiniteSets

CONSTANTS
    Records,        \* requests, each of which adds one record
    Capacity,       \* COSTLANE_USAGE_BUFFER_SIZE
    BatchSize,      \* COSTLANE_USAGE_BATCH_SIZE
    Outcomes,       \* how a write may end
    MaxFailures     \* bound on writes that do not end "ok"

ASSUME SizesPositive == Capacity \in Nat \ {0} /\ BatchSize \in Nat \ {0}
ASSUME MaxFailuresNatural == MaxFailures \in Nat
ASSUME OutcomesKnown == "ok" \in Outcomes /\ Outcomes \subseteq {"ok", "fail", "unknown"}

VARIABLES
    add,        \* where each request, and its call of Add, is
    queue,      \* the channel
    batch,      \* the records Run has taken from it
    run,        \* where the goroutine of Run is
    caller,     \* who called flush: "loop", "drain", or "last" (end of the drain)
    stopping,   \* the context of Run is cancelled
    closed,     \* the closed channel is closed
    main,       \* where the shutdown in main is
    expired,    \* shutdownCtx has expired: some request outlasted it
    closeOk,    \* Close returned nil
    table,      \* usage_records
    lost,       \* records reported through RecordsLost
    failures    \* writes that did not end "ok", so far

bufferVars == <<add, queue, batch, run, caller, stopping, closed, main, expired, closeOk,
                table, lost, failures>>
shutdown == <<stopping, closed, main, expired, closeOk>>
runner == <<batch, run, caller>>

Alive == main # "exited"

InAdd == {"inflight", "checked", "sync"}

(* WriteBatch of the records R, with the outcome o. *)
Attempt(R, o) ==
    /\ o \in Outcomes
    /\ o # "ok" => failures < MaxFailures
    /\ failures' = IF o = "ok" THEN failures ELSE failures + 1
    /\ table' = IF o # "fail" /\ R \cap table = {} THEN table \cup R ELSE table

Lands(R, o) == o = "ok" /\ R \cap table = {}

-------------------------------------------------------------------------------
(* Add. *)

RequestArrives(r) ==
    /\ main = "serving"
    /\ add[r] = "idle"
    /\ add' = [add EXCEPT ![r] = "inflight"]
    /\ UNCHANGED <<queue, runner, shutdown, table, lost, failures>>

(* The first select: is the buffer closed? *)
AddCheck(r) ==
    /\ Alive
    /\ add[r] = "inflight"
    /\ add' = [add EXCEPT ![r] = IF closed THEN "sync" ELSE "checked"]
    /\ UNCHANGED <<queue, runner, shutdown, table, lost, failures>>

(* Mutant of AddEnqueue: the channel is not bounded. *)
AddEnqueueUnbounded(r) ==
    /\ Alive
    /\ add[r] = "checked"
    /\ queue' = Append(queue, r)
    /\ add' = [add EXCEPT ![r] = "accepted"]
    /\ UNCHANGED <<runner, shutdown, table, lost, failures>>

(* The second: is there room? *)
AddEnqueue(r) ==
    /\ Alive
    /\ add[r] = "checked"
    /\ IF Len(queue) < Capacity
       THEN /\ queue' = Append(queue, r)
            /\ add' = [add EXCEPT ![r] = "accepted"]
       ELSE /\ add' = [add EXCEPT ![r] = "sync"]
            /\ UNCHANGED queue
    /\ UNCHANGED <<runner, shutdown, table, lost, failures>>

(* writeSynchronously.  Its caller logs the error, and keeps no record. *)
AddSync(r, o) ==
    /\ Alive
    /\ add[r] = "sync"
    /\ Attempt({r}, o)
    /\ add' = [add EXCEPT ![r] = IF Lands({r}, o) THEN "written" ELSE "failed"]
    /\ UNCHANGED <<queue, runner, shutdown, lost>>

-------------------------------------------------------------------------------
(* Run. *)

(* Taking a record off the channel; a full batch is flushed at once. *)
Take(next, who) ==
    /\ queue # <<>>
    /\ queue' = Tail(queue)
    /\ batch' = batch \cup {Head(queue)}
    /\ run' = IF Cardinality(batch') >= BatchSize THEN "flush" ELSE next
    /\ caller' = who

Receive ==
    /\ Alive
    /\ run = "select"
    /\ Take("select", "loop")
    /\ UNCHANGED <<add, shutdown, table, lost, failures>>

(* Mutant of FlushTick: only a full batch is flushed. *)
FlushTickFull ==
    /\ Alive
    /\ run = "select"
    /\ Cardinality(batch) >= BatchSize
    /\ run' = "flush"
    /\ caller' = "loop"
    /\ UNCHANGED <<add, queue, batch, shutdown, table, lost, failures>>

FlushTick ==
    /\ Alive
    /\ run = "select"
    /\ batch # {}
    /\ run' = "flush"
    /\ caller' = "loop"
    /\ UNCHANGED <<add, queue, batch, shutdown, table, lost, failures>>

StopSeen ==
    /\ Alive
    /\ run = "select"
    /\ stopping
    /\ run' = "drain"
    /\ UNCHANGED <<add, queue, batch, caller, shutdown, table, lost, failures>>

(* Where flush returns to. *)
Return == CASE caller = "loop" -> "select" [] caller = "drain" -> "drain"
            [] caller = "last" -> "done"

(* Mutant of FlushWrite: a batch that failed is given up. *)
FlushWriteOnce(o) ==
    /\ Alive
    /\ run = "flush"
    /\ Attempt(batch, o)
    /\ batch' = {} /\ run' = Return
    /\ UNCHANGED <<add, queue, caller, shutdown, lost>>

(* One turn of the loop in flush.  A batch that fails is kept. *)
FlushWrite(o) ==
    /\ Alive
    /\ run = "flush"
    /\ Attempt(batch, o)
    /\ IF Lands(batch, o)
       THEN batch' = {} /\ run' = Return
       ELSE run' = "backoff" /\ UNCHANGED batch
    /\ UNCHANGED <<add, queue, caller, shutdown, lost>>

(* The backoff ends, or the context was cancelled; the drain at shutdown    *)
(* runs on a context that never is.                                         *)
Backoff(to) ==
    /\ Alive
    /\ run = "backoff"
    /\ to = "last_attempt" => stopping /\ caller = "loop"
    /\ run' = to
    /\ UNCHANGED <<add, queue, batch, caller, shutdown, table, lost, failures>>

LastAttempt(o) ==
    /\ Alive
    /\ run = "last_attempt"
    /\ Attempt(batch, o)
    /\ lost' = IF Lands(batch, o) THEN lost ELSE lost \cup batch
    /\ batch' = {}
    /\ run' = "select"
    /\ UNCHANGED <<add, queue, caller, shutdown>>

(* Mutant of Drain: what is still queued is not read. *)
DrainNothing ==
    /\ Alive
    /\ run = "drain"
    /\ run' = IF batch = {} THEN "done" ELSE "flush"
    /\ caller' = "last"
    /\ UNCHANGED <<queue, batch, add, shutdown, table, lost, failures>>

(* drainAndFlush: until the channel is found empty, once. *)
Drain ==
    /\ Alive
    /\ run = "drain"
    /\ \/ Take("drain", "drain")
       \/ /\ queue = <<>>
          /\ run' = IF batch = {} THEN "done" ELSE "flush"
          /\ caller' = "last"
          /\ UNCHANGED <<queue, batch>>
    /\ UNCHANGED <<add, shutdown, table, lost, failures>>

-------------------------------------------------------------------------------
(* The shutdown in main. *)

(* httpServer.Shutdown: every request has finished, or shutdownCtx expires. *)
ShutdownServer ==
    /\ main = "serving"
    /\ main' = "stopped"
    /\ expired' = \E r \in Records : add[r] \in InAdd
    /\ UNCHANGED <<add, queue, runner, stopping, closed, closeOk, table, lost, failures>>

StopBuffer ==
    /\ main = "stopped"
    /\ main' = "stop_buffer"
    /\ stopping' = TRUE
    /\ UNCHANGED <<add, queue, runner, closed, expired, closeOk, table, lost, failures>>

Close ==
    /\ main = "stop_buffer"
    /\ main' = "closing"
    /\ closed' = TRUE
    /\ UNCHANGED <<add, queue, runner, stopping, expired, closeOk, table, lost, failures>>

(* Close returns once Run is done, or when shutdownCtx has expired, which   *)
(* it may have before Close was called.                                     *)
CloseReturns(ok) ==
    /\ main = "closing"
    /\ ok => run = "done"
    /\ main' = "exited"
    /\ closeOk' = ok
    /\ UNCHANGED <<add, queue, runner, stopping, closed, expired, table, lost, failures>>

-------------------------------------------------------------------------------
BufferInit ==
    /\ add = [r \in Records |-> "idle"]
    /\ queue = <<>>
    /\ batch = {}
    /\ run = "select"
    /\ caller = "loop"
    /\ stopping = FALSE
    /\ closed = FALSE
    /\ main = "serving"
    /\ expired = FALSE
    /\ closeOk = FALSE
    /\ table = {}
    /\ lost = {}
    /\ failures = 0

AddStep(r) == AddCheck(r) \/ AddEnqueue(r) \/ \E o \in Outcomes : AddSync(r, o)

RunStep ==
    \/ Receive \/ FlushTick \/ StopSeen \/ Drain
    \/ \E o \in Outcomes : FlushWrite(o) \/ LastAttempt(o)
    \/ \E to \in {"flush", "last_attempt"} : Backoff(to)

BufferServe == RunStep \/ \E r \in Records : RequestArrives(r) \/ AddStep(r)

ShutdownStep ==
    ShutdownServer \/ StopBuffer \/ Close \/ \E ok \in BOOLEAN : CloseReturns(ok)

BufferNext == BufferServe \/ ShutdownStep

BufferSpec == BufferInit /\ [][BufferNext]_bufferVars

(* The goroutines run.  Writes may fail, but MaxFailures bounds how often;  *)
(* nothing obliges the gateway to shut down.                                *)
BufferFairness == WF_bufferVars(RunStep) /\ \A r \in Records : WF_bufferVars(AddStep(r))
FairBufferSpec == BufferSpec /\ BufferFairness

-------------------------------------------------------------------------------
(* Properties. *)

Queued == {queue[i] : i \in 1 .. Len(queue)}
Accepted == {r \in Records : add[r] = "accepted"}

(* The type invariant. *)
BufferTypeOK ==
    /\ add \in [Records -> InAdd \cup {"idle", "accepted", "written", "failed"}]
    /\ queue \in Seq(Records) /\ Len(queue) <= Capacity
    /\ batch \subseteq Records /\ Cardinality(batch) <= BatchSize
    /\ run \in {"select", "flush", "backoff", "last_attempt", "drain", "done"}
    /\ caller \in {"loop", "drain", "last"}
    /\ stopping \in BOOLEAN /\ closed \in BOOLEAN
    /\ expired \in BOOLEAN /\ closeOk \in BOOLEAN
    /\ main \in {"serving", "stopped", "stop_buffer", "closing", "exited"}
    /\ table \subseteq Records /\ lost \subseteq Records
    /\ failures \in 0 .. MaxFailures

(* A record that Add accepted is never dropped inside the buffer: through   *)
(* batching, failed writes, backoff and the drain it is always in memory,   *)
(* in the table, or reported lost.                                          *)
AcceptedIsHeld == Accepted \subseteq Queued \cup batch \cup table \cup lost

(* A shutdown that waited for every request, and whose Close returned nil,  *)
(* leaves nothing behind in memory: each accepted record is in the table or *)
(* was reported lost.                                                       *)
CleanShutdownKeepsAll ==
    (main = "exited" /\ closeOk /\ ~expired) => Accepted \subseteq table \cup lost

(* While the gateway serves, every accepted record reaches the table,       *)
(* however many of the writes before it failed, unless Run is left with a   *)
(* batch that is in the table already: its COPY landed and the answer was   *)
(* lost, so flush retries it against its own primary keys for ever.         *)
AcceptedIsWritten ==
    \A r \in Records :
        (add[r] = "accepted") ~>
            (r \in table \/ main # "serving" \/ batch \cap table # {})

(* Why the two invariants above hold; together they are inductive. *)

(* A batch is finite and below BatchSize whenever Run takes another record. *)
BatchBound ==
    /\ IsFiniteSet(batch)
    /\ run \in {"select", "drain"} => Cardinality(batch) < BatchSize

(* Who may be calling flush, and that Run only drains once it was stopped,  *)
(* which main does after the server.                                        *)
RunOrder ==
    /\ run \in {"select", "last_attempt"} => caller = "loop"
    /\ (run \in {"drain", "done"} \/ caller # "loop") => stopping
    /\ stopping => main \notin {"serving", "stopped"}
    /\ closeOk => run = "done"

(* After a shutdown in time no request is in flight, so that a channel once *)
(* found empty stays empty.                                                 *)
DrainedForGood ==
    /\ run = "done" => batch = {}
    /\ (main # "serving" /\ ~expired) => \A r \in Records : add[r] \notin InAdd
    /\ ((run = "done" \/ caller = "last") /\ ~expired) => queue = <<>>

BufferInv == BufferTypeOK /\ BatchBound /\ RunOrder /\ DrainedForGood /\ AcceptedIsHeld

===============================================================================
