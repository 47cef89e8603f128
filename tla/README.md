# A formal model of costlane

costlane is a gateway in front of LLM providers that enforces spending budgets.
A request reserves its estimated cost against the budget of its virtual key, is
sent to the provider, and settles what it really cost; a usage record is written
for it. This directory holds TLA+ modules of the parts that carry that promise,
the TLC configurations that check them on small instances, and TLAPS proofs for
every size of the instance.

`PROJECT.json` maps each definition to the lines it models, and lists components,
runs, mutants, hazards, findings and theorems.

## 1. Inventory

| Component | State | Operations | Interaction | What makes it correct |
|---|---|---|---|---|
| Budget store (`internal/store/budget.go`) | `key_budgets` (window, limit, spent, reserved), `budget_reservations` | Reserve, Settle, ReapExpired | READ COMMITTED transactions of many handlers and replicas on the same rows | balance = log; no grant over the limit; each reservation closed once |
| Reaper (`internal/budget`) | none of its own | sweep on a jittered timer | races handlers and other replicas' reapers | releases what dead handlers left, exactly once, without deadlock |
| Key store (`store/keys.go`) | `virtual_keys` | CreateKey, UpdateKey, RevokeKey | changes limits and permissions under running reserves | revocation takes effect at once; limit changes never corrupt the balance |
| Reconciliation (`store/reconcile.go`) | none | three queries | reads what the others wrote | finds drift exactly when there is some |
| Proxy handler (`proxy/handler.go`) | one reservation per request | ServeHTTP, recordUsage | calls store, provider, usage records | settle on every path; record for what was consumed |
| Stream pump and handler (`proxy/pump.go`, `stream_handler.go`) | writer, PumpResult, drain semaphore | Pump, settleStream | client, provider, other streams through the semaphore | what is recorded is what arrived; bounded drains; always settles |
| Usage buffer (`usage/buffer.go`) | channel, batch, closed | Add, Run, flush, Close | handlers, Postgres, shutdown in `main` | no accepted record lost |
| Main (`cmd/costlane`), health, configuration | phase of the process, readiness, timeouts | boot, shutdown order, retention loop, LoadFrom | load balancer, supervisor, every other part | nothing is cut off while it still has work; a reservation outlives its request |
| Store connection and migrations (`store/store.go`) | advisory lock, schema version, pools | Migrate | replicas that boot together | every migration once, no replica waiting for ever |
| Adapters and translators (`internal/provider`) | per stream: counts, tool indexes, end seen | TranslateRequest, Translate, Usage, ClosedCleanly | called by handler and pump | the streamed answer is the answer; what bounds the bill arrives upstream |
| SSE reader (`proxy/sse.go`) | one frame | Next | bytes of the provider, cut or oversized | no event lost, repeated or moved |
| Pricing (`internal/pricing`) | price table snapshot | LoadFS, Estimate, Cost, Resolve, Normalise, ReloadFS | reload swaps the table under running requests | one rate per token; every token once; the reservation covers the charge |
| Usage store and queries (`store/usage.go`, `queries.go`) | `usage_records` | WriteUsageRecord, ApplyRetention, QueryUsage, QueryRequests | written and pruned while they are listed | pages neither repeat nor skip; totals agree with the ledger |
| Admin API (`internal/api`) | none | create, update, revoke, reconcile | changes keys under running requests | see key store and reconciliation |
| Auth, observability, test support | | | | see `PROJECT.json`, components |

The hard behaviours are concurrency on two database rows (snapshots, re-evaluated
predicates, lock order, `now()` fixed at the start of a transaction), processes
that die or lose an answer between two steps, the month boundary, clients that
leave or stall at any point of a stream, streams that arrive garbled or cut, prices
and limits that change under a running request, two writes without a transaction
around them, and a shutdown that races requests. The
hazards in `PROJECT.json` name each at its line.

## 2. Modules

| Module | Models | State and actions |
|---|---|---|
| `Sums` | summing amounts over a set of rows | `Total(S, f)`, the number of units the rows of `S` consist of |
| `BudgetLedger` | the abstract specification: one action per committed transaction | `budget`, `res`, `keys`, `month`; `Reserve`, `Settle`, `Reap`, `CreateKey`, `UpdateLimit`, `TimePasses`; `ceiling` is a history variable |
| `BudgetTransactions` | the same store statement by statement, with row locks, waits, rollbacks, crashes, deadlock aborts | one process per request, reaper and administrator; `vk`, `kb`, `rv` are the committed tables, `holds` the locks, `pc` the next statement |
| `StreamPump` | `Pump`, `ChannelSemaphore`, `serveStream`, `settleStream` | one goroutine per stream; `slots` is the semaphore; `client` the other end; `heard` what the translator knows; `record` what was settled |
| `UsageBuffer` | `Buffer` and the end of `run` in `main.go` | `queue`, `batch`, `run` (where Run is), `add` (where each Add is), `main` (the shutdown), `table` |
| `PriceTable` | `table.go`, `kinds.go`, `yaml.go`, `guard.go`, `estimate.go`: operators | `LoadFS`, `NewTable`, `Resolve`, `Cost`, `Estimate` |
| `UsageMeters` | `normalise.go` and the stream meters: operators | `Normalise`, `Metered`, `StreamMetered` |
| `Pricing` | the snapshot under running requests | `table`, `now`, `req`; `Quote`, `Complete`, `SettleStream`, `ReloadFS`, `Tick` |
| `Translation` | router, request and response translation, `FrameReader`, both stream translators, the assembling client | `sent`, `wire` (lines unread), `translator`, `view` (what the client has assembled, and whether it `lost` a chunk); `Send`, `ReadFrame`, `End`, and the faults `Garble`, `EndEarly`, `Break` |
| `UsageStore` | `usage_records`, retention, the two usage queries | `records`; operators and partial actions that `Gateway` composes |
| `Gateway` | ServeHTTP around ledger and records, administrator, reaper, retention, Reconcile | `Ledger == INSTANCE BudgetLedger` and `UsageStore` in one state, plus `req`, `revoked`; one action per statement of the handler |
| `Lifecycle` | `run` of `main.go`, `LoadFrom`, the migration lock, readiness, the waits of a request | `phase`, `lock`, `version`, `orphan` (a COMMIT that outlived its process), `routed`, `req`; boot, shutdown, crash, failure of the listener, probe, the waits of a request from reserve to settle, reap, tick |
| `SumTheorems`, and `BudgetLedgerProofs`, `BudgetTransactionsProofs`, `GatewayProofs`, `StreamPumpProofs`, `PricingProofs`, `TranslationProofs` | proofs about sums, and about the module of the same name | |
| `ProcessProofs` | proofs about `Lifecycle` and `UsageBuffer`, the life of one process | the buffer's definitions carry its name (`BufferSpec`, `BufferTypeOK`) so that the two stand side by side |
| `MC*` | instances for TLC: symmetry sets, overdue initial states, price files, messages, environments | |

`BudgetTransactions` implements `BudgetLedger` under the mapping at its end
(`Ledger == INSTANCE BudgetLedger WITH ...`): the committed tables are the
ledger's state, `due` is `expires_at < now()`, the month is a quotient of the
clock.

`Gateway` composes `BudgetLedger`, one step per transaction, with `UsageStore`. It
writes records synchronously, as the handler that `main` serves does: `main` sets
`proxyOpts.Usage` after `proxy.New` has copied the options. `UsageBuffer` models the
buffer for a handler that has one. `Pricing` and `Translation` share `UsageMeters`,
so that the meter of a stream is compared with the one that prices are charged by.

Abstractions. Money is a natural number of the smallest unit of `numeric(20,10)`;
keys, reservations and records are model values (keys are numbered in
`BudgetTransactions`, where the reaper orders them, and record ids in `UsageStore`,
where the cursor does); the SQL's comparisons are kept and the rest of a row is left
out. `allowed_models IS NULL` is the set of all models. In `StreamPump` a text frame
stands for one output token and one chunk. In `Translation` a message is blocks of
numbered fragments, a body is a sequence of lines, a request field that is passed on
or refused is a member of a set, and at most one fault hits a stream. A price file
is a record of what `yaml.go` reads from it; a price row has its position as an id,
so that two equal lines stay two rows. In `Gateway` a price is what it comes out at.
In `Lifecycle` a deadline is served before the next tick, and a request is its waits:
for the balance row, whose transaction's `now()` the TTL counts from; for the provider;
in a write, each with a deadline of its own, also after the upstream deadline, when the
reader's buffer, the chunks of a frame and the trailers are still to be written; for a
drain slot; and in the settle. What comes before the reserve and after the settle needs
no reservation and takes no time there. A hard crash of the gateway
is modelled for the ledger, the gateway and the lifecycle, not for the buffer, whose
loss in a crash the design accepts.

Postgres, the providers' protocols, the client and the clock are external: they are
modelled from what the code relies on. `BudgetTransactions` says at its head what it
assumes of READ COMMITTED: a row is found in the statement's snapshot, the UPDATE
waits for its lock and evaluates the predicate again on the committed version of the
row it updates, while the joined `virtual_keys` row keeps the snapshot's version. A
foreign key takes KEY SHARE on the row it refers to, which conflicts with FOR UPDATE
only.

## 3. Runs

Times are for two workers.

| Run | Instance | Shows |
|---|---|---|
| `ledger` | 2 keys, 3 reservations, amounts 1 and 3, limit 3 or none, 2 months; 1.1 M states, 2 min | `BalanceMatchesLog`, `SpendWithinCeiling`, `WindowNeverGoesBack` |
| `transactions` | 2 requests, 1 reaper, 1 failure, TTL 1, month boundary; 150 k states | `ImplementsLedger` |
| `key_admin` | 1 request, 1 reaper, 1 administrator, 1 failure, fairness; 130 k states, 40 s | `ImplementsLedger` with limits moving, `RevocationIsImmediate`, `PendingCloses` |
| `sweeps` | 4 overdue reservations on 2 keys, 2 reapers with batches of 2; 150 k states | `NoDeadlockWithoutUpdate` |
| `stream_accounts` | 1 stream, each dialect, up to 4 text frames | `MeasurementIsExact`, `CleanMeansComplete` |
| `streams_settle` | 2 streams, 1 slot, fairness; 800 k states, 2.5 min | `SlotsHeldByDrains`, `StreamsSettle` |
| `usage_buffer` | 4 records, capacity 2, batch 2, 2 writes that fail or lose their answer, fairness; 520 k states, 100 s | `AcceptedIsHeld`, `CleanShutdownKeepsAll`, `AcceptedIsWritten` |
| `pricing` | 1 request, 3 providers, threshold at 4 tokens, 18 price directories, 3 instants; 59 k states, 40 s | `UniqueRate`, `NoSwallowedError`, `EveryTokenOnce`, `ReservationHolds` |
| `translation` | both translating adapters, 14 requests, messages of up to 2 blocks of up to 2 fragments, 1 fault; 135 k states, 20 s | `StreamIsTheResponse`, `ToolCallsWellFormed`, `StreamMeterAgrees`, `LimitsReachTheProvider`, `FramingKeepsEvents` |
| `gateway` | 1 key, 2 requests, 2 faults, 3 months, retention of 1; 1.1 M states, 100 s | `CleanReportIsTrue`, `NoFalseAlarm`, `UnpricedOnlyUnlimited`, `PagesPartition` |
| `lifecycle` | 2 replicas, 1 request, 6 environments, 2 migrations, 1 signal, crash or failure of a listener, fairness; 540 k states, 2.5 min | `MigrationReadHolds`, `ReservationOutlivesRequest`, `ShutdownIsGraceful`, `Recovers` |
| `partial_output` | 1 stream, up to 2 text frames | what a comment says and the code does not do, see section 6 |

What the newer properties say, in the terms of the code:

- `UniqueRate`: `checkOverlaps` compares the ends of half-open ranges, `pick` selects
  by membership. For every table that loads, the two agree, so that the price cannot
  depend on the order of the files. A range that reaches `math.MaxInt64` tokens is the
  one exception, where `rangesOverlap` excludes what `Covers` includes.
- `ReservationHolds`: on a card on which longer prompts are never cheaper and no kind
  of input dearer than plain input, an answer whose prompt stays within the guard
  factor of the estimate costs at most that factor more than was reserved, across a
  context threshold and across a reload. The condition on the card is needed: cache
  writes may be dearer than the plain input that is reserved for.
- `StreamIsTheResponse` compares the stream a client assembled with the same answer
  translated in one piece, `StreamMeterAgrees` their meters, at the end and on the way.
- `ToolCallsWellFormed` holds at every moment of a stream that was garbled or cut, of
  a client that has not `lost` a chunk: a frame beyond the cap goes out without its
  blank line, and the chunk after it, perhaps the announcement of a call, is read as
  part of it.
- `CleanReportIsTrue`: when all three checks of Reconcile find nothing, the records
  and the ledger agree request by request and `GET /v1/usage` reports what was
  charged, however many settles and records failed. `NoFalseAlarm` is the converse for
  a history in which nothing failed, no upstream call was refused and nothing pruned.
- `AcceptedIsWritten`: while the gateway serves, an accepted record reaches the table,
  unless Run is left with a batch that is there already, for good (section 6).
- `MigrationReadHolds`: what goose read is so when it acts on it, but for the one
  migration of a COMMIT that outlived the process that sent it. The lock and goose have
  separate sessions, so the lock may be free while that COMMIT is under way.
- `ReservationOutlivesRequest` states what the validation in `config.go` buys, and
  names what it leaves out: a key with a longer drain timeout of its own, and the time
  spent waiting for the balance row, in writes begun or going on after the upstream
  deadline, and in the settle. `extra` counts that time; the reservation of a running
  request expires only if it exceeds the margin of the TTL, which it can (section 6).
- `Recovers`: once signals and crashes cease, every replica serves and no reservation
  stays pending.

Bounds. In the ledger three reservations are enough for two to be open while a
third settles late, two keys for a sweep that spans keys, two months for one
rotation; limit 3 with amounts 1 and 3 gives requests that fit alone and not
together, that overshoot, and that fit exactly. In `transactions` two
requests and a reaper, in `key_admin` a request, a reaper and an administrator are
the fewest that give every pair of conflicting transactions and every cycle of waits
of the code; `sweeps` adds the second reaper,
on initial states that the ordinary specification reaches after all requests have
reserved. Two streams and one slot are the smallest contention for the semaphore.
Four records overflow a queue of two while a batch is being retried. `MaxNow`,
`MaxMonth`, `MaxText` and `MaxFailures` bound the clock, the length of a stream and
the failures; `BeginReserve` keeps `TTL` ticks of the clock in reserve, so that
every reservation can expire. The price directories hold one file for every reason a
load is refused and pairs of rows that meet, or overlap by one token or one instant.
Two blocks of two fragments give every order of text, thinking and tool calls; one
fault is enough to lose any one line, and `MaxFrameBytes` is a flag on a line. Two
requests on one key and two faults let one request lose its settle and the other its
record in the same window, which is what the sums alone would not see; pages of one
row over two records give ties, cursors of pruned rows and a last page. In the
lifecycle one stop meets a replica at every point of boot and shutdown and a request in
each of its waits: a replica dies or is stopped with the lock and half of the
migrations, and the other takes over. `MaxReserve` bounds the wait
for the balance row and `MaxLate` the writes begun after the upstream deadline, neither
of which the code bounds; one of each is enough to exceed a TTL without a margin, and
the theorem holds for all bounds. Timeouts are the smallest numbers that keep their order. Symmetry is used only in
runs without liveness. Everywhere but in `lifecycle` the system may stop (all
requests done, the clock at its bound, the process gone), hence `CHECK_DEADLOCK
FALSE`; replicas that are restarted never do, and deadlock is checked there.

Fairness. `BudgetTransactions`: a started transaction runs on (every step runs under
a context with a timeout), Postgres breaks deadlocks, the reaper's loop sweeps for
ever (`reaper.go` 75-94), the clock ticks. No fairness is assumed of clients,
upstream calls, `BeginSettle` or failures. `StreamPump`: the goroutine runs, the
write deadline fires (`pump.go` 270-278) and a silent upstream ends in a read error,
because its context carries the provider timeout (`stream_handler.go` 33).
`UsageBuffer`: the goroutine of Run and the callers of Add run; at most
`MaxFailures` writes fail or lose their answer, which is the assumption that the outage
ends; nothing
obliges the gateway to shut down. `Lifecycle`: a process that runs makes progress and
is started again by its supervisor, a reserve gets its row sooner or later (every other
transaction on it has a timeout or dies with its client), the other waits of a request
end by their deadlines, Postgres ends what has lost its client, reaper, prober and clock
go on; taking the advisory lock is strongly fair, because Postgres serves
those who wait for a lock in turn. Signals and crashes are never obliged to happen,
and `MaxStops` bounds them.

Every property has a mutant, a change of one mapped definition that a plausible bug
would make, under which TLC finds the property violated; mutants stand beside the
definitions they change.

## 4. Proofs

Proved by TLAPS for all values of the constants that satisfy the assumptions named
in the modules. Those are:

- ledger, transactions and gateway: finitely many reservations, natural amounts and
  limits; a process is a request, a reaper or an administrator, one of them only;
- buffer and pump: positive capacity, batch size and number of drain slots, the three
  dialects the adapters speak;
- lifecycle: durations are integers, with natural defaults and, by the CHECK constraint
  on the column, natural drain timeouts of keys; the load balancer probes more often
  than the drain delay lasts, which is what the delay is for;
- pricing: bounds, instants and rates of price rows are integers (or a rate that is no
  decimal), a usage block holds integers of any sign, Anthropic states the sum where it
  splits its cache writes, and a request body is far smaller than what an `int64` counts;
- translation: requests are those that are routed to a translating adapter; a message is
  a sequence of blocks of rising fragments with a reason for its end, and its usage block
  holds integers, natural ones where Anthropic splits its cache writes and where Gemini
  restates the candidates on every chunk.

Everything else is arbitrary: the number of keys, requests, replicas, reapers, records,
rows, months, blocks, fragments and failures among them. Every inductive invariant below
but `StreamInv` is stated in the component's module and was checked by TLC on the run's
instance before it was proved; `StreamInv` quantifies over all natural positions of a
stream and stands beside its proof.

`BudgetLedgerProofs`: `LedgerInv` is inductive, and gives `TypeCorrectness` (the
CHECK constraints of `key_budgets` never fire), `NoBalanceDrift`, `HardStop` and
`WindowMonotone`. `BalanceMatchesLog` alone is not inductive: a rotation zeroes
`spent` and has to find no settled row in the new window, which is what
`LogWithinWindow` adds (no row belongs to a window later than its key's). Reserving,
settling and sweeping change sums over sets of rows; `SumTheorems` proves what
`Total` does when a row is added, removed or changed and when a batch is taken out,
from the cardinality theorems of the library.

`BudgetTransactionsProofs`: `TransactionInv` says that row locks are exclusive and, for
each program counter, which locks the process owns and what it read under them that
still holds: a request about to commit a reserve owns its balance row, a settle its
reservation row, a sweep every reservation it claimed and every balance but those it
has yet to lock. From it every commit is one step of `BudgetLedger` on the committed
tables and every other statement is none (`TransactionsImplementLedger`), with the
rollback, the crash and the deadlock abort among the steps that change nothing. The
ledger's theorems then hold of the statements as well (`BalanceAmongTransactions`,
`TransactionTypes`), through an instance of `BudgetLedgerProofs`.
`Revocation` follows from what a reserve read of the key and when its
transaction began. `NoDeadlock` rests on `LockOrder`: a request that holds a balance waits
for nothing but the key row, which only UpdateKey locks against it, and a sweep waits for
balances in rising order. In a circle of waiting processes without UpdateKey someone
waits for the balance of the greatest key; its owner waits for a greater one.

`GatewayProofs`: every step of the gateway is a step of the ledger or leaves it alone
(`GatewayKeepsLedger`), so that its theorems are available here. `GatewayInv` adds what
a handler at each label has done: whether its reservation exists, what its record will
cost, to which reservation each record belongs, and, as long as nothing failed, that
settled and recorded are the same. `NoFalseAlarms` and `CleanReports` compare sums over
two tables; the proof maps records to the reservations they name, one to one. Where
records without a reservation remain, equal totals leave nothing for them to cost.
`UnpricedNeverLimited` needs that a limit, once seen, was there at the check.
`PagesCover` ranks the rows in the order of the listing, time and then id: a page is the
rows up to a rank and its cursor leaves those beyond it.

`StreamPumpProofs`: `SlotInv` says that a stream with a slot, or waiting for one, has
no writer left, so that it cannot leave the drain without giving the slot back; it gives
`SlotsReturned`. `AccountInv` relates
what the translator was told, what it kept and what arrived, at each label of the pump
and for each dialect; it gives `MeasurementsExact` and `CleanStreamsComplete`, wherever
the stream was cut, garbled or left.

`PricingProofs`: `OneRatePerToken`. The invariant is `TableSound`: the table in force
came out of `LoadFS`, hence passed `checkOverlaps`, and its rows have numbers for
bounds. Two rows of one model that cover a common instant and a common number of
tokens overlap in both ranges, which `checkOverlaps` refused; a reload that fails
leaves the table alone. `PricingInv` adds that a quote keeps a sound table and what that
table estimated, and that a charge is the cost of what the meter made of a usage block.
`NoFreeAnswers` and `TokensBilledOnce` are then about the meters, provider by provider.
`GuardHolds` goes from tokens to money: between the guarded estimate and the prompt that
came no rate changes to a dearer row than the one reserved at, each kind of input costs at
most the input rate, the output at most what was reserved, and the factor the prompt is
off by carries over to the sum. It needs the unique row of `OneRatePerToken`.

`ProcessProofs`, the replicas: `MigrationsSerialised` needs `MigrationInv`, which adds that a
replica past the lock and before serving holds it, so that nobody else can move the
version it has read, and that a COMMIT on its own is always that of the next migration,
which nobody passes (`OrphanIsNext`). `TTLCoversRequest` needs `ReservationInv`, which
bounds the age of a request wait by wait (`InTime`): the provider timeout, the time
counted in `extra`, and the drain timeout once the client has gone (`Drained`); while
the upstream deadline is running, what is left of it and the age stay within provider
timeout and `extra`. `extra` has no bound in the invariant: the argument is that every
tick is one of the deadline's, one of the slot's or one that `extra` counts. With what
`LoadFrom` validated (`ConfigSound`) an expired reservation then needs one of the
causes the property names. `GracefulShutdown` needs `ShutdownInv`: a draining replica that is still
routed to has not been asked since it began to drain (`StillRouted`), so that its timer
and the time since the last probe make up the delay, and a request on a replica that
shuts down is at least as old as the timer has run (`Hosted`).

`ProcessProofs`, the buffer: `BufferInv` adds to `AcceptedIsHeld` that a batch is below its
size whenever Run takes a record, who may be calling flush, and that after a
shutdown in time no request is in flight, so that a channel once found empty stays
empty. It gives `BufferTypeCorrectness`, `AcceptedRecordsHeld` and `CleanShutdown`,
for writes that land, fail or lose their answer.

`TranslationProofs`: `LimitsAreSent` goes through the fields of the translated request,
adapter by adapter. The rest is about streams, and rests on `StreamInv`: at every moment
some `k` events lie behind the reader and at most one line of the frame of the last one
ahead, and then

- `Left`: the unread lines are those of the events after `k`, some of them garbled and
  the end perhaps cut off;
- `Budget`: the garbled lines still unread and the parse errors so far come to at most
  two for each fault;
- `State`: translator and client hold what `k` events amount to. Without an error that
  is everything: the text, the calls, the reason and the counts are those of the first
  `k` events. After one it is what survives: indexes of announced calls are dense, each
  call's arguments are fragments of its own block in rising order, and each event that
  carries counts was counted in full or not at all.

The properties are not inductive without it: that the last delta goes to the right call
depends on which announcements were read, and that the stream adds up to the response on
how the events of a block follow each other (`AnthropicEvents` is a flattened sequence
of sequences, and a lemma for each kind of event says what stands at position `k + 1`).
`StreamIsResponse` takes `State` at the last event and computes, by induction over the
blocks, that the text and the calls of all events are those `AnthropicResponse` and
`GoogleResponse` collect from the blocks; `StreamIsMetered` sums the counts kind by kind.
`FramingKeeps` is an action property: a step of the reader moves the events of whole
lines from the wire to `translated`, in order, and every other step but a fault moves
none. Induction over lengths is written with the set of the numbers that have a property
(`Induct`, from the library's `WFMin`), and `FlattenSeq` is characterised once by its
partial results, so that no induction theorem with an operator as parameter is needed.

Only model-checked: liveness (`PendingCloses`, `StreamsSettle`, `AcceptedIsWritten`,
`Recovers`), which is out of the prover's reach. That `Total` is the sum is checked by
TLC on small functions (`TotalIsTheSum`); what is proved of it rests on the library's
theorems about cardinality.

## 5. Not modelled

- HTTP itself: headers, bodies, error envelopes, decoding of API requests. The OpenAI
  adapter forwards bodies as they come; of it only routing and the meter are modelled.
- Metrics, redaction and logging, which nothing reads back.
- `request_payloads`, `label`, `metadata` and `BudgetStatusFor`: data no property
  reads. An UpdateKey that only writes such columns takes the same locks as one that
  changes nothing, which is in the model.
- Generation and comparison of keys; of `auth` only the scope of queries is modelled.
- Configuration other than timeouts, credentials and migration at boot.
- The content of the migrations, which is the state of the other modules.
- Tools for tests and price maintenance.
- A listener that fails while the replica already drains: nothing reads the error then,
  and the sequence goes on. Loops other than those of the modules stop with the process.
- Reconciliation over a database that moves: its three checks are three statements
  with three snapshots, and a busy gateway shows a request between settle and record.

## 6. What disagrees with its documentation

`partial_output` ends in a violation of what the repository says of itself: an
Anthropic stream cut before `message_delta` is settled with an output of 0, since the
fallback to the chunks that passed is unreachable (`anthropic.go` 453,
`stream_handler.go` 149 and 179). `StreamMetered` in `UsageMeters` meters it so.

Two more are the exceptions that properties name, and TLC reaches both:

- `ReservationOutlivesRequest`. "A reservation must outlive the request that owns it"
  (`config.go` 190), and with the default timeouts it need not: two writes of 30 s after
  the upstream deadline use up the margin of 60 s, and with a wait of 60 s for a drain
  slot and a slow settle the request outlasts its TTL of 420 s. The reaper expires it, and
  the settle lands late, which the ledger accounts for (`BalanceMatchesLog`) while others
  may have been granted the budget meanwhile. A key's own `drain_timeout_ms`, which may
  exceed the configured one, has the same effect without any slow write.
- `AcceptedIsWritten`. A batch whose COPY landed while the answer was lost is retried for
  ever against its own primary keys (`usage.go` 36, `buffer.go` 193-227), and records
  accepted behind it sit in the queue while the gateway serves, though the interval is to
  keep them "from sitting indefinitely" (`buffer.go` 36-38). A shutdown ends it: the
  batch is reported lost, though it is in the table, and the queue is drained.

Noticed while modelling, in the models where they are visible, and not stated as
runs:

- Budget. The design (lines 425 and 433) says that overshoot is at most one request
  and does not accumulate; requests reserved together overshoot together, and
  `SpendWithinCeiling` is what holds. A refusal may report a balance with room, since
  `diagnoseReserve` reads after the refusal (`budget.go` 31 and 108).
- Streams. A drain entered through a failed write takes no slot (`pump.go` 28 and 194)
  and its usage is labelled `tokenizer`; `DrainTimedOut` is never set, and the drain
  timeout bounds only the wait for a slot.
- Buffer. `main` wires no buffer into the handler it serves (`main.go` 143). Close and
  Shutdown share one deadline.
- Lifecycle. With the defaults ShutdownTimeout is a tenth of the
  provider timeout, so "until the last request has settled" (`main.go` 223) holds up to
  that timeout.
- Pricing and metering. A usage block that cannot be read, and a served model without
  a price, settle at 0 on a key with a budget. Names that only expired rows or aliases
  know are routable and not priceable; the guard looks thresholds up under the name
  it is given, and the cost resolves that name once more. The router's mapping is
  installed once, though `router.go` 16 says it is rebuilt when prices reload. A stream
  is charged by the table of the moment it settles, an answer in one piece by that of
  its quote. The Anthropic stream files all cache writes
  under the five-minute class. A negative flat total of cache writes without a
  breakdown is read as none and not marked degraded (`normalise.go` 197), unlike every
  other negative count.
- Translation. A `provider/model` name goes to Anthropic with its prefix, so that a
  thinking level for it is refused; Google keeps only the last system message and its
  answer in one piece drops tool calls; `tool_choice`, `max_completion_tokens`, and for Google `tools` and
  `response_format`, are dropped in silence; only Anthropic is given a ceiling when the
  client set none. A frame beyond the cap goes out without its blank line, and the
  client reads the next chunk as part of it; a stream that breaks inside a frame glues
  the error event to the partial line (`stream_handler.go` 271).
- Reconciliation counts upstream calls that failed as settled without a record
  (`reconcile.go` 31), and retention makes its second and third check report.
- The default range of a listing ends at the time of the request, so that a client
  that sends no range moves it from page to page.

## 7. Where the project stands

Modelled and checked are the ledger and its transactions, streams, buffer, pricing,
translation, the gateway around them and the lifecycle. Every invariant and every action
property of a passing run is stated by a theorem, and so is the refinement of the ledger
by its transactions; liveness is model-checked. Further work would be on the model
rather than the proofs: reconciliation over a database that moves, a usage buffer wired
into the gateway once `main` does so, and the OpenAI adapter beyond routing and meter.
