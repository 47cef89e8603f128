------------------------------- MODULE Pricing --------------------------------
(***************************************************************************)
(* Pricing while the gateway runs: requests are quoted against the table   *)
(* in force and charged when the provider has answered, while an operator  *)
(* reloads the price files and time moves rows in and out of force.        *)
(*                                                                         *)
(* A request that is answered in one piece keeps the table and the instant *)
(* of its quote (ServeHTTP); a stream is charged with the table and the    *)
(* clock of the moment it settles (settleStream).                          *)
(***************************************************************************)
EXTENDS UsageMeters

CONSTANTS
    Requests,       \* request identifiers
    Providers,      \* the configured providers
    Models,         \* the model names clients ask for and providers answer with
    Seed,           \* the price files at startup
    Directories,    \* what the price files may hold at a reload
    PromptSizes,    \* bytes of a request body
    Ceilings,       \* max_tokens of a request, 0 for none
    Usages(_),      \* the usage blocks a provider may report
    ChunkCounts,    \* the chunks a stream without usage may have had
    MaxTime         \* bound on the clock

ASSUME SeedAssumption == LoadFS(Seed) # NoTable
(* yaml.go decodes bounds into int64 and dates into time.Time; ids number  *)
(* the rows and the aliases of a directory.                                *)
ASSUME DirectoriesAssumption ==
    \A files \in Directories \cup {Seed} : \A f \in files :
        /\ \A m \in f.models : \A p \in m.prices :
              /\ {p.id, p.tierFrom, p.tierTo, p.from, p.until} \subseteq Int
              /\ p.rate \in Int \cup {NotDecimal}
        /\ \A a \in f.aliases : {a.from, a.until} \subseteq Int
(* A body is read under a cap, far below what an int64 counts. *)
ASSUME PromptsAssumption ==
    /\ PromptSizes \subseteq Nat /\ Ceilings \subseteq Int
    /\ \A bytes \in PromptSizes :
          GuardDen * EstimateInputTokens(bytes) =< GuardNum * (MaxInt - 1)
ASSUME UsagesAssumption ==
    /\ Providers \subseteq {"openai", "anthropic", "google"}
    /\ \A p \in Providers : Usages(p) \subseteq UsageBlocks(p)
    /\ ChunkCounts \subseteq Nat
ASSUME MaxTimeAssumption == MaxTime \in Nat \ {0}

VARIABLES
    table,  \* Snapshot.current
    now,    \* the clock
    req     \* per request, the handler's local state

vars == <<table, now, req>>

Idle == [state |-> "idle"]

Init ==
    /\ table = LoadFS(Seed)
    /\ now = 1
    /\ req = [r \in Requests |-> Idle]

-------------------------------------------------------------------------------
(* Router.Route: an explicit provider is taken at its word; a bare name    *)
(* goes where the table of the start said, since main installs the mapping *)
(* once.                                                                   *)
Route(model, named) ==
    IF named # "" THEN {named} \cap Providers
    ELSE {p \in Providers : <<model, p>> \in ModelProviders(LoadFS(Seed))}

(* ServeHTTP up to the reservation: resolve, estimate, and refuse what has *)
(* no price when the key has a budget.                                     *)
Quote(r, model, named, promptBytes, maxTokens, stream, budgeted) ==
    /\ req[r].state = "idle"
    /\ \E p \in Route(model, named) :
          LET canonical == Resolve(table, model, p, now)
              estimate  == Estimate(table, canonical, p, "standard", now,
                                    promptBytes, maxTokens)
          IN  /\ ~ (estimate.unpriced /\ budgeted)
              /\ req' = [req EXCEPT ![r] =
                    [state |-> "reserved", table |-> table, at |-> now,
                     provider |-> p, canonical |-> canonical, stream |-> stream,
                     promptBytes |-> promptBytes, maxTokens |-> maxTokens,
                     estimate |-> estimate]]
    /\ UNCHANGED <<table, now>>

(* The charge of one answer, once the response is in: handler.cost with    *)
(* what the provider says it served.                                       *)
Charged(r, served, counts, usage, result) ==
    req' = [req EXCEPT ![r] =
              [state |-> "settled", quote |-> req[r], served |-> served,
               counts |-> counts, usage |-> usage, result |-> result]]

(* An answer that names no model is charged as the one that was asked for. *)
ServedOr(served, canonical) == IF served = "" THEN canonical ELSE served

Complete(r, served, u) ==
    /\ req[r].state = "reserved" /\ ~ req[r].stream
    /\ LET q == req[r]
           model  == ServedOr(served, q.canonical)
           counts == Metered(q.provider, u).counts
       IN  Charged(r, model, counts, u,
                   Cost(q.table, model, q.provider, "standard", q.at, counts))
    /\ UNCHANGED <<table, now>>

(* No adapter says which model a stream was served by. *)
SettleStream(r, u, chunks) ==
    /\ req[r].state = "reserved" /\ req[r].stream
    /\ LET q == req[r]
           counts == StreamMetered(q.provider, u, chunks)
       IN  Charged(r, q.canonical, counts, u,
                   Cost(table, q.canonical, q.provider, "standard", now, counts))
    /\ UNCHANGED <<table, now>>

(* Mutant of ReloadFS: a failed load is swapped in. *)
ReloadBlind(files) == table' = LoadFS(files) /\ UNCHANGED <<now, req>>

(* Snapshot.ReloadFS: a directory that does not load leaves the table. *)
ReloadFS(files) ==
    /\ table' = IF LoadFS(files) = NoTable THEN table ELSE LoadFS(files)
    /\ UNCHANGED <<now, req>>

Tick == now < MaxTime /\ now' = now + 1 /\ UNCHANGED <<table, req>>

Next ==
    \/ \E r \in Requests, model \in Models, named \in Providers \cup {""},
          bytes \in PromptSizes, max \in Ceilings, stream, budgeted \in BOOLEAN :
             Quote(r, model, named, bytes, max, stream, budgeted)
    \/ \E r \in Requests :
          req[r].state = "reserved" /\
             \E u \in Usages(req[r].provider) \cup {NoUsage} :
                \/ \E served \in Models \cup {""} : Complete(r, served, u)
                \/ \E chunks \in ChunkCounts : SettleStream(r, u, chunks)
    \/ \E files \in Directories : ReloadFS(files)
    \/ Tick

Spec == Init /\ [][Next]_vars

-------------------------------------------------------------------------------
Settled == {r \in Requests : req[r].state = "settled"}

(* The shape of the state: a table is always in force, and a request is    *)
(* idle, reserved or settled.                                              *)
TypeOK ==
    /\ table # NoTable
    /\ now \in 1 .. MaxTime
    /\ \A r \in Requests : req[r].state \in {"idle", "reserved", "settled"}

(* Whatever files an operator loads, the table in force gives every kind   *)
(* of token at most one rate, at every instant and for every size of       *)
(* prompt, and every name at most one meaning: what a request costs cannot *)
(* depend on the order of the files.  NewTable refuses by comparing the    *)
(* ends of ranges, pick selects by membership, and the two agree because   *)
(* both read [from, to) with 0 as unbounded.  (At MaxInt itself they do    *)
(* not: rangesOverlap reads 0 as MaxInt, which it then excludes.)          *)
UniqueRate ==
    /\ \A a, b \in table.rows : \A at \in 0 .. MaxTime, n \in 0 .. MaxInt - 1 :
          SameRate(a, b) /\ RowCovers(a, at, n) /\ RowCovers(b, at, n) => a = b
    /\ \A a, b \in table.aliases : \A at \in 0 .. MaxTime :
          SameAlias(a, b) /\ AliasCovers(a, at) /\ AliasCovers(b, at) => a = b

(* Why: the table in force has passed NewTable, and its bounds are numbers. *)
Sound(t) ==
    /\ \A r \in t.rows : /\ {r.id, r.tierFrom, r.tierTo, r.from, r.until} \subseteq Int
                         /\ r.rate \in Nat
    /\ \A a \in t.aliases : {a.from, a.until} \subseteq Int
    /\ checkOverlaps(t.rows, t.aliases)

TableSound == Sound(table)

(* No answer becomes free by a pricing error.  Cost refuses a negative     *)
(* count and the handler turns the error into a charge of zero, so no      *)
(* meter, of a stream or not, may let one through.                         *)
NoSwallowedError == \A r \in Settled : ~ req[r].result.err

(* Every token the provider reported is counted in exactly one billable    *)
(* class, by the meters of all three providers and of streams: cached      *)
(* tokens are subtracted where they are part of the total, added where     *)
(* they are not, and thinking is charged once.                             *)
EveryTokenOnce ==
    \A r \in Settled :
        LET q == req[r].quote  c == req[r].counts
            billable == {k \in AllKinds : Billable(k)}
            sound == /\ req[r].usage # NoUsage
                     /\ ~ Normalise(q.provider, req[r].usage).degraded
        IN  sound => Total(billable, c) = TokensReported(q.provider, req[r].usage)

(* The rate of a kind for a prompt of n tokens, 0 when there is none. *)
RateAt(q, kind, n) ==
    LET rows == Candidates(q.table, q.canonical, q.provider, kind, "standard", q.at, n)
    IN  IF rows = {} THEN 0 ELSE First(rows).rate

(* A rate card on which a longer prompt is never cheaper, and no class of  *)
(* input dearer than plain input, for prompts below the size limit.        *)
RisingCard(q, limit) ==
    /\ \A n \in 0 .. limit : \A k \in {x \in AllKinds : CountsTowardInputTier(x)} :
          RateAt(q, k, n) =< RateAt(q, "input", n)
    /\ \A m, n \in 0 .. limit, k \in {"input", "output"} :
          m =< n => RateAt(q, k, m) =< RateAt(q, k, n)

(* The reservation holds against the cliff of a context tier.  When the    *)
(* real prompt is longer than estimated by no more than the guard factor,  *)
(* the charge exceeds the reservation by no more than that factor, on a    *)
(* rising card with the model served that was asked for, even if the       *)
(* prices were reloaded while the provider worked.                         *)
ReservationHolds ==
    \A r \in Settled :
        LET q == req[r].quote  s == req[r]
            input == InputTierTotal(s.counts)
        IN  (/\ ~ q.stream
             /\ s.served = q.canonical
             /\ Resolve(q.table, q.canonical, q.provider, q.at) = q.canonical
             /\ RisingCard(q, MaxInt - 1)
             /\ GuardNum * input =< GuardDen * EstimateInputTokens(q.promptBytes)
             /\ s.counts["output"] =< ReservedOutput(q.maxTokens))
            => GuardNum * s.result.cost =< GuardDen * q.estimate.cost

-------------------------------------------------------------------------------
(* The inductive invariant.  A reservation keeps a table that is sound and *)
(* the instant of its quote, and its estimate is what that table says; a   *)
(* charge was measured from what the provider reported, and is what the    *)
(* table of the reservation says of it unless it was a stream.             *)
QuoteInv(q) ==
    /\ q.provider \in Providers /\ Sound(q.table) /\ q.at \in 1 .. MaxTime
    /\ q.promptBytes \in PromptSizes /\ q.maxTokens \in Ceilings
    /\ q.estimate = Estimate(q.table, q.canonical, q.provider, "standard", q.at,
                             q.promptBytes, q.maxTokens)

Measured(s) ==
    \/ s.counts = Metered(s.quote.provider, s.usage).counts
    \/ \E chunks \in ChunkCounts :
          s.counts = StreamMetered(s.quote.provider, s.usage, chunks)

SettledInv(s) ==
    /\ QuoteInv(s.quote)
    /\ s.usage \in Usages(s.quote.provider) \cup {NoUsage}
    /\ Measured(s)
    /\ ~ s.result.err
    /\ ~ s.quote.stream =>
          s.result = Cost(s.quote.table, s.served, s.quote.provider, "standard",
                          s.quote.at, s.counts)

PricingInv ==
    /\ TypeOK /\ TableSound
    /\ req = [r \in Requests |-> req[r]]
    /\ \A r \in Requests : /\ req[r].state = "reserved" => QuoteInv(req[r])
                           /\ req[r].state = "settled" => SettledInv(req[r])

===============================================================================
