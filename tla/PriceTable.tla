------------------------------ MODULE PriceTable ------------------------------
(***************************************************************************)
(* The price list of internal/pricing: how a directory of price files      *)
(* becomes a validated table, how a model name resolves, what a request    *)
(* costs and what is reserved for it.                                      *)
(*                                                                         *)
(* Rates and amounts are natural numbers of one small unit: the code's     *)
(* decimals are exact, and its division by a million is a change of unit.  *)
(* An instant is a positive number and 0 is time.Time{}, the zero instant. *)
(* A row carries its position (id) in the files, so that a rate that is    *)
(* written twice is two rows, and a table is a set of rows and a set of    *)
(* aliases; the order of a Go slice is the order of the ids.               *)
(***************************************************************************)
EXTENDS Sums

CONSTANTS
    NotDecimal,         \* a usd_per_mtok that decimal.NewFromString rejects
    NoTable,            \* the nil *Table of a load that failed
    MaxInt,             \* the largest int64
    GuardNum, GuardDen, \* the guard factor of a reservation, as a fraction
    DefaultMaxTokens    \* the output that is reserved when the client set none

ASSUME MaxIntAssumption == MaxInt \in Nat \ {0}
ASSUME GuardAssumption ==
    /\ GuardNum \in Nat \ {0} /\ GuardDen \in Nat \ {0} /\ GuardNum =< GuardDen
ASSUME DefaultAssumption == DefaultMaxTokens \in Nat \ {0}

-------------------------------------------------------------------------------
(* kinds.go: billing classes and service tiers. *)
AllKinds == {"input", "output", "cached_read", "cache_write_5m",
             "cache_write_1h", "reasoning", "audio_input", "audio_output"}
AllTiers == {"standard", "flex", "priority", "fast", "batch", "geo_us"}

(* A breakdown of a kind that is already charged is not charged again. *)
Billable(kind) == kind # "reasoning"

CountsTowardInputTier(kind) ==
    kind \in {"input", "cached_read", "cache_write_5m", "cache_write_1h",
              "audio_input"}

-------------------------------------------------------------------------------
(* table.go: where a row and an alias apply. *)
Within(at, from, until) == at >= from /\ (until = 0 \/ at < until)

RowCovers(r, at, inputTokens) ==
    /\ Within(at, r.from, r.until)
    /\ inputTokens >= r.tierFrom
    /\ r.tierTo = 0 \/ inputTokens < r.tierTo

AliasCovers(a, at) == Within(at, a.from, a.until)

validateRow(r) ==
    /\ r.model # "" /\ r.provider # ""
    /\ r.kind \in AllKinds /\ r.tier \in AllTiers
    /\ r.rate >= 0
    /\ r.from # 0 /\ (r.until # 0 => r.until > r.from)
    /\ r.tierFrom >= 0 /\ (r.tierTo # 0 => r.tierTo > r.tierFrom)

validateAlias(a) ==
    /\ a.alias # "" /\ a.canonical # "" /\ a.provider # ""
    /\ a.from # 0 /\ (a.until # 0 => a.until > a.from)

(* A tier bound of 0 stands for the largest int64. *)
UpTo(bound) == IF bound = 0 THEN MaxInt ELSE bound

(* Mutant of rangesOverlap: an open upper bound is not widened. *)
rangesOverlapLoose(aFrom, aTo, bFrom, bTo) == aFrom < bTo /\ bFrom < aTo

rangesOverlap(aFrom, aTo, bFrom, bTo) ==
    aFrom < UpTo(bTo) /\ bFrom < UpTo(aTo)

periodsOverlap(aFrom, aUntil, bFrom, bUntil) ==
    /\ aUntil = 0 \/ aUntil > bFrom
    /\ bUntil = 0 \/ bUntil > aFrom

SameRate(a, b) ==
    /\ a.model = b.model /\ a.provider = b.provider
    /\ a.kind = b.kind /\ a.tier = b.tier

SameAlias(a, b) == a.alias = b.alias /\ a.provider = b.provider

checkOverlaps(rows, aliases) ==
    /\ \A a, b \in rows :
          a # b /\ SameRate(a, b) =>
             ~ (/\ rangesOverlap(a.tierFrom, a.tierTo, b.tierFrom, b.tierTo)
                /\ periodsOverlap(a.from, a.until, b.from, b.until))
    /\ \A a, b \in aliases :
          a # b /\ SameAlias(a, b) =>
             ~ periodsOverlap(a.from, a.until, b.from, b.until)

RowsOf(t, model, provider) ==
    {r \in t.rows : r.model = model /\ r.provider = provider}

NewTable(rows, aliases) ==
    IF /\ \A r \in rows : validateRow(r)
       /\ \A a \in aliases : validateAlias(a)
       /\ \A a \in aliases :
             \E r \in rows : r.model = a.canonical /\ r.provider = a.provider
       /\ checkOverlaps(rows, aliases)
    THEN [rows |-> rows, aliases |-> aliases]
    ELSE NoTable

-------------------------------------------------------------------------------
(* yaml.go: a directory is a set of files, a file a provider with models   *)
(* and aliases, a model a set of prices.  convert gives a price that       *)
(* states no tier or no date the defaults, and refuses a model that cannot *)
(* be traced: a row then always has a source_url, its own or its model's,  *)
(* which is why validateRow above does not ask again.                      *)
DefaultFrom == 1
FromOrDefault(from) == IF from = 0 THEN DefaultFrom ELSE from

Converts(f) ==
    \A m \in f.models :
        /\ m.model # "" /\ m.sourceURL # "" /\ m.fetchedAt # 0
        /\ \A p \in m.prices : p.rate # NotDecimal

ConvertedRow(f, m, p) ==
    [id |-> p.id, model |-> m.model, provider |-> f.provider,
     kind |-> p.kind, tier |-> IF p.tier = "" THEN "standard" ELSE p.tier,
     rate |-> p.rate, tierFrom |-> p.tierFrom, tierTo |-> p.tierTo,
     from |-> FromOrDefault(p.from), until |-> p.until]

ConvertedRows(f) == UNION {{ConvertedRow(f, m, p) : p \in m.prices} : m \in f.models}

ConvertedAliases(f) ==
    {[id |-> a.id, alias |-> a.alias, canonical |-> a.canonical,
      provider |-> f.provider, from |-> FromOrDefault(a.from), until |-> a.until]
     : a \in f.aliases}

LoadFS(files) ==
    IF /\ files # {}
       /\ \A f \in files : f.decodes /\ f.provider # "" /\ Converts(f)
    THEN NewTable(UNION {ConvertedRows(f) : f \in files},
                  UNION {ConvertedAliases(f) : f \in files})
    ELSE NoTable

-------------------------------------------------------------------------------
(* The first of a set of rows or aliases, in the order of the slice. *)
First(S) == CHOOSE r \in S : \A o \in S : r.id =< o.id

Resolve(t, model, provider, at) ==
    LET inForce == {a \in t.aliases : /\ a.alias = model /\ a.provider = provider
                                      /\ AliasCovers(a, at)}
    IN  IF inForce = {} THEN model ELSE First(inForce).canonical

InputTierTotal(counts) ==
    Total({k \in DOMAIN counts : counts[k] > 0 /\ CountsTowardInputTier(k)}, counts)

(* The rows that pick may return: the code returns the first of them. *)
Candidates(t, model, provider, kind, tier, at, inputTokens) ==
    {r \in RowsOf(t, model, provider) :
        r.kind = kind /\ r.tier = tier /\ RowCovers(r, at, inputTokens)}

(* The result of Cost.  A negative count is an error; a model of which no  *)
(* kind has a rate is unpriced; one with some kinds priced is charged for  *)
(* those.                                                                  *)
Priced(cost, partially) ==
    [cost |-> cost, unpriced |-> FALSE, partially |-> partially, err |-> FALSE]
UnknownPrice ==
    [cost |-> 0, unpriced |-> TRUE, partially |-> FALSE, err |-> FALSE]
CostError ==
    [cost |-> 0, unpriced |-> FALSE, partially |-> FALSE, err |-> TRUE]

Cost(t, model, provider, tier, at, counts) ==
    LET canonical  == Resolve(t, model, provider, at)
        inputTotal == InputTierTotal(counts)
        charged    == {k \in DOMAIN counts : counts[k] # 0 /\ Billable(k)}
        rates(k)   == Candidates(t, canonical, provider, k, tier, at, inputTotal)
        priced     == {k \in charged : rates(k) # {}}
    IN  IF RowsOf(t, canonical, provider) = {} THEN UnknownPrice
        ELSE IF \E k \in charged : counts[k] < 0 THEN CostError
        ELSE IF priced = {} /\ charged # {} THEN UnknownPrice
        ELSE Priced(Total(priced, [k \in priced |-> counts[k] * First(rates(k)).rate]),
                    priced # charged)

(* router.go: which provider serves a model. *)
ModelProviders(t) ==
    {<<r.model, r.provider>> : r \in t.rows}
      \cup {<<a.alias, a.provider>> : a \in t.aliases}

-------------------------------------------------------------------------------
(* guard.go and estimate.go: what is reserved before the request runs. *)
Thresholds(t, model, provider, tier) ==
    {r.tierFrom : r \in {q \in RowsOf(t, model, provider) :
                            q.tier = tier /\ q.tierFrom > 0}}

(* Mutant of GuardedTierTotal: an estimate exactly on the guard is let off. *)
GuardedTierTotalStrict(estimate, thresholds) ==
    LET near == {th \in thresholds : estimate < th /\ GuardDen * estimate > GuardNum * th}
    IN  CHOOSE n \in near \cup {estimate} : \A m \in near \cup {estimate} : m =< n

(* An estimate within the guard factor of a threshold it has not reached is *)
(* treated as having reached it.                                            *)
GuardedTierTotal(estimate, thresholds) ==
    LET near == {th \in thresholds :
                    /\ th > 0 /\ estimate < th
                    /\ GuardDen * estimate >= GuardNum * th}
    IN  CHOOSE n \in near \cup {estimate} : \A m \in near \cup {estimate} : m =< n

CharsPerToken == 4
EstimateInputTokens(promptBytes) ==
    IF promptBytes =< 0 THEN 0 ELSE (promptBytes \div CharsPerToken) + 1

ReservedOutput(maxTokens) == IF maxTokens =< 0 THEN DefaultMaxTokens ELSE maxTokens

Estimate(t, model, provider, tier, at, promptBytes, maxTokens) ==
    LET guarded == GuardedTierTotal(EstimateInputTokens(promptBytes),
                                    Thresholds(t, model, provider, tier))
    IN  Cost(t, model, provider, tier, at,
             [k \in {"input", "output"} |->
                 IF k = "input" THEN guarded ELSE ReservedOutput(maxTokens)])

===============================================================================
