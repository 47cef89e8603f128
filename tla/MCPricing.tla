------------------------------- MODULE MCPricing ------------------------------
(***************************************************************************)
(* Small price lists for TLC: one model with a context threshold at 4      *)
(* tokens, an alias that moves to another model, and the mistakes an       *)
(* operator can make in a price file.                                      *)
(***************************************************************************)
EXTENDS Pricing, TLC

Price(id, kind, rate, tierFrom, tierTo, from, until) ==
    [id |-> id, kind |-> kind, tier |-> "", rate |-> rate, tierFrom |-> tierFrom,
     tierTo |-> tierTo, from |-> from, until |-> until]

(* Rates that double at the threshold, and a flat list that starts later. *)
Tiered(rate) ==
    {Price(1, "input", rate, 0, 4, 0, 0), Price(2, "input", 2 * rate, 4, 0, 0, 0),
     Price(3, "output", rate, 0, 4, 0, 0), Price(4, "output", 2 * rate, 4, 0, 0, 0),
     Price(5, "cached_read", 1, 0, 0, 0, 0)}

Flat(from, until) ==
    {Price(6, "input", 1, 0, 0, from, until), Price(7, "output", 1, 0, 0, from, until)}

Model(name, prices) ==
    [model |-> name, sourceURL |-> "url", fetchedAt |-> 1, prices |-> prices]

AliasAt(id, canonical, from, until) ==
    [id |-> id, alias |-> "latest", canonical |-> canonical, from |-> from, until |-> until]

File(provider, models, aliases) ==
    [decodes |-> TRUE, provider |-> provider, models |-> models, aliases |-> aliases]

Good(rate) ==
    File("openai", {Model("m", Tiered(rate)), Model("n", Flat(0, 3))},
         {AliasAt(1, "n", 0, 2), AliasAt(2, "m", 2, 0)})
Other(name) == File(name, {Model("m", Flat(0, 0))}, {})

MCSeed == {Good(1), Other("anthropic"), Other("google")}

(* Reloads: a price change, a rate out of force for a while, and one file  *)
(* for every reason a load is refused.                                     *)
Mistakes ==
    {{},
     {[Good(1) EXCEPT !.decodes = FALSE]},
     {[Good(1) EXCEPT !.provider = ""]},
     {File("openai", {Model("m", {Price(1, "input", NotDecimal, 0, 0, 0, 0)})}, {})},
     {File("openai", {[Model("m", Tiered(1)) EXCEPT !.sourceURL = ""]}, {})},
     {File("openai", {Model("m", {Price(1, "input", -1, 0, 0, 0, 0)})}, {})},
     {File("openai", {Model("m", {Price(1, "tokens", 1, 0, 0, 0, 0)})}, {})},
     {File("openai", {Model("m", {Price(1, "input", 1, 4, 4, 0, 0)})}, {})},
     {File("openai", {Model("m", {Price(1, "input", 1, 0, 0, 2, 2)})}, {})},
     {File("openai", {Model("m", Tiered(1))}, {AliasAt(1, "gone", 0, 0)})}}

(* Two rows that meet in size or in time, and rows and aliases that        *)
(* overlap: by one token, by one instant, or without an end.               *)
Pair(to, until, from, start) ==
    {File("openai", {Model("m", {Price(1, "input", 1, 0, to, 0, until),
                                 Price(2, "input", 2, from, 0, start, 0)})}, {})}

Pairs == {Pair(4, 3, 4, 2), Pair(5, 2, 4, 2),
          Pair(5, 3, 4, 2), Pair(0, 0, 4, 2), Pair(5, 0, 4, 3)}
    \cup
    {{File("openai", {Model("m", Tiered(1))},
           {AliasAt(1, "m", 0, until), AliasAt(2, "m", 2, 0)})} : until \in {0, 3}}

MCDirectories ==
    Mistakes \cup Pairs \cup {{Good(2)}}

(* Usage blocks, with counts that are negative, that do not add up, and    *)
(* that cross the threshold.  A block that splits its cache writes also    *)
(* states their sum.                                                       *)
MCUsages(provider) ==
    CASE provider = "openai" ->
           [promptTokens : {0, 4}, inputTokens : {3}, completionTokens : {-1, 1},
            outputTokens : {2}, reasoning : {0, 2},
            promptDetails : {NoDetails, [cached |-> 1, cacheWrite |-> 1],
                             [cached |-> 5, cacheWrite |-> 0]},
            inputDetails : {[cached |-> 2, cacheWrite |-> 0]}]
      [] provider = "anthropic" ->
           [inputTokens : {-1, 2}, outputTokens : {1}, cacheReadTokens : {0, 1},
            cacheCreationTokens : {0, -1}, cacheCreation : {NoDetails}]
           \cup
           [inputTokens : {2}, outputTokens : {1, -1}, cacheReadTokens : {1},
            cacheCreationTokens : {2},
            cacheCreation : {NoDetails, [ephemeral5m |-> 1, ephemeral1h |-> 1],
                             [ephemeral5m |-> 1, ephemeral1h |-> 2]}]
      [] provider = "google" ->
           [promptTokenCount : {1, 3}, cachedContentTokenCount : {0, 2},
            candidatesTokenCount : {1}, thoughtsTokenCount : {-1, 0, 2}]

===============================================================================
