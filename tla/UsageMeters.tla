----------------------------- MODULE UsageMeters ------------------------------
(***************************************************************************)
(* internal/pricing/normalise.go: how each provider's usage block becomes  *)
(* counts per billing class, and how the Anthropic stream translator keeps *)
(* counters of its own.                                                    *)
(*                                                                         *)
(* A usage block is a record of the counts the provider reported, in its   *)
(* own terms; a count it leaves out is 0, as encoding/json leaves it, and  *)
(* NoUsage stands for a block that is absent or cannot be read.            *)
(***************************************************************************)
EXTENDS PriceTable

CONSTANTS
    NoUsage,    \* no usage block, or one that does not parse
    NoDetails   \* a nested breakdown that is absent

(* The blocks encoding/json decodes into: any int64 in every place.  A     *)
(* reply of Anthropic that splits its cache writes also states their sum.  *)
UsageBlocks(provider) ==
    CASE provider = "openai" ->
           [promptTokens : Int, inputTokens : Int, completionTokens : Int,
            outputTokens : Int, reasoning : Int,
            promptDetails : [cached : Int, cacheWrite : Int] \cup {NoDetails},
            inputDetails : [cached : Int, cacheWrite : Int] \cup {NoDetails}]
      [] provider = "anthropic" ->
           {u \in [inputTokens : Int, outputTokens : Int, cacheReadTokens : Int,
                   cacheCreationTokens : Int,
                   cacheCreation : [ephemeral5m : Int, ephemeral1h : Int]
                                     \cup {NoDetails}] :
               u.cacheCreation # NoDetails /\ u.cacheCreationTokens = 0
                 => u.cacheCreation.ephemeral5m + u.cacheCreation.ephemeral1h = 0}
      [] provider = "google" ->
           [promptTokenCount : Int, cachedContentTokenCount : Int,
            candidatesTokenCount : Int, thoughtsTokenCount : Int]

NoCounts == [k \in AllKinds |-> 0]

(* counts and whether they had to be reconstructed. *)
Normalised(counts, degraded) == [counts |-> counts, degraded |-> degraded]

(* Mutant of clampNegative: negative counts are kept. *)
clampNegativeOff(counts, degraded) == Normalised(counts, degraded)

(* clampNegative: a negative count becomes zero and degrades the result. *)
clampNegative(counts, degraded) ==
    Normalised([k \in DOMAIN counts |-> IF counts[k] < 0 THEN 0 ELSE counts[k]],
               degraded \/ \E k \in DOMAIN counts : counts[k] < 0)

FirstNonZero(a, b) == IF a = 0 THEN b ELSE a
AtLeastZero(n) == IF n < 0 THEN 0 ELSE n

-------------------------------------------------------------------------------
(* Mutant of PlainInput: cached tokens stay in the plain input. *)
PlainCountedTwice(promptTotal, cached, cacheWrite) == promptTotal

(* OpenAI: cached and cache-write tokens are part of the prompt total, and *)
(* reasoning tokens are part of the completion total.                      *)
PlainInput(promptTotal, cached, cacheWrite) == promptTotal - cached - cacheWrite

NormaliseOpenAI(u) ==
    LET promptTotal == FirstNonZero(u.promptTokens, u.inputTokens)
        outputTotal == FirstNonZero(u.completionTokens, u.outputTokens)
        details     == IF u.promptDetails # NoDetails THEN u.promptDetails
                                                      ELSE u.inputDetails
        cached      == IF details = NoDetails THEN 0 ELSE details.cached
        cacheWrite  == IF details = NoDetails THEN 0 ELSE details.cacheWrite
        plain       == PlainInput(promptTotal, cached, cacheWrite)
    IN  clampNegative([NoCounts EXCEPT !["input"]          = AtLeastZero(plain),
                                       !["cached_read"]    = cached,
                                       !["cache_write_5m"] = cacheWrite,
                                       !["output"]         = outputTotal,
                                       !["reasoning"]      = u.reasoning],
                      plain < 0 \/ u.reasoning > outputTotal)

(* Anthropic: the cache counts come on top of input_tokens, and cache      *)
(* writes are split by how long the entry lives.                           *)
NormaliseAnthropic(u) ==
    LET split     == u.cacheCreation.ephemeral5m + u.cacheCreation.ephemeral1h
        hasSplit  == u.cacheCreation # NoDetails
        mismatch  == hasSplit /\ u.cacheCreationTokens # 0 /\ split # u.cacheCreationTokens
        unsplit   == ~ hasSplit /\ u.cacheCreationTokens > 0
        keepSplit == hasSplit /\ ~ mismatch
    IN  clampNegative([NoCounts EXCEPT
                         !["input"]          = u.inputTokens,
                         !["cached_read"]    = u.cacheReadTokens,
                         !["output"]         = u.outputTokens,
                         !["cache_write_5m"] =
                             IF keepSplit THEN u.cacheCreation.ephemeral5m
                             ELSE IF mismatch \/ unsplit THEN u.cacheCreationTokens
                             ELSE 0,
                         !["cache_write_1h"] =
                             IF keepSplit THEN u.cacheCreation.ephemeral1h ELSE 0],
                      mismatch \/ unsplit)

(* Google: cached content is part of the prompt count, thoughts come on    *)
(* top of the candidates' tokens.                                          *)
NormaliseGoogle(u) ==
    LET plain == u.promptTokenCount - u.cachedContentTokenCount
    IN  clampNegative([NoCounts EXCEPT
                         !["input"]       = AtLeastZero(plain),
                         !["cached_read"] = u.cachedContentTokenCount,
                         !["output"]      = u.candidatesTokenCount + u.thoughtsTokenCount,
                         !["reasoning"]   = u.thoughtsTokenCount],
                      plain < 0)

Normalise(provider, u) ==
    CASE provider = "openai"    -> NormaliseOpenAI(u)
      [] provider = "anthropic" -> NormaliseAnthropic(u)
      [] provider = "google"    -> NormaliseGoogle(u)

(* Complete of each adapter: a block that cannot be read is a degraded     *)
(* record with no counts at all, not a failed request.                     *)
Metered(provider, u) ==
    IF u = NoUsage THEN Normalised(NoCounts, TRUE) ELSE Normalise(provider, u)

(* A stream keeps its meter elsewhere: Google and OpenAI through the same  *)
(* normalisers, Anthropic in counters of the translator, which know one    *)
(* class of cache write.  A stream that reported nothing is counted by the *)
(* chunks that crossed the wire, but not one of Anthropic: its translator  *)
(* returns its four counters even then, so that there are counts, all 0.   *)
AnthropicStreamCounts(u) ==
    [NoCounts EXCEPT !["input"]          = AtLeastZero(u.inputTokens),
                     !["cached_read"]    = AtLeastZero(u.cacheReadTokens),
                     !["cache_write_5m"] = AtLeastZero(u.cacheCreationTokens),
                     !["output"]         = AtLeastZero(u.outputTokens)]

StreamMetered(provider, u, chunks) ==
    CASE u = NoUsage /\ provider = "anthropic" -> NoCounts
      [] u = NoUsage /\ provider # "anthropic" -> [NoCounts EXCEPT !["output"] = chunks]
      [] u # NoUsage /\ provider = "anthropic" -> AnthropicStreamCounts(u)
      [] u # NoUsage /\ provider # "anthropic" -> Normalise(provider, u).counts

(* The tokens a block reports, each of them once, in the provider's terms; *)
(* a negative flat total of cache writes that no breakdown contradicts is  *)
(* read as none, and the record is not degraded.                           *)
TokensReported(provider, u) ==
    CASE provider = "openai"    -> FirstNonZero(u.promptTokens, u.inputTokens)
                                     + FirstNonZero(u.completionTokens, u.outputTokens)
      [] provider = "anthropic" -> u.inputTokens + u.cacheReadTokens
                                     + AtLeastZero(u.cacheCreationTokens) + u.outputTokens
      [] provider = "google"    -> u.promptTokenCount + u.candidatesTokenCount
                                     + u.thoughtsTokenCount

===============================================================================
