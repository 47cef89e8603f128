----------------------------- MODULE PricingProofs ----------------------------
(***************************************************************************)
(* Proofs about prices, for any price files, usage reports and requests:   *)
(* one rate for every token, every token counted once, no answer free by   *)
(* an error, and a reservation that the guard keeps close to the charge.   *)
(***************************************************************************)
EXTENDS Pricing, SumTheorems, WellFoundedInduction, TLAPS

(* What LoadFS returns, when it returns a table, passed the overlap check   *)
(* of NewTable, and its rows and aliases have the bounds the files state.   *)
LEMMA LoadIsSound ==
  ASSUME NEW files \in Directories \cup {Seed}, LoadFS(files) # NoTable
  PROVE  Sound(LoadFS(files))
<1> DEFINE rows == UNION {ConvertedRows(f) : f \in files}
           aliases == UNION {ConvertedAliases(f) : f \in files}
<1>1. /\ LoadFS(files) = [rows |-> rows, aliases |-> aliases]
      /\ checkOverlaps(rows, aliases)
  BY DEF LoadFS, NewTable
<1>2. ASSUME NEW r \in rows
      PROVE  /\ {r.id, r.tierFrom, r.tierTo, r.from, r.until} \subseteq Int
             /\ r.rate \in Nat
  <2>1. PICK f \in files : r \in ConvertedRows(f)
    OBVIOUS
  <2>2. PICK m \in f.models : r \in {ConvertedRow(f, m, p) : p \in m.prices}
    BY <2>1 DEF ConvertedRows
  <2>3. PICK p \in m.prices : r = ConvertedRow(f, m, p)
    BY <2>2
  <2>4. /\ r.tierFrom = p.tierFrom /\ r.tierTo = p.tierTo
        /\ r.from = FromOrDefault(p.from) /\ r.until = p.until
        /\ r.id = p.id /\ r.rate = p.rate
    BY <2>3 DEF ConvertedRow
  <2>5. p.rate # NotDecimal /\ r.rate >= 0
    BY DEF LoadFS, NewTable, validateRow, Converts
  <2> QED
    BY <2>4, <2>5, DirectoriesAssumption DEF FromOrDefault, DefaultFrom
<1>3. ASSUME NEW a \in aliases PROVE {a.from, a.until} \subseteq Int
  <2>1. PICK f \in files : a \in ConvertedAliases(f)
    OBVIOUS
  <2>2. PICK x \in f.aliases : a.from = FromOrDefault(x.from) /\ a.until = x.until
    BY <2>1 DEF ConvertedAliases
  <2> QED
    BY <2>2, DirectoriesAssumption DEF FromOrDefault, DefaultFrom
<1> QED
  BY <1>1, <1>2, <1>3 DEF Sound

(* Two half-open ranges that both hold n overlap, 0 being no upper end and  *)
(* n below the largest int64.                                               *)
LEMMA CommonPointOverlaps ==
  ASSUME NEW aFrom \in Int, NEW aTo \in Int, NEW bFrom \in Int, NEW bTo \in Int,
         NEW n \in 0 .. MaxInt - 1,
         n >= aFrom, aTo = 0 \/ n < aTo, n >= bFrom, bTo = 0 \/ n < bTo
  PROVE  rangesOverlap(aFrom, aTo, bFrom, bTo)
  BY MaxIntAssumption DEF rangesOverlap, UpTo

(* Two periods that both hold an instant overlap. *)
LEMMA CommonInstantOverlaps ==
  ASSUME NEW aFrom \in Int, NEW aUntil \in Int, NEW bFrom \in Int, NEW bUntil \in Int,
         NEW at \in Int, Within(at, aFrom, aUntil), Within(at, bFrom, bUntil)
  PROVE  periodsOverlap(aFrom, aUntil, bFrom, bUntil)
  BY DEF Within, periodsOverlap

(* What checkOverlaps refuses is therefore all that pick could confuse. *)
LEMMA SoundIsUnique == TableSound => UniqueRate
<1> SUFFICES ASSUME TableSound PROVE UniqueRate
  OBVIOUS
<1>1. ASSUME NEW a \in table.rows, NEW b \in table.rows,
             NEW at \in 0 .. MaxTime, NEW n \in 0 .. MaxInt - 1,
             SameRate(a, b), RowCovers(a, at, n), RowCovers(b, at, n)
      PROVE  a = b
  <2>1. {a.tierFrom, a.tierTo, a.from, a.until, b.tierFrom, b.tierTo, b.from, b.until}
            \subseteq Int /\ at \in Int
    BY MaxTimeAssumption DEF TableSound, Sound
  <2>2. rangesOverlap(a.tierFrom, a.tierTo, b.tierFrom, b.tierTo)
    BY <1>1, <2>1, CommonPointOverlaps DEF RowCovers
  <2>3. periodsOverlap(a.from, a.until, b.from, b.until)
    BY <1>1, <2>1, CommonInstantOverlaps DEF RowCovers
  <2> QED
    BY <1>1, <2>2, <2>3 DEF TableSound, Sound, checkOverlaps
<1>2. ASSUME NEW a \in table.aliases, NEW b \in table.aliases, NEW at \in 0 .. MaxTime,
             SameAlias(a, b), AliasCovers(a, at), AliasCovers(b, at)
      PROVE  a = b
  <2>1. {a.from, a.until, b.from, b.until} \subseteq Int /\ at \in Int
    BY MaxTimeAssumption DEF TableSound, Sound
  <2>2. periodsOverlap(a.from, a.until, b.from, b.until)
    BY <1>2, <2>1, CommonInstantOverlaps DEF AliasCovers
  <2> QED
    BY <1>2, <2>2 DEF TableSound, Sound, checkOverlaps
<1> QED
  BY <1>1, <1>2 DEF UniqueRate

(* UniqueRate, for any price files an operator may load: what a request     *)
(* costs never depends on the order of the rows, and a reload that fails    *)
(* leaves a table of which that is true.                                    *)
THEOREM OneRatePerToken == Spec => []UniqueRate
<1>1. Init => TableSound
  <2> SUFFICES ASSUME Init PROVE TableSound
    OBVIOUS
  <2> QED
    BY SeedAssumption, LoadIsSound DEF Init, TableSound
<1>2. TableSound /\ [Next]_vars => TableSound'
  <2> SUFFICES ASSUME TableSound, [Next]_vars PROVE TableSound'
    OBVIOUS
  <2>1. ASSUME UNCHANGED table PROVE TableSound'
    BY <2>1 DEF TableSound
  <2>2. ASSUME NEW files \in Directories, ReloadFS(files) PROVE TableSound'
    BY <2>1, <2>2, LoadIsSound DEF ReloadFS, TableSound
  <2>3. CASE UNCHANGED vars
    BY <2>1, <2>3 DEF vars
  <2>4. CASE Tick
    BY <2>1, <2>4 DEF Tick
  <2> QED
    BY <2>1, <2>2, <2>3, <2>4 DEF Next, Quote, Complete, SettleStream
<1> QED
  BY <1>1, <1>2, SoundIsUnique, PTL DEF Spec

-------------------------------------------------------------------------------
(* Sums over the billing classes. *)

LEMMA KindsFinite == IsFiniteSet(AllKinds)
<1> DEFINE Ins == {"input"} \cup {"cached_read"} \cup {"cache_write_5m"}
           Outs == {"output"} \cup {"reasoning"} \cup {"audio_output"}
           More == {"cache_write_1h"} \cup {"audio_input"}
<1>1. \A x, y : IsFiniteSet({x} \cup {y})
  BY FS_Singleton, FS_AddElement
<1>2. IsFiniteSet(Ins) /\ IsFiniteSet(Outs) /\ IsFiniteSet(More)
  BY <1>1, FS_AddElement
<1>3. AllKinds = (Ins \cup Outs) \cup More
  BY DEF AllKinds
<1> HIDE DEF Ins, Outs, More
<1> QED
  BY <1>2, <1>3, FS_Union

(* A sum over all of them, written out. *)
LEMMA TotalOfKinds ==
  ASSUME NEW f, \A k \in AllKinds : f[k] \in Nat
  PROVE  Total(AllKinds, f) =
           f["input"] + f["output"] + f["cached_read"] + f["cache_write_5m"]
             + f["cache_write_1h"] + f["reasoning"] + f["audio_input"] + f["audio_output"]
<1> DEFINE S1 == {"input"}
           S2 == S1 \cup {"output"}
           S3 == S2 \cup {"cached_read"}
           S4 == S3 \cup {"cache_write_5m"}
           S5 == S4 \cup {"cache_write_1h"}
           S6 == S5 \cup {"reasoning"}
           S7 == S6 \cup {"audio_input"}
           S8 == S7 \cup {"audio_output"}
<1>1. S8 = AllKinds
  BY DEF AllKinds
<1>2. /\ "output" \notin S1 /\ "cached_read" \notin S2 /\ "cache_write_5m" \notin S3
      /\ "cache_write_1h" \notin S4 /\ "reasoning" \notin S5 /\ "audio_input" \notin S6
      /\ "audio_output" \notin S7
  OBVIOUS
<1>3. \A k \in S8 : f[k] \in Nat
  BY <1>1
<1>4. /\ f["input"] \in Nat /\ f["output"] \in Nat /\ f["cached_read"] \in Nat
      /\ f["cache_write_5m"] \in Nat /\ f["cache_write_1h"] \in Nat
      /\ f["reasoning"] \in Nat /\ f["audio_input"] \in Nat /\ f["audio_output"] \in Nat
  BY <1>3
<1>5. S1 \subseteq S8 /\ S2 \subseteq S8 /\ S3 \subseteq S8 /\ S4 \subseteq S8
      /\ S5 \subseteq S8 /\ S6 \subseteq S8 /\ S7 \subseteq S8
  OBVIOUS
<1>6. /\ IsFiniteSet(S8) /\ IsFiniteSet(S1) /\ IsFiniteSet(S2) /\ IsFiniteSet(S3)
      /\ IsFiniteSet(S4) /\ IsFiniteSet(S5) /\ IsFiniteSet(S6) /\ IsFiniteSet(S7)
  BY <1>1, <1>5, KindsFinite, FS_Subset
<1>11. Total(S1, f) = f["input"]
  BY <1>4, TotalSingleton
<1> HIDE DEF S1
<1>12. Total(S2, f) = Total(S1, f) + f["output"]
  BY <1>2, <1>3, <1>5, <1>6, TotalAdd
<1> HIDE DEF S2
<1>13. Total(S3, f) = Total(S2, f) + f["cached_read"]
  BY <1>2, <1>3, <1>5, <1>6, TotalAdd
<1> HIDE DEF S3
<1>14. Total(S4, f) = Total(S3, f) + f["cache_write_5m"]
  BY <1>2, <1>3, <1>5, <1>6, TotalAdd
<1> HIDE DEF S4
<1>15. Total(S5, f) = Total(S4, f) + f["cache_write_1h"]
  BY <1>2, <1>3, <1>5, <1>6, TotalAdd
<1> HIDE DEF S5
<1>16. Total(S6, f) = Total(S5, f) + f["reasoning"]
  BY <1>2, <1>3, <1>5, <1>6, TotalAdd
<1> HIDE DEF S6
<1>17. Total(S7, f) = Total(S6, f) + f["audio_input"]
  BY <1>2, <1>3, <1>5, <1>6, TotalAdd
<1> HIDE DEF S7
<1>18. Total(S8, f) = Total(S7, f) + f["audio_output"]
  BY <1>2, <1>3, <1>6, TotalAdd
<1> HIDE DEF S8
<1> QED
  BY <1>1, <1>4, <1>11, <1>12, <1>13, <1>14, <1>15, <1>16, <1>17, <1>18

(* A sum over some of them counts nothing for the others. *)
LEMMA TotalOfSome ==
  ASSUME NEW S \in SUBSET AllKinds, NEW f, \A k \in S : f[k] \in Nat
  PROVE  LET g == [k \in AllKinds |-> IF k \in S THEN f[k] ELSE 0]
         IN  Total(S, f) = Total(AllKinds, g)
<1> DEFINE g == [k \in AllKinds |-> IF k \in S THEN f[k] ELSE 0]
           T == AllKinds \ S
<1>1. IsFiniteSet(S) /\ IsFiniteSet(T) /\ S \cap T = {} /\ S \cup T = AllKinds
  BY KindsFinite, FS_Subset
<1>2. \A k \in S \cup T : g[k] \in Nat
  BY <1>1
<1>3. Total(S, f) = Total(S, g)
  <2>1. \A k \in S : f[k] = g[k]
    OBVIOUS
  <2> HIDE DEF g
  <2> QED
    BY <2>1, TotalSame
<1>4. Total(T, g) = 0
  <2>1. \A k \in T : g[k] = 0
    OBVIOUS
  <2> HIDE DEF g, T
  <2> QED
    BY <2>1, TotalZero
<1>5. Total(S, g) \in Nat
  <2> HIDE DEF g
  <2> QED
    BY <1>1, <1>2, TotalNat
<1>6. Total(S \cup T, g) = Total(S, g) + Total(T, g)
  <2> HIDE DEF g, T
  <2> QED
    BY <1>1, <1>2, TotalUnion
<1> QED
  BY <1>1, <1>3, <1>4, <1>5, <1>6

(* Of the tokens a meter counted, those that select the context tier.       *)
LEMMA InputTokens ==
  ASSUME NEW c \in [AllKinds -> Nat]
  PROVE  InputTierTotal(c) =
           c["input"] + c["cached_read"] + c["cache_write_5m"] + c["cache_write_1h"]
             + c["audio_input"]
<1> DEFINE S == {k \in DOMAIN c : c[k] > 0 /\ CountsTowardInputTier(k)}
           g == [k \in AllKinds |-> IF k \in S THEN c[k] ELSE 0]
<1>1. S \in SUBSET AllKinds /\ \A k \in S : c[k] \in Nat
  OBVIOUS
<1>2. Total(S, c) = Total(AllKinds, g)
  <2> HIDE DEF S
  <2> QED
    BY <1>1, TotalOfSome
<1>3. /\ \A k \in AllKinds : g[k] \in Nat
      /\ \A k \in {"input", "cached_read", "cache_write_5m", "cache_write_1h",
                   "audio_input"} : g[k] = c[k]
      /\ \A k \in {"output", "reasoning", "audio_output"} : g[k] = 0
  BY DEF AllKinds, CountsTowardInputTier
<1>4. \A k \in AllKinds : c[k] \in Nat
  OBVIOUS
<1> HIDE DEF g, S
<1>5. Total(AllKinds, g) =
        g["input"] + g["output"] + g["cached_read"] + g["cache_write_5m"]
          + g["cache_write_1h"] + g["reasoning"] + g["audio_input"] + g["audio_output"]
  BY <1>3, TotalOfKinds
<1>6. /\ c["input"] \in Nat /\ c["cached_read"] \in Nat /\ c["cache_write_5m"] \in Nat
      /\ c["cache_write_1h"] \in Nat /\ c["audio_input"] \in Nat
  BY <1>4 DEF AllKinds
<1>7. InputTierTotal(c) = Total(S, c)
  BY DEF InputTierTotal, S
<1> QED
  BY <1>2, <1>3, <1>5, <1>6, <1>7

(* What is charged for: everything but the breakdown of the output.         *)
LEMMA BillableTokens ==
  ASSUME NEW c \in [AllKinds -> Nat]
  PROVE  Total({k \in AllKinds : Billable(k)}, c) =
           c["input"] + c["output"] + c["cached_read"] + c["cache_write_5m"]
             + c["cache_write_1h"] + c["audio_input"] + c["audio_output"]
<1> DEFINE S == {k \in AllKinds : Billable(k)}
           g == [k \in AllKinds |-> IF k \in S THEN c[k] ELSE 0]
<1>1. S \in SUBSET AllKinds /\ \A k \in S : c[k] \in Nat
  OBVIOUS
<1>2. Total(S, c) = Total(AllKinds, g)
  <2> HIDE DEF S
  <2> QED
    BY <1>1, TotalOfSome
<1>3. /\ \A k \in AllKinds : g[k] \in Nat
      /\ \A k \in AllKinds \ {"reasoning"} : g[k] = c[k]
      /\ g["reasoning"] = 0
  BY DEF AllKinds, Billable
<1>4. \A k \in AllKinds : c[k] \in Nat
  OBVIOUS
<1> HIDE DEF g, S
<1>5. Total(AllKinds, g) =
        g["input"] + g["output"] + g["cached_read"] + g["cache_write_5m"]
          + g["cache_write_1h"] + g["reasoning"] + g["audio_input"] + g["audio_output"]
  BY <1>3, TotalOfKinds
<1>6. /\ c["input"] \in Nat /\ c["cached_read"] \in Nat /\ c["cache_write_5m"] \in Nat
      /\ c["cache_write_1h"] \in Nat /\ c["audio_input"] \in Nat /\ c["output"] \in Nat
      /\ c["audio_output"] \in Nat
  BY <1>4 DEF AllKinds
<1> QED
  BY <1>2, <1>3, <1>5, <1>6 DEF AllKinds, S

-------------------------------------------------------------------------------
(* The meters. *)

(* clampNegative leaves no negative count, and changes nothing it does not  *)
(* report.                                                                  *)
LEMMA Clamped ==
  ASSUME NEW raw \in [AllKinds -> Int], NEW d \in BOOLEAN
  PROVE  LET n == clampNegative(raw, d) IN
         /\ n.counts \in [AllKinds -> Nat]
         /\ \A k \in AllKinds : raw[k] = 0 => n.counts[k] = 0
         /\ ~ n.degraded => ~ d /\ n.counts = raw
<1> DEFINE c == [k \in DOMAIN raw |-> IF raw[k] < 0 THEN 0 ELSE raw[k]]
           neg == \E k \in DOMAIN raw : raw[k] < 0
           n == clampNegative(raw, d)
<1>1. c \in [AllKinds -> Nat] /\ \A k \in AllKinds : raw[k] = 0 => c[k] = 0
  OBVIOUS
<1>2. ~ neg => c = raw
  OBVIOUS
<1>3. n.counts = c
  BY DEF clampNegative, Normalised
<1>4. ~ n.degraded => ~ d /\ ~ neg
  <2> DEFINE e == d \/ neg
  <2>1. n = [counts |-> c, degraded |-> e]
    BY DEF clampNegative, Normalised
  <2>2. e \in BOOLEAN
    OBVIOUS
  <2> HIDE DEF e, c, n
  <2>3. n.degraded = e
    BY <2>1, <2>2
  <2> QED
    BY <2>3 DEF e
<1> QED
  BY <1>1, <1>2, <1>3, <1>4

(* What a meter owes the bill: natural counts, none of audio, and, if it    *)
(* vouches for them, all that was reported.                                 *)
Faithful(p, u, counts) ==
    /\ counts \in [AllKinds -> Nat]
    /\ counts["audio_input"] = 0 /\ counts["audio_output"] = 0
    /\ ~ Normalise(p, u).degraded =>
          counts["input"] + counts["cached_read"] + counts["cache_write_5m"]
            + counts["cache_write_1h"] + counts["output"] = TokensReported(p, u)

LEMMA OpenAIMeter ==
  ASSUME NEW u \in UsageBlocks("openai")
  PROVE  Faithful("openai", u, Normalise("openai", u).counts)
<1> DEFINE prompt == FirstNonZero(u.promptTokens, u.inputTokens)
           output == FirstNonZero(u.completionTokens, u.outputTokens)
           details == IF u.promptDetails # NoDetails THEN u.promptDetails
                                                     ELSE u.inputDetails
           cached == IF details = NoDetails THEN 0 ELSE details.cached
           write == IF details = NoDetails THEN 0 ELSE details.cacheWrite
           plain == PlainInput(prompt, cached, write)
           d == plain < 0 \/ u.reasoning > output
           raw == [NoCounts EXCEPT !["input"] = AtLeastZero(plain), !["cached_read"] = cached,
                                   !["cache_write_5m"] = write, !["output"] = output,
                                   !["reasoning"] = u.reasoning]
           n == clampNegative(raw, d)
<1>1. /\ u.promptTokens \in Int /\ u.inputTokens \in Int /\ u.completionTokens \in Int
      /\ u.outputTokens \in Int /\ u.reasoning \in Int
      /\ u.promptDetails \in [cached : Int, cacheWrite : Int] \cup {NoDetails}
      /\ u.inputDetails \in [cached : Int, cacheWrite : Int] \cup {NoDetails}
  BY DEF UsageBlocks
<1>2. prompt \in Int /\ output \in Int
  BY <1>1 DEF FirstNonZero
<1>3. details \in [cached : Int, cacheWrite : Int] \cup {NoDetails}
  BY <1>1
<1>4. cached \in Int /\ write \in Int
  <2> HIDE DEF details
  <2> QED
    BY <1>3
<1>5. Normalise("openai", u) = n
  BY DEF Normalise, NormaliseOpenAI
<1>6. TokensReported("openai", u) = prompt + output
  BY DEF TokensReported
<1> HIDE DEF prompt, output, cached, write
<1>7. plain = prompt - cached - write /\ plain \in Int /\ AtLeastZero(plain) \in Nat
      /\ (plain >= 0 => AtLeastZero(plain) = plain)
  BY <1>2, <1>4 DEF PlainInput, AtLeastZero
<1> HIDE DEF plain
<1>8. /\ raw \in [AllKinds -> Int]
      /\ raw["input"] = AtLeastZero(plain) /\ raw["cached_read"] = cached
      /\ raw["cache_write_5m"] = write /\ raw["cache_write_1h"] = 0
      /\ raw["output"] = output /\ raw["audio_input"] = 0 /\ raw["audio_output"] = 0
  BY <1>1, <1>2, <1>4, <1>7 DEF NoCounts, AllKinds
<1>9. d \in BOOLEAN /\ (~ d => plain >= 0)
  BY <1>7
<1> HIDE DEF raw, d
<1>10. /\ n.counts \in [AllKinds -> Nat]
       /\ n.counts["audio_input"] = 0 /\ n.counts["audio_output"] = 0
       /\ ~ n.degraded => ~ d /\ n.counts = raw
  BY <1>8, <1>9, Clamped DEF AllKinds
<1> HIDE DEF n
<1> QED
  BY <1>2, <1>4, <1>5, <1>6, <1>7, <1>8, <1>9, <1>10 DEF Faithful

LEMMA GoogleMeter ==
  ASSUME NEW u \in UsageBlocks("google")
  PROVE  Faithful("google", u, Normalise("google", u).counts)
<1> DEFINE plain == u.promptTokenCount - u.cachedContentTokenCount
           d == plain < 0
           raw == [NoCounts EXCEPT !["input"] = AtLeastZero(plain),
                                   !["cached_read"] = u.cachedContentTokenCount,
                                   !["output"] = u.candidatesTokenCount + u.thoughtsTokenCount,
                                   !["reasoning"] = u.thoughtsTokenCount]
           n == clampNegative(raw, d)
<1>1. /\ u.promptTokenCount \in Int /\ u.cachedContentTokenCount \in Int
      /\ u.candidatesTokenCount \in Int /\ u.thoughtsTokenCount \in Int
  BY DEF UsageBlocks
<1>2. Normalise("google", u) = n
  BY DEF Normalise, NormaliseGoogle
<1>3. TokensReported("google", u) =
        u.promptTokenCount + u.candidatesTokenCount + u.thoughtsTokenCount
  BY DEF TokensReported
<1>4. plain \in Int /\ AtLeastZero(plain) \in Nat
      /\ (plain >= 0 => AtLeastZero(plain) = plain)
  BY <1>1 DEF AtLeastZero
<1>5. /\ raw \in [AllKinds -> Int]
      /\ raw["input"] = AtLeastZero(plain) /\ raw["cached_read"] = u.cachedContentTokenCount
      /\ raw["cache_write_5m"] = 0 /\ raw["cache_write_1h"] = 0
      /\ raw["output"] = u.candidatesTokenCount + u.thoughtsTokenCount
      /\ raw["audio_input"] = 0 /\ raw["audio_output"] = 0
  BY <1>1, <1>4 DEF NoCounts, AllKinds
<1>6. d \in BOOLEAN /\ (~ d => plain >= 0)
  BY <1>4
<1> HIDE DEF raw, d
<1>7. /\ n.counts \in [AllKinds -> Nat]
      /\ n.counts["audio_input"] = 0 /\ n.counts["audio_output"] = 0
      /\ ~ n.degraded => ~ d /\ n.counts = raw
  BY <1>5, <1>6, Clamped DEF AllKinds
<1> HIDE DEF n
<1> QED
  BY <1>1, <1>2, <1>3, <1>4, <1>5, <1>6, <1>7 DEF Faithful

(* Anthropic states its classes side by side, and a stream keeps one class  *)
(* of cache write; both add up to the same.                                 *)
LEMMA AnthropicMeters ==
  ASSUME NEW u \in UsageBlocks("anthropic")
  PROVE  /\ Faithful("anthropic", u, Normalise("anthropic", u).counts)
         /\ Faithful("anthropic", u, AnthropicStreamCounts(u))
<1> DEFINE x == u.cacheCreation
           total == u.cacheCreationTokens
           split == x.ephemeral5m + x.ephemeral1h
           hasSplit == x # NoDetails
           mismatch == hasSplit /\ total # 0 /\ split # total
           unsplit == ~ hasSplit /\ total > 0
           keepSplit == hasSplit /\ ~ mismatch
           w5 == IF keepSplit THEN x.ephemeral5m
                 ELSE IF mismatch \/ unsplit THEN total ELSE 0
           w1 == IF keepSplit THEN x.ephemeral1h ELSE 0
           d == mismatch \/ unsplit
           raw == [NoCounts EXCEPT !["input"] = u.inputTokens,
                                   !["cached_read"] = u.cacheReadTokens,
                                   !["output"] = u.outputTokens,
                                   !["cache_write_5m"] = w5, !["cache_write_1h"] = w1]
           n == clampNegative(raw, d)
           s == AnthropicStreamCounts(u)
<1>1. /\ u.inputTokens \in Int /\ u.outputTokens \in Int /\ u.cacheReadTokens \in Int
      /\ total \in Int /\ x \in [ephemeral5m : Int, ephemeral1h : Int] \cup {NoDetails}
      /\ hasSplit /\ total = 0 => split = 0
  BY DEF UsageBlocks
<1>2. hasSplit => x.ephemeral5m \in Int /\ x.ephemeral1h \in Int
  BY <1>1
<1>3. Normalise("anthropic", u) = n
  BY DEF Normalise, NormaliseAnthropic
<1>4. TokensReported("anthropic", u) =
        u.inputTokens + u.cacheReadTokens + AtLeastZero(total) + u.outputTokens
  BY DEF TokensReported
<1>5. w5 \in Int /\ w1 \in Int
  BY <1>1, <1>2
<1>6. ~ d => IF hasSplit THEN w5 + w1 = total ELSE w5 = 0 /\ w1 = 0 /\ total <= 0
  BY <1>1, <1>2
<1>7. d \in BOOLEAN
  OBVIOUS
<1> HIDE DEF w5, w1, d
<1>8. /\ raw \in [AllKinds -> Int]
      /\ raw["input"] = u.inputTokens /\ raw["cached_read"] = u.cacheReadTokens
      /\ raw["cache_write_5m"] = w5 /\ raw["cache_write_1h"] = w1
      /\ raw["output"] = u.outputTokens
      /\ raw["audio_input"] = 0 /\ raw["audio_output"] = 0
  BY <1>1, <1>5 DEF NoCounts, AllKinds
<1>9. /\ s["input"] = AtLeastZero(u.inputTokens)
      /\ s["cached_read"] = AtLeastZero(u.cacheReadTokens)
      /\ s["cache_write_5m"] = AtLeastZero(total) /\ s["cache_write_1h"] = 0
      /\ s["output"] = AtLeastZero(u.outputTokens)
      /\ s["audio_input"] = 0 /\ s["audio_output"] = 0
  BY DEF AnthropicStreamCounts, NoCounts, AllKinds
<1>10. \A i \in Int : AtLeastZero(i) \in Nat /\ (i >= 0 => AtLeastZero(i) = i)
                      /\ (i <= 0 => AtLeastZero(i) = 0)
  BY DEF AtLeastZero
<1>11. s \in [AllKinds -> Nat]
  BY <1>1, <1>10 DEF AnthropicStreamCounts, NoCounts
<1> HIDE DEF raw, s
<1>12. /\ n.counts \in [AllKinds -> Nat]
       /\ n.counts["audio_input"] = 0 /\ n.counts["audio_output"] = 0
       /\ ~ n.degraded => ~ d /\ n.counts = raw
  BY <1>7, <1>8, Clamped DEF AllKinds
<1> HIDE DEF n
<1>13. ~ n.degraded => /\ u.inputTokens >= 0 /\ u.cacheReadTokens >= 0 /\ u.outputTokens >= 0
                       /\ w5 >= 0 /\ w1 >= 0 /\ w5 + w1 = AtLeastZero(total)
  <2> SUFFICES ASSUME ~ n.degraded
               PROVE  /\ u.inputTokens >= 0 /\ u.cacheReadTokens >= 0
                      /\ u.outputTokens >= 0
                      /\ w5 >= 0 /\ w1 >= 0 /\ w5 + w1 = AtLeastZero(total)
    OBVIOUS
  <2>1. raw \in [AllKinds -> Nat] /\ ~ d
    BY <1>12
  <2>2. /\ u.inputTokens >= 0 /\ u.cacheReadTokens >= 0 /\ u.outputTokens >= 0
        /\ w5 >= 0 /\ w1 >= 0
    BY <1>8, <2>1 DEF AllKinds
  <2> QED
    BY <1>1, <1>5, <1>6, <1>10, <2>1, <2>2
<1>14. Faithful("anthropic", u, n.counts)
  BY <1>1, <1>3, <1>4, <1>5, <1>8, <1>12, <1>13 DEF Faithful
<1>15. Faithful("anthropic", u, s)
  BY <1>1, <1>3, <1>4, <1>5, <1>9, <1>10, <1>11, <1>13 DEF Faithful
<1> QED
  BY <1>3, <1>14, <1>15 DEF s

(* Every meter of the gateway, of an answer or of a stream.                 *)
LEMMA MetersFaithful ==
  ASSUME NEW p \in Providers, NEW u \in Usages(p) \cup {NoUsage}, NEW counts,
         \/ counts = Metered(p, u).counts
         \/ \E chunks \in ChunkCounts : counts = StreamMetered(p, u, chunks)
  PROVE  /\ counts \in [AllKinds -> Nat]
         /\ counts["audio_input"] = 0 /\ counts["audio_output"] = 0
         /\ u # NoUsage => Faithful(p, u, counts)
<1>1. CASE u = NoUsage
  <2>1. NoCounts \in [AllKinds -> Nat] /\ \A k \in AllKinds : NoCounts[k] = 0
    BY DEF NoCounts
  <2>2. CASE counts = Metered(p, u).counts
    BY <1>1, <2>1, <2>2 DEF Metered, Normalised, AllKinds
  <2>3. ASSUME NEW chunks \in ChunkCounts, counts = StreamMetered(p, u, chunks)
        PROVE  /\ counts \in [AllKinds -> Nat]
               /\ counts["audio_input"] = 0 /\ counts["audio_output"] = 0
    <3>1. counts = NoCounts \/ counts = [NoCounts EXCEPT !["output"] = chunks]
      BY <1>1, <2>3 DEF StreamMetered
    <3> QED
      BY <2>1, <3>1, UsagesAssumption DEF AllKinds
  <2> QED
    BY <1>1, <2>2, <2>3
<1>2. CASE u # NoUsage
  <2>1. u \in UsageBlocks(p) /\ p \in {"openai", "anthropic", "google"}
    BY <1>2, UsagesAssumption
  <2>2. Faithful(p, u, Normalise(p, u).counts)
    BY <2>1, OpenAIMeter, GoogleMeter, AnthropicMeters
  <2>3. CASE counts = Metered(p, u).counts
    BY <1>2, <2>2, <2>3 DEF Metered, Faithful
  <2>4. ASSUME NEW chunks \in ChunkCounts, counts = StreamMetered(p, u, chunks)
        PROVE  Faithful(p, u, counts)
    <3>1. CASE p = "anthropic"
      BY <1>2, <2>1, <2>4, <3>1, AnthropicMeters DEF StreamMetered
    <3>2. CASE p # "anthropic"
      BY <1>2, <2>2, <2>4, <3>2 DEF StreamMetered
    <3> QED
      BY <3>1, <3>2
  <2> QED
    BY <2>3, <2>4 DEF Faithful
<1> QED
  BY <1>1, <1>2

(* Cost only fails on a negative count. *)
LEMMA NaturalCountsCost ==
  ASSUME NEW t, NEW model, NEW provider, NEW tier, NEW at, NEW counts \in [AllKinds -> Nat]
  PROVE  ~ Cost(t, model, provider, tier, at, counts).err
<1>1. \A k \in DOMAIN counts : ~ (counts[k] < 0)
  OBVIOUS
<1>2. ~ UnknownPrice.err /\ \A c, b : ~ Priced(c, b).err
  BY DEF UnknownPrice, Priced
<1> QED
  BY <1>1, <1>2 DEF Cost

-------------------------------------------------------------------------------
(* The invariant. *)

LEMMA PricingInit == Init => PricingInv
<1> SUFFICES ASSUME Init PROVE PricingInv
  OBVIOUS
<1>1. TableSound /\ table # NoTable
  BY SeedAssumption, LoadIsSound DEF Init, TableSound
<1>2. now \in 1 .. MaxTime
  BY MaxTimeAssumption DEF Init
<1>3. \A r \in Requests : req[r].state = "idle"
  BY DEF Init, Idle
<1> QED
  BY <1>1, <1>2, <1>3 DEF Init, PricingInv, TypeOK

(* A step of one request. *)
LEMMA OneRequest ==
  ASSUME PricingInv, NEW r \in Requests, NEW x,
         \/ x.state = "reserved" /\ QuoteInv(x)
         \/ x.state = "settled" /\ SettledInv(x),
         req' = [req EXCEPT ![r] = x], UNCHANGED <<table, now>>
  PROVE  PricingInv'
<1>1. /\ req' = [q \in Requests |-> req'[q]]
      /\ req'[r] = x /\ \A q \in Requests : q # r => req'[q] = req[q]
  BY DEF PricingInv
<1>2. TypeOK' /\ TableSound'
  BY <1>1 DEF PricingInv, TypeOK, TableSound
<1>3. \A q \in Requests : /\ req'[q].state = "reserved" => QuoteInv(req'[q])
                          /\ req'[q].state = "settled" => SettledInv(req'[q])
  BY <1>1 DEF PricingInv
<1> QED
  BY <1>1, <1>2, <1>3 DEF PricingInv, QuoteInv, SettledInv, Measured

LEMMA QuoteKeeps ==
  ASSUME PricingInv, NEW r \in Requests, NEW model \in Models,
         NEW named \in Providers \cup {""}, NEW bytes \in PromptSizes,
         NEW max \in Ceilings, NEW stream \in BOOLEAN, NEW budgeted \in BOOLEAN,
         Quote(r, model, named, bytes, max, stream, budgeted)
  PROVE  PricingInv'
<1>1. PICK p \in Route(model, named) :
        LET canonical == Resolve(table, model, p, now)
            estimate  == Estimate(table, canonical, p, "standard", now, bytes, max)
        IN  req' = [req EXCEPT ![r] =
                      [state |-> "reserved", table |-> table, at |-> now,
                       provider |-> p, canonical |-> canonical, stream |-> stream,
                       promptBytes |-> bytes, maxTokens |-> max,
                       estimate |-> estimate]]
  BY DEF Quote
<1> DEFINE canonical == Resolve(table, model, p, now)
           estimate  == Estimate(table, canonical, p, "standard", now, bytes, max)
           x == [state |-> "reserved", table |-> table, at |-> now,
                 provider |-> p, canonical |-> canonical, stream |-> stream,
                 promptBytes |-> bytes, maxTokens |-> max, estimate |-> estimate]
<1>2. p \in Providers
  BY DEF Route
<1>3. /\ x.state = "reserved" /\ x.table = table /\ x.at = now /\ x.provider = p
      /\ x.canonical = canonical /\ x.promptBytes = bytes /\ x.maxTokens = max
      /\ x.estimate = estimate
  <2> HIDE DEF canonical, estimate
  <2> QED
    OBVIOUS
<1>4. req' = [req EXCEPT ![r] = x] /\ UNCHANGED <<table, now>>
  BY <1>1 DEF Quote
<1> HIDE DEF x
<1>5. QuoteInv(x)
  BY <1>2, <1>3 DEF QuoteInv, PricingInv, TableSound, TypeOK
<1> QED
  BY <1>3, <1>4, <1>5, OneRequest

(* A charge keeps its quote, what was reported and how it was counted.      *)
LEMMA ChargeKeeps ==
  ASSUME PricingInv, NEW r \in Requests, req[r].state = "reserved",
         NEW u \in Usages(req[r].provider) \cup {NoUsage}, NEW counts, NEW served,
         NEW result,
         \/ counts = Metered(req[r].provider, u).counts
         \/ \E chunks \in ChunkCounts : counts = StreamMetered(req[r].provider, u, chunks),
         \E t, at : result = Cost(t, served, req[r].provider, "standard", at, counts),
         ~ req[r].stream =>
            result = Cost(req[r].table, served, req[r].provider, "standard",
                          req[r].at, counts),
         Charged(r, served, counts, u, result), UNCHANGED <<table, now>>
  PROVE  PricingInv'
<1> DEFINE q == req[r]
           x == [state |-> "settled", quote |-> req[r], served |-> served,
                 counts |-> counts, usage |-> u, result |-> result]
<1>1. QuoteInv(q)
  BY DEF PricingInv
<1>2. ~ result.err
  <2>1. counts \in [AllKinds -> Nat]
    BY <1>1, MetersFaithful DEF QuoteInv
  <2> QED
    BY <2>1, NaturalCountsCost
<1>3. /\ x.state = "settled" /\ x.quote = q /\ x.served = served /\ x.counts = counts
      /\ x.usage = u /\ x.result = result
  OBVIOUS
<1>4. req' = [req EXCEPT ![r] = x]
  BY DEF Charged
<1> HIDE DEF x
<1>5. SettledInv(x)
  BY <1>1, <1>2, <1>3 DEF SettledInv, Measured
<1> QED
  BY <1>3, <1>4, <1>5, OneRequest

LEMMA PricingStep == PricingInv /\ [Next]_vars => PricingInv'
<1> SUFFICES ASSUME PricingInv, [Next]_vars PROVE PricingInv'
  OBVIOUS
<1>1. ASSUME NEW r \in Requests, req[r].state = "reserved",
             NEW u \in Usages(req[r].provider) \cup {NoUsage},
             NEW served \in Models \cup {""}, Complete(r, served, u)
      PROVE  PricingInv'
  <2> DEFINE q == req[r]
             model == ServedOr(served, q.canonical)
             counts == Metered(q.provider, u).counts
             result == Cost(q.table, model, q.provider, "standard", q.at, counts)
  <2>1. Charged(r, model, counts, u, result) /\ UNCHANGED <<table, now>>
    BY <1>1 DEF Complete
  <2>2. \E t, at : result = Cost(t, model, q.provider, "standard", at, counts)
    OBVIOUS
  <2> HIDE DEF model
  <2> QED
    BY <1>1, <2>1, <2>2, ChargeKeeps
<1>2. ASSUME NEW r \in Requests, req[r].state = "reserved",
             NEW u \in Usages(req[r].provider) \cup {NoUsage},
             NEW chunks \in ChunkCounts, SettleStream(r, u, chunks)
      PROVE  PricingInv'
  <2> DEFINE q == req[r]
             counts == StreamMetered(q.provider, u, chunks)
             result == Cost(table, q.canonical, q.provider, "standard", now, counts)
  <2>1. Charged(r, q.canonical, counts, u, result) /\ UNCHANGED <<table, now>> /\ q.stream
    BY <1>2 DEF SettleStream
  <2>2. \E t, at : result = Cost(t, q.canonical, q.provider, "standard", at, counts)
    OBVIOUS
  <2> QED
    BY <1>2, <2>1, <2>2, ChargeKeeps
<1>3. ASSUME UNCHANGED req, TableSound', TypeOK' PROVE PricingInv'
  BY <1>3 DEF PricingInv, QuoteInv, SettledInv, Measured
<1>4. ASSUME NEW files \in Directories, ReloadFS(files) PROVE PricingInv'
  <2>1. TableSound' /\ table' # NoTable
    BY <1>4, LoadIsSound DEF ReloadFS, TableSound, PricingInv, TypeOK, Sound
  <2> QED
    BY <1>3, <1>4, <2>1 DEF ReloadFS, PricingInv, TypeOK
<1>5. CASE Tick
  BY <1>3, <1>5, MaxTimeAssumption DEF Tick, PricingInv, TypeOK, TableSound
<1>6. CASE UNCHANGED vars
  BY <1>3, <1>6 DEF vars, PricingInv, TypeOK, TableSound
<1>7. CASE \E r \in Requests, model \in Models, named \in Providers \cup {""},
              bytes \in PromptSizes, max \in Ceilings, stream, budgeted \in BOOLEAN :
                 Quote(r, model, named, bytes, max, stream, budgeted)
  <2>1. PICK r \in Requests, model \in Models, named \in Providers \cup {""},
             bytes \in PromptSizes, max \in Ceilings, stream, budgeted \in BOOLEAN :
                Quote(r, model, named, bytes, max, stream, budgeted)
    BY <1>7
  <2> QED
    BY <2>1, QuoteKeeps
<1>8. CASE \E r \in Requests :
              /\ req[r].state = "reserved"
              /\ \E u \in Usages(req[r].provider) \cup {NoUsage} :
                    \/ \E served \in Models \cup {""} : Complete(r, served, u)
                    \/ \E chunks \in ChunkCounts : SettleStream(r, u, chunks)
  <2>1. PICK r \in Requests :
               /\ req[r].state = "reserved"
               /\ \E u \in Usages(req[r].provider) \cup {NoUsage} :
                     \/ \E served \in Models \cup {""} : Complete(r, served, u)
                     \/ \E chunks \in ChunkCounts : SettleStream(r, u, chunks)
    BY <1>8
  <2>2. PICK u \in Usages(req[r].provider) \cup {NoUsage} :
               \/ \E served \in Models \cup {""} : Complete(r, served, u)
               \/ \E chunks \in ChunkCounts : SettleStream(r, u, chunks)
    BY <2>1
  <2> QED
    BY <2>1, <2>2, <1>1, <1>2
<1>9. CASE \E files \in Directories : ReloadFS(files)
  BY <1>9, <1>4
<1> QED
  BY <1>5, <1>6, <1>7, <1>8, <1>9 DEF Next

(* The inductive invariant of the quotes and charges. *)
THEOREM PricingInvariance == Spec => []PricingInv
  BY PricingInit, PricingStep, PTL DEF Spec

(* TypeOK: a table is always in force, however many loads fail. *)
THEOREM PricingTypes == Spec => []TypeOK
<1>1. PricingInv => TypeOK
  BY DEF PricingInv
<1> QED
  BY PricingInvariance, <1>1, PTL

(* NoSwallowedError, for whatever a provider reports: no meter lets a       *)
(* negative count through to Cost, so that no answer is free by an error.   *)
THEOREM NoFreeAnswers == Spec => []NoSwallowedError
<1>1. PricingInv => NoSwallowedError
  BY DEF PricingInv, NoSwallowedError, Settled, SettledInv
<1> QED
  BY PricingInvariance, <1>1, PTL

(* EveryTokenOnce, for whatever a provider reports and a meter vouches for. *)
THEOREM TokensBilledOnce == Spec => []EveryTokenOnce
<1>1. PricingInv => EveryTokenOnce
  <2> SUFFICES ASSUME PricingInv, NEW r \in Settled,
                      req[r].usage # NoUsage,
                      ~ Normalise(req[r].quote.provider, req[r].usage).degraded
               PROVE  Total({k \in AllKinds : Billable(k)}, req[r].counts) =
                        TokensReported(req[r].quote.provider, req[r].usage)
    BY DEF EveryTokenOnce
  <2> DEFINE p == req[r].quote.provider
             u == req[r].usage
             c == req[r].counts
  <2>1. SettledInv(req[r])
    BY DEF PricingInv, Settled
  <2>2. p \in Providers /\ u \in Usages(p) \cup {NoUsage}
    BY <2>1 DEF SettledInv, QuoteInv
  <2>3. \/ c = Metered(p, u).counts
        \/ \E chunks \in ChunkCounts : c = StreamMetered(p, u, chunks)
    BY <2>1 DEF SettledInv, Measured
  <2>4. Faithful(p, u, c)
    BY <2>2, <2>3, MetersFaithful
  <2> HIDE DEF p, u, c
  <2>5. /\ c \in [AllKinds -> Nat]
        /\ c["audio_input"] = 0 /\ c["audio_output"] = 0
        /\ c["input"] + c["cached_read"] + c["cache_write_5m"] + c["cache_write_1h"]
             + c["output"] = TokensReported(p, u)
    BY <2>4 DEF Faithful, p, u
  <2>6. Total({k \in AllKinds : Billable(k)}, c) =
          c["input"] + c["output"] + c["cached_read"] + c["cache_write_5m"]
            + c["cache_write_1h"] + c["audio_input"] + c["audio_output"]
    BY <2>5, BillableTokens
  <2>7. \A k \in AllKinds : c[k] \in Nat
    BY <2>5
  <2> QED
    BY <2>5, <2>6, <2>7 DEF AllKinds, p, u, c
<1> QED
  BY PricingInvariance, <1>1, PTL

-------------------------------------------------------------------------------
(* The reservation. *)

LEMMA MulMono ==
  ASSUME NEW a \in Nat, NEW b \in Nat, NEW c \in Nat, a <= b
  PROVE  a * c <= b * c /\ c * a <= c * b
<1>1. PICK d \in Nat : b = a + d
  <2>1. b - a \in Nat /\ b = a + (b - a)
    OBVIOUS
  <2> QED
    BY <2>1
<1>2. b * c = a * c + d * c /\ d * c \in Nat /\ a * c \in Nat
  BY <1>1
<1>3. c * a = a * c /\ c * b = b * c
  OBVIOUS
<1> QED
  BY <1>2, <1>3

LEMMA MulCancel ==
  ASSUME NEW a \in Nat \ {0}, NEW x \in Nat, NEW y \in Nat, a * x <= a * y
  PROVE  x <= y
<1> SUFFICES ASSUME y + 1 <= x PROVE FALSE
  OBVIOUS
<1>1. a * (y + 1) <= a * x
  BY MulMono
<1>2. a * (y + 1) = a * y + a /\ a * y \in Nat /\ a * x \in Nat
  OBVIOUS
<1> QED
  BY <1>1, <1>2

(* Of the rows of a sound table at most one gives a rate, and First is it.  *)
LEMMA OneCandidate ==
  ASSUME NEW t, Sound(t), NEW model, NEW provider, NEW kind, NEW tier, NEW at \in Int,
         NEW n \in 0 .. MaxInt - 1,
         NEW r \in Candidates(t, model, provider, kind, tier, at, n)
  PROVE  /\ \A s \in Candidates(t, model, provider, kind, tier, at, n) : s = r
         /\ First(Candidates(t, model, provider, kind, tier, at, n)) = r
         /\ r.rate \in Nat
<1> DEFINE C == Candidates(t, model, provider, kind, tier, at, n)
<1>1. ASSUME NEW a \in C
      PROVE  /\ a \in t.rows /\ {a.id, a.tierFrom, a.tierTo, a.from, a.until} \subseteq Int
             /\ a.rate \in Nat /\ RowCovers(a, at, n)
             /\ a.model = model /\ a.provider = provider /\ a.kind = kind /\ a.tier = tier
  BY DEF Candidates, RowsOf, Sound
<1>2. ASSUME NEW s \in C PROVE s = r
  <2>1. SameRate(s, r)
    BY <1>1 DEF SameRate
  <2>2. rangesOverlap(s.tierFrom, s.tierTo, r.tierFrom, r.tierTo)
    BY <1>1, CommonPointOverlaps DEF RowCovers
  <2>3. periodsOverlap(s.from, s.until, r.from, r.until)
    BY <1>1, CommonInstantOverlaps DEF RowCovers
  <2> QED
    BY <1>1, <2>1, <2>2, <2>3 DEF Sound, checkOverlaps
<1>3. C = {r}
  BY <1>2
<1>4. r.id \in Int /\ r.rate \in Nat
  BY <1>1
<1>5. First({r}) = r
  BY <1>4 DEF First
<1> QED
  BY <1>2, <1>3, <1>4, <1>5

(* The rate of a kind, and what it comes from. *)
LEMMA RateOf ==
  ASSUME NEW q, Sound(q.table), q.at \in Int, NEW kind, NEW n \in 0 .. MaxInt - 1
  PROVE  LET C == Candidates(q.table, q.canonical, q.provider, kind, "standard", q.at, n)
         IN  /\ RateAt(q, kind, n) \in Nat
             /\ C = {} => RateAt(q, kind, n) = 0
             /\ C # {} => First(C).rate = RateAt(q, kind, n)
             /\ \A r \in C : r.rate = RateAt(q, kind, n)
<1> DEFINE C == Candidates(q.table, q.canonical, q.provider, kind, "standard", q.at, n)
<1>1. RateAt(q, kind, n) = IF C = {} THEN 0 ELSE First(C).rate
  BY DEF RateAt
<1>2. ASSUME NEW r \in C PROVE First(C) = r /\ r.rate \in Nat
  BY OneCandidate
<1> HIDE DEF C
<1>3. CASE C = {}
  BY <1>1, <1>3 DEF C
<1>4. CASE C # {}
  <2>1. PICK r \in C : TRUE
    BY <1>4
  <2>2. First(C) = r /\ r.rate \in Nat /\ \A s \in C : s = r
    BY <1>2
  <2> QED
    BY <1>1, <1>4, <2>2 DEF C
<1> QED
  BY <1>3, <1>4

LEMMA LeastOf ==
  ASSUME NEW T \in SUBSET Nat, T # {}
  PROVE  \E x \in T : \A y \in T : x <= y
<1> DEFINE R == OpToRel(<, Nat)
<1>1. IsWellFoundedOn(R, Nat)
  BY NatLessThanWellFounded
<1>2. PICK x \in T : \A y \in T : ~(<<y, x>> \in R)
  <2> HIDE DEF R
  <2> QED
    BY <1>1, WFMin
<1>3. \A y \in T : ~(y < x)
  BY <1>2 DEF OpToRel
<1> QED
  BY <1>3

(* GuardedTierTotal: the estimate, or the highest threshold that it is      *)
(* within the guard factor of.                                              *)
LEMMA Guarded ==
  ASSUME NEW e \in Nat, NEW T \in SUBSET Int
  PROVE  LET g == GuardedTierTotal(e, T) IN
         /\ g \in Nat /\ e <= g /\ GuardNum * g <= GuardDen * e
         /\ \A th \in T : (e < th /\ GuardNum * th <= GuardDen * e) => th <= g
<1> DEFINE near == {th \in T : th > 0 /\ e < th /\ GuardDen * e >= GuardNum * th}
           S == near \cup {e}
           B == GuardDen * e
           g == GuardedTierTotal(e, T)
<1>1. GuardNum \in Nat \ {0} /\ GuardDen \in Nat \ {0} /\ GuardNum <= GuardDen
  BY GuardAssumption
<1>2. B \in Nat
  BY <1>1
<1>3. ASSUME NEW x \in S PROVE x \in Nat /\ e <= x /\ GuardNum * x <= B /\ x <= B
  <2>1. x \in Nat /\ e <= x
    OBVIOUS
  <2>2. GuardNum * x <= B
    <3>1. CASE x = e
      BY <1>1, <3>1, MulMono
    <3>2. CASE x # e
      BY <3>2
    <3> QED
      BY <3>1, <3>2
  <2>3. 1 * x <= GuardNum * x
    <3>1. 1 <= GuardNum
      BY <1>1
    <3> QED
      BY <1>1, <2>1, <3>1, MulMono
  <2>4. GuardNum * x \in Nat
    BY <1>1, <2>1
  <2> HIDE DEF B, S
  <2> QED
    BY <1>2, <2>1, <2>2, <2>3, <2>4
<1> DEFINE D == {B - x : x \in S}
<1>4. D \in SUBSET Nat /\ D # {}
  <2> HIDE DEF B
  <2> QED
    BY <1>2, <1>3
<1>5. PICK y \in D : \A z \in D : y <= z
  <2> HIDE DEF D
  <2> QED
    BY <1>4, LeastOf
<1>6. PICK n \in S : y = B - n
  OBVIOUS
<1>7. ASSUME NEW m \in S PROVE m <= n
  <2>1. B - m \in D
    OBVIOUS
  <2>2. B - n <= B - m
    BY <1>5, <1>6, <2>1
  <2>3. m \in Nat /\ n \in Nat
    BY <1>3
  <2> HIDE DEF B
  <2> QED
    BY <1>2, <2>2, <2>3
<1>8. g \in S /\ \A m \in S : m <= g
  <2>1. g = CHOOSE x \in S : \A m \in S : m <= x
    BY DEF GuardedTierTotal
  <2> HIDE DEF S, g
  <2> QED
    BY <1>7, <2>1
<1>9. \A th \in T : (e < th /\ GuardNum * th <= B) => th \in S
  <2> HIDE DEF B
  <2> SUFFICES ASSUME NEW th \in T, e < th, GuardNum * th <= B PROVE th \in S
    OBVIOUS
  <2>1. th > 0 /\ GuardNum * th \in Int
    BY <1>1
  <2> QED
    BY <1>2, <2>1 DEF B
<1> HIDE DEF S, g
<1> QED
  BY <1>3, <1>8, <1>9 DEF g

(* No cliff lies between the guarded estimate and a prompt that the guard   *)
(* covers: on a rising card it is not priced higher than was reserved.      *)
LEMMA NoCliff ==
  ASSUME NEW q, Sound(q.table), q.at \in Int, RisingCard(q, MaxInt - 1),
         NEW e \in Nat, NEW n \in 0 .. MaxInt - 1, GuardNum * n <= GuardDen * e,
         GuardDen * e <= GuardNum * (MaxInt - 1), NEW kind \in {"input", "output"}
  PROVE  LET g == GuardedTierTotal(e, Thresholds(q.table, q.canonical, q.provider,
                                                 "standard"))
         IN  g \in 0 .. MaxInt - 1 /\ RateAt(q, kind, n) <= RateAt(q, kind, g)
<1> DEFINE T == Thresholds(q.table, q.canonical, q.provider, "standard")
           g == GuardedTierTotal(e, T)
           C(m) == Candidates(q.table, q.canonical, q.provider, kind, "standard", q.at, m)
<1>1. T \in SUBSET Int
  BY DEF Thresholds, RowsOf, Sound
<1>2. /\ g \in Nat /\ e <= g /\ GuardNum * g <= GuardDen * e
      /\ \A th \in T : (e < th /\ GuardNum * th <= GuardDen * e) => th <= g
  <2> HIDE DEF T
  <2> QED
    BY <1>1, Guarded
<1>3. GuardNum \in Nat \ {0} /\ GuardDen \in Nat \ {0} /\ MaxInt \in Nat \ {0}
  BY GuardAssumption, MaxIntAssumption
<1>4. g \in 0 .. MaxInt - 1
  <2>1. GuardNum * g <= GuardNum * (MaxInt - 1)
    <3>1. GuardNum * g \in Nat /\ GuardDen * e \in Nat /\ GuardNum * (MaxInt - 1) \in Nat
      BY <1>2, <1>3
    <3> QED
      BY <1>2, <3>1
  <2>2. g <= MaxInt - 1
    BY <1>2, <1>3, <2>1, MulCancel
  <2> QED
    BY <1>2, <1>3, <2>2
<1>5. CASE n <= g
  BY <1>4, <1>5 DEF RisingCard
<1>6. CASE g < n
  <2>1. ASSUME NEW r \in C(n) PROVE r \in C(g)
    <3>1. /\ r \in RowsOf(q.table, q.canonical, q.provider) /\ r.kind = kind
          /\ r.tier = "standard" /\ RowCovers(r, q.at, n)
      BY DEF Candidates
    <3>2. r.tierFrom \in Int /\ r.tierTo \in Int
      BY <3>1 DEF RowsOf, Sound
    <3>3. r.tierFrom <= g
      <4> SUFFICES ASSUME g < r.tierFrom PROVE FALSE
        BY <1>2, <3>2
      <4>1. r.tierFrom \in T
        BY <1>2, <3>1, <3>2 DEF Thresholds
      <4>2. r.tierFrom <= n /\ r.tierFrom \in Nat
        BY <1>2, <3>1, <3>2 DEF RowCovers
      <4>3. GuardNum * r.tierFrom <= GuardNum * n
        BY <1>3, <4>2, MulMono
      <4>4. GuardNum * r.tierFrom \in Nat /\ GuardNum * n \in Nat /\ GuardDen * e \in Nat
        BY <1>3, <4>2
      <4>5. GuardNum * r.tierFrom <= GuardDen * e
        BY <4>3, <4>4
      <4> HIDE DEF T, g
      <4> QED
        BY <1>2, <3>2, <4>1, <4>5
    <3>4. RowCovers(r, q.at, g)
      <4> HIDE DEF g
      <4> QED
        BY <1>2, <1>6, <3>1, <3>2, <3>3 DEF RowCovers
    <3> QED
      BY <3>1, <3>4 DEF Candidates
  <2>2. /\ RateAt(q, kind, g) \in Nat /\ \A r \in C(g) : r.rate = RateAt(q, kind, g)
    <3> HIDE DEF g
    <3> QED
      BY <1>4, RateOf
  <2>3. /\ C(n) = {} => RateAt(q, kind, n) = 0
        /\ \A r \in C(n) : r.rate = RateAt(q, kind, n)
    BY RateOf
  <2> HIDE DEF C, g
  <2>4. RateAt(q, kind, n) <= RateAt(q, kind, g)
    <3>1. CASE C(n) = {}
      BY <2>2, <2>3, <3>1
    <3>2. CASE C(n) # {}
      BY <2>1, <2>2, <2>3, <3>2
    <3> QED
      BY <3>1, <3>2
  <2> QED
    BY <1>4, <2>4 DEF g
<1> QED
  BY <1>2, <1>4, <1>5, <1>6

(* Cost, as a sum over all classes: what has no rate adds nothing.          *)
LEMMA CostIsSum ==
  ASSUME NEW q, Sound(q.table), q.at \in Int,
         Resolve(q.table, q.canonical, q.provider, q.at) = q.canonical,
         NEW D \in SUBSET AllKinds, NEW c \in [D -> Nat],
         InputTierTotal(c) \in 0 .. MaxInt - 1
  PROVE  LET g == [k \in AllKinds |-> IF k \in D /\ Billable(k)
                                     THEN c[k] * RateAt(q, k, InputTierTotal(c)) ELSE 0]
         IN  /\ \A k \in AllKinds : g[k] \in Nat
             /\ Cost(q.table, q.canonical, q.provider, "standard", q.at, c).cost
                  = Total(AllKinds, g)
<1> DEFINE n == InputTierTotal(c)
           g == [k \in AllKinds |-> IF k \in D /\ Billable(k)
                                   THEN c[k] * RateAt(q, k, n) ELSE 0]
           C(k) == Candidates(q.table, q.canonical, q.provider, k, "standard", q.at, n)
           charged == {k \in DOMAIN c : c[k] # 0 /\ Billable(k)}
           priced == {k \in charged : C(k) # {}}
           f == [k \in priced |-> c[k] * First(C(k)).rate]
           cost == Cost(q.table, q.canonical, q.provider, "standard", q.at, c)
<1>1. cost = IF RowsOf(q.table, q.canonical, q.provider) = {} THEN UnknownPrice
             ELSE IF \E k \in charged : c[k] < 0 THEN CostError
             ELSE IF priced = {} /\ charged # {} THEN UnknownPrice
             ELSE Priced(Total(priced, f), priced # charged)
  BY DEF Cost
<1>2. ~ \E k \in charged : c[k] < 0
  OBVIOUS
<1>3. \A k : /\ RateAt(q, k, n) \in Nat
             /\ C(k) = {} => RateAt(q, k, n) = 0
             /\ C(k) # {} => First(C(k)).rate = RateAt(q, k, n)
  <2> HIDE DEF n
  <2> QED
    BY RateOf DEF n
<1>4. ASSUME NEW k \in AllKinds PROVE g[k] \in Nat
  <2> HIDE DEF n
  <2>1. CASE k \in D /\ Billable(k)
    <3>1. c[k] \in Nat /\ RateAt(q, k, n) \in Nat
      BY <1>3, <2>1
    <3>2. c[k] * RateAt(q, k, n) \in Nat
      BY <3>1
    <3> QED
      BY <2>1, <3>2
  <2>2. CASE ~ (k \in D /\ Billable(k))
    BY <2>2
  <2> QED
    BY <2>1, <2>2
<1>5. priced \in SUBSET AllKinds
  OBVIOUS
<1>6. ASSUME NEW k \in AllKinds PROVE g[k] = IF k \in priced THEN f[k] ELSE 0
  <2> HIDE DEF n, C
  <2>1. CASE k \in priced
    BY <1>3, <2>1
  <2>2. CASE k \notin priced /\ k \in D /\ Billable(k)
    <3>1. c[k] \in Nat /\ RateAt(q, k, n) \in Nat
      BY <1>3, <2>2
    <3>2. c[k] = 0 \/ RateAt(q, k, n) = 0
      BY <1>3, <2>2
    <3>3. c[k] * RateAt(q, k, n) = 0
      BY <3>1, <3>2
    <3> QED
      BY <2>2, <3>3
  <2>3. CASE k \notin priced /\ ~ (k \in D /\ Billable(k))
    BY <2>3
  <2> QED
    BY <2>1, <2>2, <2>3
<1>7. Total(priced, f) = Total(AllKinds, g)
  <2>1. \A k \in priced : f[k] \in Nat
    BY <1>4, <1>5, <1>6
  <2> DEFINE h == [k \in AllKinds |-> IF k \in priced THEN f[k] ELSE 0]
  <2>2. \A k \in AllKinds : h[k] = g[k]
    BY <1>6
  <2> HIDE DEF g, f, priced
  <2>3. Total(priced, f) = Total(AllKinds, h)
    BY <1>5, <2>1, TotalOfSome
  <2> HIDE DEF h
  <2>4. Total(AllKinds, h) = Total(AllKinds, g)
    BY <2>2, TotalSame
  <2> QED
    BY <2>3, <2>4
<1>8. priced = {} => Total(priced, f) = 0
  <2> HIDE DEF f, priced
  <2> QED
    BY TotalEmpty
<1>9. RowsOf(q.table, q.canonical, q.provider) = {} => priced = {}
  BY DEF Candidates
<1>10. UnknownPrice.cost = 0 /\ \A x, b : Priced(x, b).cost = x
  BY DEF UnknownPrice, Priced
<1>11. cost.cost = Total(priced, f)
  <2> HIDE DEF f, priced, charged, cost
  <2> QED
    BY <1>1, <1>2, <1>8, <1>9, <1>10
<1> QED
  BY <1>4, <1>7, <1>11

(* What is reserved: the guarded prompt and the output asked for, at the    *)
(* rates of the guarded prompt.                                             *)
LEMMA EstimateIs ==
  ASSUME NEW q, Sound(q.table), q.at \in Int,
         Resolve(q.table, q.canonical, q.provider, q.at) = q.canonical,
         NEW g \in 0 .. MaxInt - 1,
         g = GuardedTierTotal(EstimateInputTokens(q.promptBytes),
                              Thresholds(q.table, q.canonical, q.provider, "standard")),
         NEW o \in Nat, o = ReservedOutput(q.maxTokens)
  PROVE  Estimate(q.table, q.canonical, q.provider, "standard", q.at, q.promptBytes,
                  q.maxTokens).cost
           = g * RateAt(q, "input", g) + o * RateAt(q, "output", g)
<1> DEFINE D == {"input", "output"}
           c == [k \in D |-> IF k = "input" THEN g ELSE o]
           S == {k \in DOMAIN c : c[k] > 0 /\ CountsTowardInputTier(k)}
           w == [k \in AllKinds |-> IF k \in D /\ Billable(k)
                                   THEN c[k] * RateAt(q, k, InputTierTotal(c)) ELSE 0]
<1>1. D \in SUBSET AllKinds /\ c \in [D -> Nat] /\ c["input"] = g /\ c["output"] = o
  BY DEF AllKinds
<1>2. InputTierTotal(c) = g
  <2>1. CASE g = 0
    <3>1. S = {}
      BY <2>1 DEF CountsTowardInputTier
    <3>2. Total(S, c) = 0
      <4> HIDE DEF c
      <4> QED
        BY <3>1, TotalEmpty
    <3> QED
      BY <2>1, <3>2 DEF InputTierTotal
  <2>2. CASE g # 0
    <3>1. S = {"input"}
      BY <2>2 DEF CountsTowardInputTier
    <3>2. Total(S, c) = g
      <4> HIDE DEF c
      <4> QED
        BY <1>1, <3>1, TotalSingleton
    <3> QED
      BY <3>2 DEF InputTierTotal
  <2> QED
    BY <2>1, <2>2
<1>3. Estimate(q.table, q.canonical, q.provider, "standard", q.at, q.promptBytes,
               q.maxTokens)
        = Cost(q.table, q.canonical, q.provider, "standard", q.at, c)
  BY DEF Estimate
<1>4. /\ \A k \in AllKinds : w[k] \in Nat
      /\ Cost(q.table, q.canonical, q.provider, "standard", q.at, c).cost
           = Total(AllKinds, w)
  <2> HIDE DEF c, D
  <2> QED
    BY <1>1, <1>2, CostIsSum
<1>5. /\ w["input"] = g * RateAt(q, "input", g) /\ w["output"] = o * RateAt(q, "output", g)
      /\ \A k \in AllKinds \ {"input", "output"} : w[k] = 0
  <2> HIDE DEF c
  <2> QED
    BY <1>1, <1>2 DEF AllKinds, Billable
<1> HIDE DEF w
<1>6. Total(AllKinds, w) =
        w["input"] + w["output"] + w["cached_read"] + w["cache_write_5m"]
          + w["cache_write_1h"] + w["reasoning"] + w["audio_input"] + w["audio_output"]
  BY <1>4, TotalOfKinds
<1>7. /\ w["cached_read"] = 0 /\ w["cache_write_5m"] = 0 /\ w["cache_write_1h"] = 0
      /\ w["reasoning"] = 0 /\ w["audio_input"] = 0 /\ w["audio_output"] = 0
      /\ w["input"] \in Nat /\ w["output"] \in Nat
  BY <1>4, <1>5 DEF AllKinds
<1>8. Total(AllKinds, w) = w["input"] + w["output"]
  BY <1>6, <1>7
<1> QED
  BY <1>3, <1>4, <1>5, <1>8

(* What is charged is at most the whole prompt at the rate of plain input,  *)
(* and the output.                                                          *)
LEMMA ChargeAtMost ==
  ASSUME NEW q, Sound(q.table), q.at \in Int, RisingCard(q, MaxInt - 1),
         Resolve(q.table, q.canonical, q.provider, q.at) = q.canonical,
         NEW c \in [AllKinds -> Nat], c["audio_output"] = 0,
         NEW n \in 0 .. MaxInt - 1, n = InputTierTotal(c)
  PROVE  LET cost == Cost(q.table, q.canonical, q.provider, "standard", q.at, c).cost
         IN  /\ cost \in Nat
             /\ cost <= n * RateAt(q, "input", n) + c["output"] * RateAt(q, "output", n)
<1> DEFINE w == [k \in AllKinds |-> IF k \in AllKinds /\ Billable(k)
                                   THEN c[k] * RateAt(q, k, InputTierTotal(c)) ELSE 0]
           R == RateAt(q, "input", n)
           cost == Cost(q.table, q.canonical, q.provider, "standard", q.at, c).cost
           In == {"input", "cached_read", "cache_write_5m", "cache_write_1h", "audio_input"}
<1>1. (\A k \in AllKinds : w[k] \in Nat) /\ cost = Total(AllKinds, w)
  BY CostIsSum
<1>2. \A k : RateAt(q, k, n) \in Nat
  BY RateOf
<1>3. ASSUME NEW k \in In PROVE w[k] <= c[k] * R
  <2>1. k \in AllKinds /\ CountsTowardInputTier(k) /\ Billable(k)
    BY DEF AllKinds, CountsTowardInputTier, Billable
  <2>2. w[k] = c[k] * RateAt(q, k, n) /\ c[k] \in Nat
    BY <2>1
  <2>3. RateAt(q, k, n) <= R
    BY <2>1 DEF RisingCard
  <2> QED
    BY <1>2, <2>2, <2>3, MulMono
<1>4. w["output"] = c["output"] * RateAt(q, "output", n) /\ w["reasoning"] = 0
      /\ w["audio_output"] = 0
  <2>1. w["output"] = c["output"] * RateAt(q, "output", n) /\ w["reasoning"] = 0
        /\ w["audio_output"] = 0 * RateAt(q, "audio_output", n)
    BY DEF AllKinds, Billable
  <2> QED
    BY <1>2, <2>1
<1> HIDE DEF w
<1>5. Total(AllKinds, w) =
        w["input"] + w["output"] + w["cached_read"] + w["cache_write_5m"]
          + w["cache_write_1h"] + w["reasoning"] + w["audio_input"] + w["audio_output"]
  BY <1>1, TotalOfKinds
<1>6. /\ w["input"] \in Nat /\ w["output"] \in Nat /\ w["cached_read"] \in Nat
      /\ w["cache_write_5m"] \in Nat /\ w["cache_write_1h"] \in Nat
      /\ w["audio_input"] \in Nat
  BY <1>1 DEF AllKinds
<1>7. n = c["input"] + c["cached_read"] + c["cache_write_5m"] + c["cache_write_1h"]
            + c["audio_input"]
  BY InputTokens
<1>8. /\ c["input"] \in Nat /\ c["cached_read"] \in Nat /\ c["cache_write_5m"] \in Nat
      /\ c["cache_write_1h"] \in Nat /\ c["audio_input"] \in Nat /\ R \in Nat
  BY <1>2 DEF AllKinds
<1> HIDE DEF R
<1>9. n * R = c["input"] * R + c["cached_read"] * R + c["cache_write_5m"] * R
                + c["cache_write_1h"] * R + c["audio_input"] * R
  BY <1>7, <1>8
<1>10. /\ w["input"] <= c["input"] * R /\ w["cached_read"] <= c["cached_read"] * R
       /\ w["cache_write_5m"] <= c["cache_write_5m"] * R
       /\ w["cache_write_1h"] <= c["cache_write_1h"] * R
       /\ w["audio_input"] <= c["audio_input"] * R
  BY <1>3
<1>11. /\ c["input"] * R \in Nat /\ c["cached_read"] * R \in Nat
       /\ c["cache_write_5m"] * R \in Nat /\ c["cache_write_1h"] * R \in Nat
       /\ c["audio_input"] * R \in Nat
  BY <1>8
<1>12. cost = w["input"] + w["output"] + w["cached_read"] + w["cache_write_5m"]
                + w["cache_write_1h"] + w["audio_input"]
  BY <1>1, <1>4, <1>5, <1>6
<1>13. cost \in Nat /\ cost <= n * R + w["output"]
  <2> HIDE DEF cost
  <2> QED
    BY <1>6, <1>9, <1>10, <1>11, <1>12
<1> QED
  BY <1>4, <1>13 DEF R

(* The factor carries over from the tokens to the money. *)
LEMMA GuardedCost ==
  ASSUME NEW a \in Nat, NEW b \in Nat, NEW n \in Nat, NEW g \in Nat, NEW e \in Nat,
         NEW out \in Nat, NEW o \in Nat, NEW ri \in Nat, NEW ro \in Nat,
         NEW Ri \in Nat, NEW Ro \in Nat, NEW cost \in Nat,
         a <= b, a * n <= b * e, e <= g, out <= o, ri <= Ri, ro <= Ro,
         cost <= n * ri + out * ro
  PROVE  a * cost <= b * (g * Ri + o * Ro)
<1>1. n * ri <= n * Ri /\ out * ro <= o * Ro
  <2>1. out * ro <= o * ro /\ o * ro <= o * Ro /\ n * ri <= n * Ri
    BY MulMono
  <2>2. out * ro \in Nat /\ o * ro \in Nat /\ o * Ro \in Nat
    OBVIOUS
  <2> QED
    BY <2>1, <2>2
<1>2. /\ n * ri \in Nat /\ n * Ri \in Nat /\ out * ro \in Nat /\ o * Ro \in Nat
      /\ g * Ri \in Nat /\ e * Ri \in Nat
  OBVIOUS
<1>3. cost <= n * Ri + o * Ro
  BY <1>1, <1>2
<1>4. a * cost <= a * (n * Ri + o * Ro)
  BY <1>2, <1>3, MulMono
<1>5. a * (n * Ri + o * Ro) = (a * n) * Ri + a * (o * Ro)
  BY <1>2
<1>6. (a * n) * Ri <= (b * e) * Ri /\ a * (o * Ro) <= b * (o * Ro)
  <2>1. a * n \in Nat /\ b * e \in Nat
    OBVIOUS
  <2> QED
    BY <1>2, <2>1, MulMono
<1>7. (b * e) * Ri = b * (e * Ri) /\ b * (e * Ri) <= b * (g * Ri)
  <2>1. e * Ri <= g * Ri
    BY MulMono
  <2> QED
    BY <1>2, <2>1, MulMono
<1>8. b * (g * Ri + o * Ro) = b * (g * Ri) + b * (o * Ro)
  BY <1>2
<1>9. /\ (a * n) * Ri \in Nat /\ a * (o * Ro) \in Nat /\ (b * e) * Ri \in Nat
      /\ b * (o * Ro) \in Nat /\ b * (g * Ri) \in Nat /\ a * cost \in Nat
  BY <1>2
<1> QED
  BY <1>4, <1>5, <1>6, <1>7, <1>8, <1>9

(* ReservationHolds, for any price list that rises with the prompt and any  *)
(* answer within the guard: the charge exceeds the reservation by no more   *)
(* than the factor by which the prompt exceeded its estimate, across any    *)
(* number of context tiers and whatever is reloaded meanwhile.              *)
THEOREM GuardHolds == Spec => []ReservationHolds
<1>1. PricingInv => ReservationHolds
  <2> SUFFICES ASSUME PricingInv, NEW r \in Settled,
                      ~ req[r].quote.stream, req[r].served = req[r].quote.canonical,
                      Resolve(req[r].quote.table, req[r].quote.canonical,
                              req[r].quote.provider, req[r].quote.at)
                         = req[r].quote.canonical,
                      RisingCard(req[r].quote, MaxInt - 1),
                      GuardNum * InputTierTotal(req[r].counts)
                         <= GuardDen * EstimateInputTokens(req[r].quote.promptBytes),
                      req[r].counts["output"] <= ReservedOutput(req[r].quote.maxTokens)
               PROVE  GuardNum * req[r].result.cost
                         <= GuardDen * req[r].quote.estimate.cost
    BY DEF ReservationHolds
  <2> DEFINE q == req[r].quote
             c == req[r].counts
             n == InputTierTotal(c)
             e == EstimateInputTokens(q.promptBytes)
             g == GuardedTierTotal(e, Thresholds(q.table, q.canonical, q.provider,
                                                 "standard"))
             o == ReservedOutput(q.maxTokens)
  <2>1. SettledInv(req[r])
    BY DEF PricingInv, Settled
  <2>2. /\ Sound(q.table) /\ q.at \in Int /\ q.provider \in Providers
        /\ q.promptBytes \in PromptSizes /\ q.maxTokens \in Ceilings
        /\ q.estimate = Estimate(q.table, q.canonical, q.provider, "standard", q.at,
                                 q.promptBytes, q.maxTokens)
        /\ req[r].result = Cost(q.table, q.canonical, q.provider, "standard", q.at, c)
    BY <2>1, MaxTimeAssumption DEF SettledInv, QuoteInv
  <2>3. c \in [AllKinds -> Nat] /\ c["audio_output"] = 0
    BY <2>1, <2>2, MetersFaithful DEF SettledInv, Measured
  <2>4. e \in Nat /\ o \in Nat /\ GuardDen * e <= GuardNum * (MaxInt - 1)
    <3>1. q.promptBytes \in Nat /\ q.maxTokens \in Int
      BY <2>2, PromptsAssumption
    <3>2. e \in Nat
      BY <3>1 DEF EstimateInputTokens, CharsPerToken
    <3>3. o \in Nat
      BY <3>1, DefaultAssumption DEF ReservedOutput
    <3> QED
      BY <2>2, <3>2, <3>3, PromptsAssumption
  <2>5. GuardNum \in Nat \ {0} /\ GuardDen \in Nat /\ GuardNum <= GuardDen
        /\ MaxInt \in Nat \ {0}
    BY GuardAssumption, MaxIntAssumption
  <2>6. n \in Nat
    <3>1. n = c["input"] + c["cached_read"] + c["cache_write_5m"] + c["cache_write_1h"]
                + c["audio_input"]
      BY <2>3, InputTokens
    <3>2. \A k \in AllKinds : c[k] \in Nat
      BY <2>3
    <3> QED
      BY <3>1, <3>2 DEF AllKinds
  <2> HIDE DEF q, c, n, e, g, o
  <2>7. GuardNum * n <= GuardDen * e
    BY DEF q, c, n, e
  <2>8. n \in 0 .. MaxInt - 1
    <3>1. GuardNum * n \in Nat /\ GuardDen * e \in Nat /\ GuardNum * (MaxInt - 1) \in Nat
      BY <2>4, <2>5, <2>6
    <3>2. GuardNum * n <= GuardNum * (MaxInt - 1)
      BY <2>4, <2>7, <3>1
    <3>3. n <= MaxInt - 1
      BY <2>5, <2>6, <3>2, MulCancel
    <3> QED
      BY <2>5, <2>6, <3>3
  <2>9. /\ RisingCard(q, MaxInt - 1)
        /\ Resolve(q.table, q.canonical, q.provider, q.at) = q.canonical
    BY DEF q
  <2>10. /\ g \in 0 .. MaxInt - 1
         /\ RateAt(q, "input", n) <= RateAt(q, "input", g)
         /\ RateAt(q, "output", n) <= RateAt(q, "output", g)
    BY <2>2, <2>4, <2>7, <2>8, <2>9, NoCliff DEF g
  <2>11. e <= g
    <3>1. Thresholds(q.table, q.canonical, q.provider, "standard") \in SUBSET Int
      BY <2>2 DEF Thresholds, RowsOf, Sound
    <3> QED
      BY <2>4, <3>1, Guarded DEF g
  <2>12. q.estimate.cost = g * RateAt(q, "input", g) + o * RateAt(q, "output", g)
    BY <2>2, <2>4, <2>9, <2>10, EstimateIs DEF g, e, o
  <2>13. /\ req[r].result.cost \in Nat
         /\ req[r].result.cost
              <= n * RateAt(q, "input", n) + c["output"] * RateAt(q, "output", n)
    BY <2>2, <2>3, <2>8, <2>9, ChargeAtMost DEF n
  <2>14. \A k : RateAt(q, k, n) \in Nat /\ RateAt(q, k, g) \in Nat
    BY <2>2, <2>8, <2>10, RateOf
  <2>15. c["output"] \in Nat /\ c["output"] <= o
    BY <2>3 DEF AllKinds, c, o, q
  <2>16. g \in Nat
    BY <2>5, <2>10
  <2>17. GuardNum * req[r].result.cost
           <= GuardDen * (g * RateAt(q, "input", g) + o * RateAt(q, "output", g))
    BY <2>4, <2>5, <2>6, <2>7, <2>10, <2>11, <2>13, <2>14, <2>15, <2>16, GuardedCost
  <2> QED
    BY <2>12, <2>17 DEF q
<1> QED
  BY PricingInvariance, <1>1, PTL
===============================================================================
