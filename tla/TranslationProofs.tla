-------------------------- MODULE TranslationProofs ---------------------------
(***************************************************************************)
(* Proofs about Translation: the limits of a request, and the streamed     *)
(* answer, for every message and every fault.                              *)
(*                                                                         *)
(* The inductive invariant StreamInv says how far the stream is: there are *)
(* k events behind and g lines of their last frame ahead.  It has three    *)
(* parts.  Left: the lines that remain are those of the events after k,    *)
(* with some garbled and the end cut.  Budget: the garbled lines that      *)
(* remain and the errors so far add up to at most two for each fault.      *)
(* State: the translator and the client hold what k events give, whole     *)
(* when nothing was garbled, and fragments in order otherwise.             *)
(*                                                                         *)
(* Facts about sequences of every length are proved by induction over the  *)
(* set of sequences (or of lengths) that have them, from WFMin.            *)
(***************************************************************************)
EXTENDS Translation, SumTheorems, SequenceTheorems, WellFoundedInduction, TLAPS

-------------------------------------------------------------------------------
(* Sequences: induction, FlattenSeq and what is read off a sequence. *)

(* Induction over the natural numbers, for sets. *)
LEMMA Induct ==
  ASSUME NEW T \in SUBSET Nat, 0 \in T, \A n \in T : n + 1 \in T
  PROVE  T = Nat
<1> SUFFICES ASSUME Nat \ T # {} PROVE FALSE
  OBVIOUS
<1>1. IsWellFoundedOn(OpToRel(<, Nat), Nat)
  BY NatLessThanWellFounded
<1>2. PICK m \in Nat \ T : \A k \in Nat \ T : ~ (<<k, m>> \in OpToRel(<, Nat))
  BY <1>1, WFMin
<1>3. \A k \in Nat : k < m => k \in T
  BY <1>2 DEF OpToRel
<1>4. m \in Nat /\ m \notin T /\ m # 0
  BY <1>2
<1>5. m - 1 \in Nat /\ m - 1 < m /\ (m - 1) + 1 = m
  BY <1>4
<1> QED
  BY <1>3, <1>4, <1>5

(* FlattenSeq, as the sequence of its partial results. *)
Partial(ss, n, f) ==
    /\ f = [i \in 1 .. n |-> f[i]]
    /\ \A i \in 1 .. n : f[i] = IF i = 1 THEN ss[i] ELSE f[i - 1] \o ss[i]

(* The partial results exist, for every prefix of a sequence of sequences. *)
LEMMA PartialExists ==
  ASSUME NEW S, NEW ss \in Seq(Seq(S))
  PROVE  \A n \in 0 .. Len(ss) : \E f \in [1 .. n -> Seq(S)] : Partial(ss, n, f)
<1> DEFINE T == {n \in Nat : n =< Len(ss) => \E f \in [1 .. n -> Seq(S)] : Partial(ss, n, f)}
<1>1. 0 \in T
  <2>1. [i \in 1 .. 0 |-> <<>>] \in [1 .. 0 -> Seq(S)] /\ Partial(ss, 0, [i \in 1 .. 0 |-> <<>>])
    BY DEF Partial
  <2> QED
    BY <2>1
<1>2. ASSUME NEW n \in T PROVE n + 1 \in T
  <2> SUFFICES ASSUME n + 1 =< Len(ss)
               PROVE  \E f \in [1 .. n + 1 -> Seq(S)] : Partial(ss, n + 1, f)
    OBVIOUS
  <2>1. PICK g \in [1 .. n -> Seq(S)] : Partial(ss, n, g)
    BY <1>2
  <2>0. n \in Nat
    BY <1>2
  <2>5. \A j \in 1 .. n : g[j] = IF j = 1 THEN ss[j] ELSE g[j - 1] \o ss[j]
    BY <2>1 DEF Partial
  <2> DEFINE last == IF n = 0 THEN ss[1] ELSE g[n] \o ss[n + 1]
             f == [i \in 1 .. n + 1 |-> IF i =< n THEN g[i] ELSE last]
  <2>2. ss[n + 1] \in Seq(S) /\ last \in Seq(S)
    BY <1>2, ConcatProperties
  <2>3. f \in [1 .. n + 1 -> Seq(S)]
    BY <2>2
  <2>4. Partial(ss, n + 1, f)
    <3>1. ASSUME NEW i \in 1 .. n + 1
          PROVE  f[i] = IF i = 1 THEN ss[i] ELSE f[i - 1] \o ss[i]
      <4>1. CASE i =< n
        <5>1. g[i] = IF i = 1 THEN ss[i] ELSE g[i - 1] \o ss[i]
          <6>1. i \in 1 .. n
            BY <2>0, <4>1
          <6> HIDE DEF f, last
          <6> QED
            BY <2>5, <6>1
        <5>2. i # 1 => i - 1 \in 1 .. n + 1 /\ i - 1 =< n
          BY <2>0, <4>1
        <5>3. f[i] = g[i] /\ (i # 1 => f[i - 1] = g[i - 1])
          BY <2>0, <4>1, <5>2
        <5> QED
          BY <5>1, <5>3
      <4>2. CASE i = n + 1
        BY <4>2
      <4> QED
        BY <2>0, <4>1, <4>2
    <3> HIDE DEF f
    <3> QED
      BY <2>3, <3>1 DEF Partial
  <2> QED
    BY <2>3, <2>4
<1>3. T = Nat
  <2> HIDE DEF T
  <2> QED
    BY <1>1, <1>2, Induct DEF T
<1>4. \A n \in 0 .. Len(ss) : n \in T
  <2>1. Len(ss) \in Nat
    OBVIOUS
  <2> HIDE DEF T
  <2> QED
    BY <1>3, <2>1
<1> QED
  BY <1>4

(* Where two sequences of sequences agree, so do their partial results. *)
LEMMA PartialSame ==
  ASSUME NEW ss, NEW tt, NEW m \in Nat, NEW n \in Nat, m =< n, NEW f, NEW g,
         Partial(ss, m, f), Partial(tt, n, g), \A i \in 1 .. m : ss[i] = tt[i]
  PROVE  \A i \in 1 .. m : f[i] = g[i]
<1> DEFINE T == {i \in Nat : i \in 1 .. m => f[i] = g[i]}
<1>1. 0 \in T
  OBVIOUS
<1>2. ASSUME NEW i \in T PROVE i + 1 \in T
  <2> SUFFICES ASSUME i + 1 \in 1 .. m PROVE f[i + 1] = g[i + 1]
    OBVIOUS
  <2>0. i \in Nat /\ i + 1 \in 1 .. m /\ i + 1 \in 1 .. n /\ (i + 1) - 1 = i
           /\ (i # 0 => f[i] = g[i])
    BY <1>2
  <2>1. f[i + 1] = IF i + 1 = 1 THEN ss[i + 1] ELSE f[i] \o ss[i + 1]
    BY <2>0 DEF Partial
  <2>2. g[i + 1] = IF i + 1 = 1 THEN tt[i + 1] ELSE g[i] \o tt[i + 1]
    BY <2>0 DEF Partial
  <2> QED
    BY <2>0, <2>1, <2>2
<1>3. T = Nat
  <2> HIDE DEF T
  <2> QED
    BY <1>1, <1>2, Induct DEF T
<1>4. \A i \in 1 .. m : i \in T
  <2> HIDE DEF T
  <2> QED
    BY <1>3
<1> QED
  BY <1>4

(* FlattenSeq is the last of its partial results. *)
LEMMA FlattenIsPartial ==
  ASSUME NEW S, NEW ss \in Seq(Seq(S)), ss # <<>>
  PROVE  \E f \in [1 .. Len(ss) -> Seq(S)] :
            Partial(ss, Len(ss), f) /\ FlattenSeq(ss) = f[Len(ss)]
<1> DEFINE Eqn(f) == f = [i \in 1 .. Len(ss) |-> IF i = 1 THEN ss[i] ELSE f[i - 1] \o ss[i]]
           h == CHOOSE f : Eqn(f)
<1>1. PICK f \in [1 .. Len(ss) -> Seq(S)] : Partial(ss, Len(ss), f)
  BY PartialExists
<1>2. Eqn(f)
  BY <1>1 DEF Partial
<1>3. Eqn(h)
  BY <1>2
<1>4. Len(ss) \in Nat /\ Len(ss) # 0
  OBVIOUS
<1>5. FlattenSeq(ss) = h[Len(ss)]
  BY <1>4 DEF FlattenSeq
<1> HIDE DEF h
<1>6. Partial(ss, Len(ss), h)
  <2>1. \A i \in 1 .. Len(ss) : h[i] = IF i = 1 THEN ss[i] ELSE h[i - 1] \o ss[i]
    BY <1>3
  <2>2. h = [i \in 1 .. Len(ss) |-> h[i]]
    BY <1>3
  <2> QED
    BY <2>1, <2>2 DEF Partial
<1>7. \A i \in 1 .. Len(ss) : h[i] = f[i]
  BY <1>1, <1>4, <1>6, PartialSame
<1>8. Len(ss) \in 1 .. Len(ss)
  BY <1>4
<1>9. FlattenSeq(ss) = f[Len(ss)]
  BY <1>5, <1>7, <1>8
<1> QED
  BY <1>1, <1>9

(* What FlattenSeq computes, from left to right. *)
LEMMA FlattenEmpty == FlattenSeq(<<>>) = <<>>
BY DEF FlattenSeq

(* Flattening sequences over S gives a sequence over S. *)
LEMMA FlattenType ==
  ASSUME NEW S, NEW ss \in Seq(Seq(S))
  PROVE  FlattenSeq(ss) \in Seq(S)
<1>1. CASE ss = <<>>
  BY <1>1, FlattenEmpty, EmptySeq
<1>2. CASE ss # <<>>
  <2>1. PICK f \in [1 .. Len(ss) -> Seq(S)] : FlattenSeq(ss) = f[Len(ss)]
    BY <1>2, FlattenIsPartial
  <2>2. Len(ss) \in 1 .. Len(ss)
    BY <1>2
  <2> QED
    BY <2>1, <2>2
<1> QED
  BY <1>1, <1>2

Agree(ss, tt, n) == \A i \in 1 .. n : ss[i] = tt[i]

SameAt(f, g, n) == f[n] = g[n]

(* The partial results of a sequence are those of one that is longer. *)
LEMMA PartialGrows ==
  ASSUME NEW ss, NEW tt, NEW m \in Nat, NEW n \in Nat, n # 0, m = n + 1, NEW f, NEW g,
         Partial(ss, n, f), Partial(tt, m, g), Agree(ss, tt, n)
  PROVE  SameAt(f, g, n)
<1>0. \A i \in 1 .. n : ss[i] = tt[i]
  BY DEF Agree
<1>1. \A i \in 1 .. n : f[i] = g[i]
  BY <1>0, PartialSame
<1>2. n \in 1 .. n
  OBVIOUS
<1> QED
  BY <1>1, <1>2 DEF SameAt

(* One sequence more is one more at the end. *)
LEMMA FlattenAppend ==
  ASSUME NEW S, NEW ss \in Seq(Seq(S)), NEW s \in Seq(S)
  PROVE  FlattenSeq(Append(ss, s)) = FlattenSeq(ss) \o s
<1>1. ASSUME NEW uu, NEW tt, NEW n, NEW m, uu \in Seq(Seq(S)), uu # <<>>, n = Len(uu),
             m = n + 1, tt \in Seq(Seq(S)), Len(tt) = m, Agree(uu, tt, n)
      PROVE  FlattenSeq(tt) = FlattenSeq(uu) \o tt[m]
  <2>3. n \in Nat /\ m \in Nat /\ n # 0 /\ m = n + 1 /\ tt # <<>>
    BY <1>1
  <2>2. PICK g : Partial(tt, m, g) /\ FlattenSeq(tt) = g[m]
    BY <1>1, <2>3, FlattenIsPartial
  <2>4. PICK f : Partial(uu, n, f) /\ FlattenSeq(uu) = f[n]
    BY <1>1, FlattenIsPartial
  <2>5. f[n] = g[n]
    <3>1. Partial(tt, m, g) /\ Partial(uu, n, f) /\ Agree(uu, tt, n)
      BY <2>2, <2>4, <1>1
    <3>2. SameAt(f, g, n)
      BY <2>3, <3>1, PartialGrows
    <3> QED
      BY <3>2 DEF SameAt
  <2>6. g[m] = g[n] \o tt[m]
    <3>1. m \in 1 .. m /\ m # 1 /\ m - 1 = n
      BY <2>3
    <3>2. \A i \in 1 .. m : g[i] = IF i = 1 THEN tt[i] ELSE g[i - 1] \o tt[i]
      BY <2>2 DEF Partial
    <3> QED
      BY <3>1, <3>2
  <2> QED
    BY <2>2, <2>4, <2>5, <2>6
<1>3. CASE ss # <<>>
  <2>1. /\ Append(ss, s) \in Seq(Seq(S)) /\ Len(Append(ss, s)) = Len(ss) + 1
        /\ Append(ss, s)[Len(ss) + 1] = s
    BY AppendProperties
  <2>2. Agree(ss, Append(ss, s), Len(ss))
    BY AppendProperties DEF Agree
  <2> DEFINE tt == Append(ss, s)
             n  == Len(ss)
             m  == Len(ss) + 1
  <2>3. /\ ss \in Seq(Seq(S)) /\ ss # <<>> /\ n = Len(ss) /\ m = n + 1
        /\ tt \in Seq(Seq(S)) /\ Len(tt) = m /\ Agree(ss, tt, n) /\ tt[m] = s
    BY <1>3, <2>1, <2>2
  <2> HIDE DEF tt, n, m
  <2>4. FlattenSeq(tt) = FlattenSeq(ss) \o tt[m]
    BY ONLY <1>1, <2>3, Zenon
  <2>5. FlattenSeq(tt) = FlattenSeq(ss) \o s
    BY ONLY <2>3, <2>4, Zenon
  <2> QED
    BY ONLY <2>5, Zenon DEF tt
<1>2. CASE ss = <<>>
  <2>1. Append(ss, s) \in Seq(Seq(S)) /\ Append(ss, s) # <<>> /\ Len(Append(ss, s)) = 1
          /\ Append(ss, s)[1] = s
    BY <1>2
  <2>2. PICK g : Partial(Append(ss, s), 1, g) /\ FlattenSeq(Append(ss, s)) = g[1]
    BY <2>1, FlattenIsPartial
  <2>3. FlattenSeq(Append(ss, s)) = s
    BY <2>1, <2>2 DEF Partial
  <2> QED
    BY <1>2, <2>3, FlattenEmpty
<1> QED
  BY <1>2, <1>3

(* The prefix of length 0 is empty. *)
LEMMA PrefixNone == \A s : SubSeq(s, 1, 0) = <<>>
  OBVIOUS

(* A prefix grows by one element. *)
LEMMA PrefixGrows ==
  ASSUME NEW S, NEW s \in Seq(S), NEW n \in Nat, n + 1 =< Len(s)
  PROVE  /\ SubSeq(s, 1, n) \in Seq(S) /\ Len(SubSeq(s, 1, n)) = n /\ s[n + 1] \in S
         /\ SubSeq(s, 1, n + 1) = Append(SubSeq(s, 1, n), s[n + 1])
  OBVIOUS

(* The longest prefix is the sequence. *)
LEMMA PrefixAll ==
  ASSUME NEW S, NEW s \in Seq(S)
  PROVE  SubSeq(s, 1, Len(s)) = s
  OBVIOUS

(* What is not empty has a last element. *)
LEMMA LastSplit ==
  ASSUME NEW S, NEW s \in Seq(S), s # <<>>
  PROVE  \E t \in Seq(S), e \in S : s = Append(t, e) /\ Len(s) = Len(t) + 1
<1>1. PICK n \in Nat : Len(s) = n + 1
  <2>1. Len(s) \in Nat /\ Len(s) # 0
    OBVIOUS
  <2>2. Len(s) - 1 \in Nat /\ Len(s) = (Len(s) - 1) + 1
    BY <2>1
  <2> QED
    BY <2>2
<1> DEFINE t == SubSeq(s, 1, n)
           e == s[n + 1]
<1>2. t \in Seq(S) /\ Len(t) = n /\ e \in S
  BY <1>1
<1>3. s = Append(t, e)
  BY <1>1
<1> HIDE DEF t, e
<1> QED
  BY <1>1, <1>2, <1>3

(* Induction over sequences, for sets: what holds of the empty sequence and *)
(* is kept by Append holds of every sequence.                               *)
LEMMA SeqInduct ==
  ASSUME NEW S, NEW T \in SUBSET Seq(S), <<>> \in T,
         \A s \in T : \A e \in S : Append(s, e) \in T
  PROVE  T = Seq(S)
<1> DEFINE L == {n \in Nat : \A s \in Seq(S) : Len(s) = n => s \in T}
<1>1. 0 \in L
  OBVIOUS
<1>2. ASSUME NEW n \in Nat, n \in L PROVE n + 1 \in L
  <2> SUFFICES ASSUME NEW s \in Seq(S), Len(s) = n + 1 PROVE s \in T
    OBVIOUS
  <2>1. \A t \in Seq(S) : Len(t) = n => t \in T
    BY <1>2
  <2>2. PICK t \in Seq(S), e \in S : s = Append(t, e) /\ Len(s) = Len(t) + 1
    <3>1. s # <<>>
      OBVIOUS
    <3> QED
      BY <3>1, LastSplit
  <2>3. t \in T
    BY <2>1, <2>2
  <2> QED
    BY <2>2, <2>3
<1>3. L = Nat
  <2> HIDE DEF L
  <2> QED
    BY <1>1, <1>2, Induct DEF L
<1>4. ASSUME NEW s \in Seq(S) PROVE s \in T
  <2>1. Len(s) \in Nat
    OBVIOUS
  <2>2. Len(s) \in L
    BY <1>3, <2>1
  <2> QED
    BY <2>2
<1> QED
  BY <1>4

(* What is read off a sequence, each element giving a sequence. *)
Mapped(h, s) == FlattenSeq([i \in 1 .. Len(s) |-> h[s[i]]])

(* What a reading of a sequence is made of. *)
LEMMA MapType ==
  ASSUME NEW S, NEW R, NEW h \in [S -> Seq(R)], NEW s \in Seq(S)
  PROVE  /\ [i \in 1 .. Len(s) |-> h[s[i]]] \in Seq(Seq(R))
         /\ Mapped(h, s) \in Seq(R)
<1>1. [i \in 1 .. Len(s) |-> h[s[i]]] \in Seq(Seq(R))
  OBVIOUS
<1> QED
  BY <1>1, FlattenType DEF Mapped

(* There is nothing to read in the empty sequence. *)
LEMMA MappedEmpty == \A h : Mapped(h, <<>>) = <<>>
<1> SUFFICES ASSUME NEW h PROVE Mapped(h, <<>>) = <<>>
  OBVIOUS
<1>1. [i \in 1 .. Len(<<>>) |-> h[<<>>[i]]] = <<>>
  OBVIOUS
<1> QED
  BY <1>1, FlattenEmpty DEF Mapped

(* One element more is read at the end. *)
LEMMA MappedAppend ==
  ASSUME NEW S, NEW R, NEW h \in [S -> Seq(R)], NEW s \in Seq(S), NEW e \in S
  PROVE  Mapped(h, Append(s, e)) = Mapped(h, s) \o h[e]
<1> DEFINE m == [i \in 1 .. Len(s) |-> h[s[i]]]
           n == [i \in 1 .. Len(Append(s, e)) |-> h[Append(s, e)[i]]]
<1>1. n = Append(m, h[e])
  OBVIOUS
<1>2. m \in Seq(Seq(R)) /\ h[e] \in Seq(R)
  OBVIOUS
<1>3. FlattenSeq(Append(m, h[e])) = FlattenSeq(m) \o h[e]
  <2> HIDE DEF m
  <2> QED
    BY <1>2, FlattenAppend
<1>4. FlattenSeq(n) = FlattenSeq(m) \o h[e]
  <2> HIDE DEF m, n
  <2> QED
    BY <1>1, <1>3
<1> QED
  BY <1>4 DEF Mapped

(* Two sequences are read one after the other. *)
LEMMA MappedConcat ==
  ASSUME NEW S, NEW R, NEW h \in [S -> Seq(R)], NEW s \in Seq(S), NEW t \in Seq(S)
  PROVE  Mapped(h, s \o t) = Mapped(h, s) \o Mapped(h, t)
<1> DEFINE T == {u \in Seq(S) : Mapped(h, s \o u) = Mapped(h, s) \o Mapped(h, u)}
<1>0. Mapped(h, s) \in Seq(R)
  BY MapType
<1>1. <<>> \in T
  <2>1. s \o <<>> = s /\ Mapped(h, s) \o <<>> = Mapped(h, s)
    BY <1>0, ConcatEmptySeq
  <2>2. Mapped(h, s \o <<>>) = Mapped(h, s) \o Mapped(h, <<>>)
    BY ONLY <2>1, MappedEmpty, Zenon
  <2> QED
    BY <2>2
<1>2. ASSUME NEW u \in T, NEW e \in S PROVE Append(u, e) \in T
  <2>1. /\ u \in Seq(S) /\ Mapped(h, s \o u) = Mapped(h, s) \o Mapped(h, u)
        /\ Append(u, e) \in Seq(S) /\ s \o u \in Seq(S)
    OBVIOUS
  <2>2. s \o Append(u, e) = Append(s \o u, e)
    BY <2>1
  <2>3. Mapped(h, Append(s \o u, e)) = Mapped(h, s \o u) \o h[e]
    BY <2>1, MappedAppend
  <2>4. Mapped(h, Append(u, e)) = Mapped(h, u) \o h[e] /\ Mapped(h, u) \in Seq(R)
    BY <2>1, MappedAppend, MapType
  <2>5. (Mapped(h, s) \o Mapped(h, u)) \o h[e] = Mapped(h, s) \o (Mapped(h, u) \o h[e])
    <3>1. h[e] \in Seq(R)
      OBVIOUS
    <3> QED
      BY <1>0, <2>4, <3>1, ConcatAssociative
  <2> QED
    BY <2>1, <2>2, <2>3, <2>4, <2>5
<1>3. T = Seq(S)
  <2> HIDE DEF T
  <2> QED
    BY <1>1, <1>2, SeqInduct DEF T
<1> QED
  BY <1>3

(* Reading in parts. *)
ReadInParts(h, S) ==
    \A s, t \in Seq(S) : Mapped(h, s \o t) = Mapped(h, s) \o Mapped(h, t)

(* The same as MappedConcat, of all sequences at once. *)
LEMMA MappedInParts ==
  ASSUME NEW S, NEW R, NEW h \in [S -> Seq(R)]
  PROVE  ReadInParts(h, S)
<1>1. ASSUME NEW s \in Seq(S), NEW t \in Seq(S)
      PROVE  Mapped(h, s \o t) = Mapped(h, s) \o Mapped(h, t)
  BY MappedConcat
<1> QED
  BY <1>1 DEF ReadInParts

(* A flattened sequence is read piece by piece. *)
LEMMA MappedFlatten ==
  ASSUME NEW S, NEW R, NEW h \in [S -> Seq(R)], NEW ss \in Seq(Seq(S))
  PROVE  Mapped(h, FlattenSeq(ss)) = FlattenSeq([i \in 1 .. Len(ss) |-> Mapped(h, ss[i])])
<1>0. ReadInParts(h, S)
  BY MappedInParts
<1> DEFINE M(uu) == [i \in 1 .. Len(uu) |-> Mapped(h, uu[i])]
           T == {uu \in Seq(Seq(S)) : Mapped(h, FlattenSeq(uu)) = FlattenSeq(M(uu))}
<1>1. <<>> \in T
  <2>1. M(<<>>) = <<>>
    OBVIOUS
  <2>2. Mapped(h, FlattenSeq(<<>>)) = FlattenSeq(M(<<>>))
    BY ONLY <2>1, MappedEmpty, FlattenEmpty, Zenon
  <2> QED
    BY <2>2
<1>2. ASSUME NEW uu \in T, NEW u \in Seq(S) PROVE Append(uu, u) \in T
  <2>1. /\ uu \in Seq(Seq(S)) /\ Mapped(h, FlattenSeq(uu)) = FlattenSeq(M(uu))
        /\ Append(uu, u) \in Seq(Seq(S))
    OBVIOUS
  <2>2. FlattenSeq(Append(uu, u)) = FlattenSeq(uu) \o u /\ FlattenSeq(uu) \in Seq(S)
    BY <2>1, FlattenAppend, FlattenType
  <2>3. Mapped(h, FlattenSeq(uu) \o u) = Mapped(h, FlattenSeq(uu)) \o Mapped(h, u)
    BY ONLY <1>0, <2>2, u \in Seq(S), Zenon DEF ReadInParts
  <2>4. \A v \in Seq(S) : Mapped(h, v) \in Seq(R)
    BY MapType
  <2>5. M(Append(uu, u)) = Append(M(uu), Mapped(h, u)) /\ M(uu) \in Seq(Seq(R))
    BY <2>1, <2>4
  <2>6. FlattenSeq(Append(M(uu), Mapped(h, u))) = FlattenSeq(M(uu)) \o Mapped(h, u)
    <3> HIDE DEF M
    <3> QED
      BY <2>4, <2>5, FlattenAppend
  <2> HIDE DEF M
  <2> QED
    BY <2>1, <2>2, <2>3, <2>5, <2>6
<1>3. T = Seq(Seq(S))
  <2> HIDE DEF T
  <2> QED
    BY <1>1, <1>2, SeqInduct DEF T
<1> QED
  BY <1>3

(* Elements that carry nothing add nothing. *)
LEMMA MappedNone ==
  ASSUME NEW S, NEW R, NEW h \in [S -> Seq(R)], NEW s \in Seq(S),
         \A i \in 1 .. Len(s) : h[s[i]] = <<>>
  PROVE  Mapped(h, s) = <<>>
<1> DEFINE P(u) == (\A i \in 1 .. Len(u) : h[u[i]] = <<>>) => Mapped(h, u) = <<>>
           T == {u \in Seq(S) : P(u)}
<1>1. <<>> \in T
  BY MappedEmpty
<1>2. ASSUME NEW u \in T, NEW e \in S PROVE Append(u, e) \in T
  <2> SUFFICES ASSUME \A i \in 1 .. Len(Append(u, e)) : h[Append(u, e)[i]] = <<>>
               PROVE  Mapped(h, Append(u, e)) = <<>>
    <3>1. SUFFICES P(Append(u, e))
      <4> HIDE DEF P
      <4> QED
        OBVIOUS
    <3> QED
      BY Zenon
  <2>1. u \in Seq(S)
    OBVIOUS
  <2>2. Len(Append(u, e)) = Len(u) + 1 /\ Append(u, e)[Len(u) + 1] = e
        /\ \A i \in 1 .. Len(u) : Append(u, e)[i] = u[i]
    BY <2>1
  <2>3. Len(u) \in Nat
    BY <2>1
  <2>4. (\A i \in 1 .. Len(u) : h[u[i]] = <<>>) /\ h[e] = <<>>
    BY <2>2, <2>3
  <2>5. Mapped(h, u) = <<>>
    BY <2>4
  <2>6. Mapped(h, Append(u, e)) = Mapped(h, u) \o h[e]
    BY <2>1, MappedAppend
  <2>7. <<>> \o <<>> = <<>>
    OBVIOUS
  <2> QED
    BY <2>4, <2>5, <2>6, <2>7
<1>3. T = Seq(S)
  <2> HIDE DEF T
  <2> QED
    BY <1>1, <1>2, SeqInduct DEF T
<1> QED
  BY <1>3

(* Flattening singletons gives the sequence back. *)
LEMMA FlattenSingles ==
  ASSUME NEW S, NEW s \in Seq(S)
  PROVE  FlattenSeq([i \in 1 .. Len(s) |-> <<s[i]>>]) = s
<1> DEFINE M(u) == [i \in 1 .. Len(u) |-> <<u[i]>>]
           T == {u \in Seq(S) : FlattenSeq(M(u)) = u}
<1>1. <<>> \in T
  <2>1. M(<<>>) = <<>>
    OBVIOUS
  <2>2. FlattenSeq(M(<<>>)) = <<>>
    BY ONLY <2>1, FlattenEmpty, Zenon
  <2> QED
    BY <2>2
<1>2. ASSUME NEW u \in T, NEW e \in S PROVE Append(u, e) \in T
  <2>1. u \in Seq(S) /\ FlattenSeq(M(u)) = u /\ Append(u, e) \in Seq(S)
    OBVIOUS
  <2>2. M(Append(u, e)) = Append(M(u), <<e>>) /\ M(u) \in Seq(Seq(S)) /\ <<e>> \in Seq(S)
    BY <2>1
  <2>3. FlattenSeq(Append(M(u), <<e>>)) = FlattenSeq(M(u)) \o <<e>>
    <3> HIDE DEF M
    <3> QED
      BY <2>2, FlattenAppend
  <2>4. u \o <<e>> = Append(u, e)
    BY <2>1
  <2> HIDE DEF M
  <2> QED
    BY <2>1, <2>2, <2>3, <2>4
<1>3. T = Seq(S)
  <2> HIDE DEF T
  <2> QED
    BY <1>1, <1>2, SeqInduct DEF T
<1> QED
  BY <1>3

(* Flattening empty sequences gives the empty one. *)
LEMMA FlattenNone ==
  ASSUME NEW S, NEW ss \in Seq(Seq(S)), \A i \in 1 .. Len(ss) : ss[i] = <<>>
  PROVE  FlattenSeq(ss) = <<>>
<1> DEFINE h == [s \in Seq(S) |-> s]
<1>1. h \in [Seq(S) -> Seq(S)] /\ \A i \in 1 .. Len(ss) : h[ss[i]] = <<>>
  OBVIOUS
<1>2. ss = [i \in 1 .. Len(ss) |-> h[ss[i]]]
  OBVIOUS
<1>3. Mapped(h, ss) = <<>>
  <2> HIDE DEF h
  <2> QED
    BY <1>1, MappedNone
<1> QED
  BY <1>2, <1>3 DEF Mapped

(* When one sequence alone is not empty, that one is the result. *)
LEMMA FlattenOnly ==
  ASSUME NEW S, NEW ss \in Seq(Seq(S)), NEW b \in 1 .. Len(ss),
         \A i \in 1 .. Len(ss) : i # b => ss[i] = <<>>
  PROVE  FlattenSeq(ss) = ss[b]
<1> DEFINE P(uu) == b \in 1 .. Len(uu) /\ (\A i \in 1 .. Len(uu) : i # b => uu[i] = <<>>)
                      => FlattenSeq(uu) = uu[b]
           T == {uu \in Seq(Seq(S)) : P(uu)}
<1>1. <<>> \in T
  OBVIOUS
<1>2. ASSUME NEW uu \in T, NEW u \in Seq(S) PROVE Append(uu, u) \in T
  <2> DEFINE vv == Append(uu, u)
  <2> SUFFICES ASSUME b \in 1 .. Len(vv), \A i \in 1 .. Len(vv) : i # b => vv[i] = <<>>
               PROVE  FlattenSeq(vv) = vv[b]
    <3>1. SUFFICES P(vv)
      <4> HIDE DEF P
      <4> QED
        OBVIOUS
    <3> QED
      BY Zenon
  <2>1. uu \in Seq(Seq(S)) /\ b \in Nat
    OBVIOUS
  <2>2. Len(vv) = Len(uu) + 1 /\ vv[Len(uu) + 1] = u /\ \A i \in 1 .. Len(uu) : vv[i] = uu[i]
    BY <2>1
  <2>3. FlattenSeq(vv) = FlattenSeq(uu) \o u /\ FlattenSeq(uu) \in Seq(S) /\ Len(uu) \in Nat
    <3> HIDE DEF T, P
    <3>1. FlattenSeq(Append(uu, u)) = FlattenSeq(uu) \o u
      BY <2>1, FlattenAppend
    <3> QED
      BY <2>1, <3>1, FlattenType
  <2> HIDE DEF vv
  <2>4. CASE b = Len(uu) + 1
    <3>1. \A i \in 1 .. Len(uu) : uu[i] = <<>>
      BY <2>1, <2>2, <2>3, <2>4
    <3>2. FlattenSeq(uu) = <<>>
      BY <2>1, <3>1, FlattenNone
    <3>3. <<>> \o u = u
      OBVIOUS
    <3> QED
      BY <2>2, <2>3, <2>4, <3>2, <3>3
  <2>5. CASE b \in 1 .. Len(uu)
    <3>1. \A i \in 1 .. Len(uu) : i # b => uu[i] = <<>>
      BY <2>2, <2>3
    <3>2. FlattenSeq(uu) = uu[b]
      BY <2>5, <3>1
    <3>3. u = <<>>
      BY <2>2, <2>3, <2>5
    <3>4. FlattenSeq(uu) \o <<>> = FlattenSeq(uu)
      BY <2>3
    <3> QED
      BY <2>2, <2>3, <2>5, <3>2, <3>3, <3>4
  <2>6. b \in 1 .. Len(uu) + 1
    BY <2>2
  <2>7. b = Len(uu) + 1 \/ b \in 1 .. Len(uu)
    BY <2>1, <2>3, <2>6
  <2> QED
    BY <2>4, <2>5, <2>7
<1>3. T = Seq(Seq(S))
  <2> HIDE DEF T
  <2> QED
    BY <1>1, <1>2, SeqInduct DEF T
<1> QED
  BY <1>3
(* A sequence in two parts. *)
Splits(s, t, u) == s = t \o u

-------------------------------------------------------------------------------
(* The parts of the inductive invariant. *)

(* The events of a message's blocks, and those of a whole Anthropic answer. *)
Wellformed(m) ==
    /\ m.blocks \in Seq([kind : STRING, frags : Seq(Nat)])
    /\ \A i \in 1 .. Len(m.blocks) : \A j, k \in 1 .. Len(m.blocks[i].frags) :
          j < k => m.blocks[i].frags[j] < m.blocks[i].frags[k]

StartOf(m, i) ==
    [type |-> "content_block_start", index |-> i, kind |-> m.blocks[i].kind, name |-> i]
DeltaOf(m, i, j) ==
    [type |-> "content_block_delta", index |-> i, kind |-> m.blocks[i].kind,
     frag |-> m.blocks[i].frags[j]]
DeltasOf(m, i) == {DeltaOf(m, i, j) : j \in 1 .. Len(m.blocks[i].frags)}
BlockEventSet(m, b) ==    \* of the first b blocks
    {StartOf(m, i) : i \in 1 .. b} \cup (UNION {DeltasOf(m, i) : i \in 1 .. b})
      \cup {PlainEvent("content_block_stop")}
AnthropicEventSet(m) ==
    BlockEventSet(m, Len(m.blocks)) \cup
    {[type |-> "message_start", usage |-> m.usage], PlainEvent("ping"),
     [type |-> "message_delta", usage |-> m.usage, stop |-> m.stop],
     PlainEvent("message_stop")}

(* What a later event may be, given an earlier one: blocks follow each      *)
(* other, a block is announced once, before its fragments, and these come   *)
(* in order.                                                                *)
Follows(d, e) ==
    /\ d.type = "content_block_start" /\ e.type = "content_block_start"
          => d.index # e.index
    /\ d.type = "content_block_delta" /\ e.type = "content_block_start"
          => d.index # e.index
    /\ d.type = "content_block_delta" /\ e.type = "content_block_delta"
         /\ d.index = e.index => d.frag < e.frag

(* The pieces of a whole answer that an event carries. *)
TextOf(m) ==
    [e \in AnthropicEventSet(m) |->
        IF e.type = "content_block_delta" /\ e.kind = "text" THEN <<e.frag>> ELSE <<>>]
CallOf(m) ==
    [e \in AnthropicEventSet(m) |->
        IF e.type = "content_block_start" /\ e.kind = "tool_use" THEN <<e.index>> ELSE <<>>]
ArgsOf(m, b) ==
    [e \in AnthropicEventSet(m) |->
        IF e.type = "content_block_delta" /\ e.kind = "tool_use" /\ e.index = b
        THEN <<e.frag>> ELSE <<>>]

(* The types of a client's view and of the translators. *)
Closings == {"usage", "error", "done"}
Reasons == {"", "stop", "length", "tool_calls", "content_filter"}
Calls == [index : Int, name : Nat, args : Seq(Nat)]
Views == [roles : Nat, text : Seq(Nat), tools : Seq(Calls), finish : Reasons,
          trailers : Seq(Closings), lost : BOOLEAN]
AnthropicTranslators(m) ==
    [counts : [AllKinds -> Nat], toolIndex : Seq((1 .. Len(m.blocks)) \X Nat),
     nextTool : Nat, sawUsage : BOOLEAN, done : BOOLEAN]
GoogleTranslators(m) ==
    [lastUsage : {NoUsage} \cup {GoogleChunks(m)[n].usage : n \in 1 .. Len(GoogleChunks(m))},
     sentRole : BOOLEAN, toolCalls : Nat, done : BOOLEAN]

(* The tool calls of a client that has lost no chunk, with k events gone:   *)
(* those of the translator's table, with fragments of their own block that  *)
(* come before all those that are still to come.                            *)
OwnArgs(m, k, args, b) ==
    LET events == AnthropicEvents(m)
    IN  \A j \in 1 .. Len(args) :
              /\ \E l \in 1 .. Len(m.blocks[b].frags) : m.blocks[b].frags[l] = args[j]
              /\ j > 1 => args[j - 1] < args[j]
              /\ \A n \in k + 1 .. Len(events) :
                    events[n].type = "content_block_delta" /\ events[n].index = b
                      => args[j] < events[n].frag

AnthropicTable(m, k, t) ==
    LET events == AnthropicEvents(m)
    IN  /\ Len(t.toolIndex) = t.nextTool
        /\ \A i \in 1 .. t.nextTool :
              /\ t.toolIndex[i][2] = i - 1
              /\ m.blocks[t.toolIndex[i][1]].kind = "tool_use"
              /\ \A j \in 1 .. t.nextTool : t.toolIndex[i][1] = t.toolIndex[j][1] => i = j
              /\ \A n \in k + 1 .. Len(events) :
                    events[n].type = "content_block_start"
                      => events[n].index # t.toolIndex[i][1]

AnthropicTools(m, k, t, v) ==
    /\ Len(v.tools) = t.nextTool
    /\ \A i \in 1 .. t.nextTool :
          /\ v.tools[i].index = i - 1 /\ v.tools[i].name = t.toolIndex[i][1]
          /\ OwnArgs(m, k, v.tools[i].args, t.toolIndex[i][1])

(* Each of the two events that carry counts arrives or does not. *)
AnthropicMeter(m, k, t, errs) ==
    LET all  == AnthropicStreamCounts(m.usage)
        last == Len(AnthropicEvents(m))
    IN  /\ \/ \A c \in AllKinds \ {"output"} : t.counts[c] = all[c]
           \/ (errs = 0 => k = 0) /\ \A c \in AllKinds \ {"output"} : t.counts[c] = 0
        /\ \/ t.counts["output"] = all["output"]
           \/ (errs = 0 => k < last - 1) /\ t.counts["output"] = 0

(* With nothing garbled, what a client holds is what the events that have   *)
(* been read carry.                                                         *)
AnthropicPrefix(m, k, t, v) ==
    LET events == AnthropicEvents(m)
        read   == SubSeq(events, 1, k)
    IN  /\ v.roles = (IF k = 0 THEN 0 ELSE 1)
        /\ v.text = Mapped(TextOf(m), read)
        /\ [i \in 1 .. t.nextTool |-> t.toolIndex[i][1]] = Mapped(CallOf(m), read)
        /\ \A i \in 1 .. t.nextTool :
              v.tools[i].args = Mapped(ArgsOf(m, t.toolIndex[i][1]), read)
        /\ v.finish = (IF k < Len(events) - 1 THEN "" ELSE anthropicFinishReason(m.stop))

AnthropicState(m, k, t, v, errs) ==
    /\ t \in AnthropicTranslators(m) /\ v \in Views
    /\ t.done => k = Len(AnthropicEvents(m))
    /\ AnthropicTable(m, k, t)
    /\ AnthropicMeter(m, k, t, errs)
    /\ v.roles \in 0 .. 1 /\ (k = 0 => v.roles = 0)
    /\ ~ v.lost => AnthropicTools(m, k, t, v)
    /\ errs = 0 => ~ v.lost /\ AnthropicPrefix(m, k, t, v)

(* The same for Gemini. *)
GoogleTextOf(m) ==
    [k \in 1 .. Len(GoogleChunks(m)) |->
        LET e == GoogleChunks(m)[k]
        IN  IF e.parts = <<>> THEN <<>>
            ELSE IF e.parts[1].part.tool THEN <<>> ELSE e.parts[1].part.frags]

HasTools(m) == \E i \in 1 .. Len(m.blocks) : m.blocks[i].kind = "tool_use"

GoogleTools(m, t, v) ==
    /\ Len(v.tools) = t.toolCalls
    /\ \A i \in 1 .. t.toolCalls :
          /\ v.tools[i].index = i - 1 /\ v.tools[i].name \in 1 .. Len(m.blocks)
          /\ m.blocks[v.tools[i].name].kind = "tool_use"
          /\ v.tools[i].args = m.blocks[v.tools[i].name].frags

GooglePrefix(m, k, t, v) ==
    /\ v.roles = (IF k = 0 THEN 0 ELSE 1)
    /\ t.sentRole = (k > 0)
    /\ v.text = FlattenSeq(SubSeq(GoogleTextOf(m), 1, k))
    /\ k > 0 => t.lastUsage = GoogleChunks(m)[k].usage
    /\ v.finish = (IF k < Len(GoogleChunks(m)) THEN ""
                   ELSE finishReason(t.toolCalls, m.stop))

GoogleState(m, k, t, v, errs) ==
    /\ t \in GoogleTranslators(m) /\ v \in Views
    /\ t.done => k = Len(GoogleChunks(m))
    /\ v.roles \in 0 .. 1 /\ (v.roles = 1 => t.sentRole)
    /\ ~ HasTools(m) => t.toolCalls = 0
    /\ ~ v.lost => GoogleTools(m, t, v)
    /\ errs = 0 => ~ v.lost /\ GooglePrefix(m, k, t, v)

(* The lines that are left, with k frames gone and g left of the last one.  *)
IsData(l, e) ==
    /\ l.kind = "data" /\ l.event = e
    /\ l.whole \in BOOLEAN /\ l.huge \in BOOLEAN /\ (l.huge => ~ l.whole)

LineSet(events) ==
    {[kind |-> "event"], Blank}
      \cup [kind : {"data"}, event : {events[n] : n \in 1 .. Len(events)},
            whole : BOOLEAN, huge : BOOLEAN]

LinesLeft(events, k, g, lines) ==
    /\ lines \in Seq(LineSet(events))
    /\ Len(lines) =< 3 * (Len(events) - k) + g
    /\ \A i \in 1 .. Len(lines), n \in 1 .. Len(events) :
          /\ 3 * n - 2 = 3 * k - g + i => lines[i].kind = "event"
          /\ 3 * n - 1 = 3 * k - g + i => IsData(lines[i], events[n])
          /\ 3 * n     = 3 * k - g + i => lines[i] = Blank

(* The garbled lines ahead, by their place in the whole body. *)
Garbled(k, g, lines) ==
    {q \in 3 * k - g + 1 .. 3 * k - g + Len(lines) :
        /\ lines[q - (3 * k - g)].kind = "data"
        /\ ~ lines[q - (3 * k - g)].whole}

Events == EventsOf(Provider, msg)
EventSet(events) == {events[n] : n \in 1 .. Len(events)}

State(p, m, k, t, v, errs) ==
    IF p = "anthropic" THEN AnthropicState(m, k, t, v, errs)
                       ELSE GoogleState(m, k, t, v, errs)

-------------------------------------------------------------------------------
(* The limits of a request. *)

(* What TranslateRequest does with the limits of a request it does not      *)
(* refuse.                                                                  *)
LEMMA LimitsOf ==
  ASSUME NEW c, Routed(c) \in {"anthropic", "google"}, NEW r, r = TranslateRequest(c), ~ r.refused
  PROVE  /\ c.maxTokens # Unset => r.maxTokens = c.maxTokens
         /\ c.maxTokens = Unset /\ Routed(c) = "anthropic" => r.maxTokens = ReservedOutput(0)
         /\ c.effort # Unset
              => \E l \in EffortLevels : /\ l[1] = Routed(c) /\ l[2] = c.bare
                                         /\ l[3] = c.effort /\ l[4] = r.effort
<1>0. ASSUME NEW p, NEW model, \E x : model = <<x, c.bare>>, c.effort # Unset,
             mappedLevel(p, model, c.effort) # {}
      PROVE  \E l \in EffortLevels :
                /\ l[1] = p /\ l[2] = c.bare /\ l[3] = c.effort
                /\ l[4] = MappedOrUnset(mappedLevel(p, model, c.effort), c.effort)
  <2> DEFINE ls == mappedLevel(p, model, c.effort)
             v == CHOOSE w \in ls : TRUE
  <2>1. v \in ls /\ MappedOrUnset(ls, c.effort) = v
    BY <1>0 DEF MappedOrUnset
  <2>2. PICK l \in EffortLevels : /\ l[1] = p /\ <<"", l[2]>> = model
                                  /\ l[3] = c.effort /\ l[4] = v
    <3> HIDE DEF v
    <3> QED
      BY <2>1 DEF mappedLevel
  <2>3. l[2] = c.bare
    BY <1>0, <2>2
  <2> HIDE DEF v, ls
  <2> QED
    BY <2>1, <2>2, <2>3 DEF ls
<1>1. CASE Routed(c) = "anthropic"
  <2> DEFINE ls == mappedLevel("anthropic", BodyModel(c), c.effort)
  <2>1. /\ r.maxTokens = IF c.maxTokens = Unset THEN DefaultMaxTokens ELSE c.maxTokens
        /\ r.effort = MappedOrUnset(ls, c.effort)
        /\ c.effort # Unset => ls # {}
    <3> HIDE DEF ls
    <3> QED
      BY <1>1 DEF TranslateRequest, TranslateAnthropicRequest, Refused, ls
  <2>2. ReservedOutput(0) = DefaultMaxTokens
    BY DEF ReservedOutput
  <2>3. c.effort # Unset => \E l \in EffortLevels : /\ l[1] = Routed(c) /\ l[2] = c.bare
                                         /\ l[3] = c.effort /\ l[4] = r.effort
    <3>1. \E x : BodyModel(c) = <<x, c.bare>>
      BY DEF BodyModel
    <3> QED
      BY <1>0, <1>1, <2>1, <3>1
  <2> QED
    BY <2>1, <2>2, <2>3
<1>2. CASE Routed(c) = "google"
  <2> DEFINE ls == mappedLevel("google", BareModel(c), c.effort)
  <2>1. /\ r.maxTokens = c.maxTokens
        /\ r.effort = MappedOrUnset(ls, c.effort)
        /\ c.effort # Unset => ls # {}
    <3> HIDE DEF ls
    <3> QED
      BY <1>2 DEF TranslateRequest, TranslateGoogleRequest, Refused, ls
  <2>3. c.effort # Unset => \E l \in EffortLevels : /\ l[1] = Routed(c) /\ l[2] = c.bare
                                         /\ l[3] = c.effort /\ l[4] = r.effort
    <3>1. \E x : BareModel(c) = <<x, c.bare>>
      BY DEF BareModel
    <3> QED
      BY <1>0, <1>2, <2>1, <3>1
  <2> QED
    BY <1>2, <2>1, <2>3
<1> QED
  BY <1>1, <1>2

RequestInv ==
    /\ creq \in ClientRequests
    /\ sent # NotSent => sent = TranslateRequest(creq)

(* The ceiling and the thinking level of a request reach the provider, or   *)
(* the request is refused, for every request, seed table and provider:      *)
(* TranslateAnthropicRequest and TranslateGoogleRequest drop neither.       *)
THEOREM LimitsAreSent == Spec => []LimitsReachTheProvider
<1>1. Init => RequestInv
  BY DEF Init, RequestInv
<1>2. RequestInv /\ [Next]_vars => RequestInv'
  <2> SUFFICES ASSUME RequestInv, [Next]_vars PROVE RequestInv'
    OBVIOUS
  <2>1. CASE Send
    BY <2>1 DEF RequestInv, Send
  <2>2. CASE UNCHANGED <<creq, sent>>
    BY <2>2 DEF RequestInv
  <2> QED
    BY <2>1, <2>2
       DEF Next, vars, Garble, EndEarly, Break, Fault, ReadFrame, End
<1>3. RequestInv => LimitsReachTheProvider
  <2> SUFFICES ASSUME RequestInv, sent # NotSent, ~ sent.refused
               PROVE  LimitsReachTheProvider
    BY DEF LimitsReachTheProvider
  <2>1. Routed(creq) \in {"anthropic", "google"} /\ sent = TranslateRequest(creq)
    BY RequestsAssumption DEF RequestInv
  <2> QED
    BY <2>1, LimitsOf DEF LimitsReachTheProvider, Provider
<1> QED
  BY <1>1, <1>2, <1>3, PTL DEF Spec

-------------------------------------------------------------------------------
(* sse.go: the lines of a body, and the frames they are read in. *)

EventLine == [kind |-> "event"]

(* The body has three lines for each event, in the order of the events. *)
LEMMA LinesShape ==
  ASSUME NEW S, NEW events \in Seq(S)
  PROVE  /\ Len(LinesOf(events)) = 3 * Len(events)
         /\ LinesOf(events) \in Seq({EventLine, Blank} \cup {DataLine(e) : e \in S})
         /\ \A n \in 1 .. Len(events) :
               /\ LinesOf(events)[3 * n - 2] = EventLine
               /\ LinesOf(events)[3 * n - 1] = DataLine(events[n])
               /\ LinesOf(events)[3 * n] = Blank
<1> DEFINE R == {EventLine, Blank} \cup {DataLine(e) : e \in S}
           h == [e \in S |-> <<EventLine, DataLine(e), Blank>>]
           P(es) == /\ Len(LinesOf(es)) = 3 * Len(es)
                    /\ \A n \in 1 .. Len(es) :
                          /\ LinesOf(es)[3 * n - 2] = EventLine
                          /\ LinesOf(es)[3 * n - 1] = DataLine(es[n])
                          /\ LinesOf(es)[3 * n] = Blank
           T == {es \in Seq(S) : P(es)}
<1>1. h \in [S -> Seq(R)]
  <2>1. ASSUME NEW e \in S PROVE <<EventLine, DataLine(e), Blank>> \in Seq(R)
    <3>1. EventLine \in R /\ DataLine(e) \in R /\ Blank \in R
      OBVIOUS
    <3> HIDE DEF R
    <3> QED
      BY <3>1
  <2> HIDE DEF R
  <2> QED
    BY <2>1
<1>2. ASSUME NEW es \in Seq(S) PROVE LinesOf(es) = Mapped(h, es) /\ LinesOf(es) \in Seq(R)
  <2>1. [i \in 1 .. Len(es) |-> <<[kind |-> "event"], DataLine(es[i]), Blank>>]
            = [i \in 1 .. Len(es) |-> h[es[i]]]
    BY DEF EventLine
  <2>2. LinesOf(es) = Mapped(h, es)
    BY <2>1 DEF LinesOf, Mapped
  <2> HIDE DEF h, R
  <2> QED
    BY <1>1, <2>2, MapType
<1>3. <<>> \in T
  <2>1. LinesOf(<<>>) = <<>>
    <3>1. <<>> \in Seq(S)
      OBVIOUS
    <3> HIDE DEF h, R
    <3> QED
      BY <1>2, <3>1, MappedEmpty
  <2> QED
    BY <2>1
<1>4. ASSUME NEW es \in Seq(S), P(es), NEW e \in S PROVE P(Append(es, e))
  <2> DEFINE ls == LinesOf(es)
             ms == LinesOf(Append(es, e))
  <2>1. Append(es, e) \in Seq(S) /\ Len(Append(es, e)) = Len(es) + 1
        /\ Append(es, e)[Len(es) + 1] = e /\ \A n \in 1 .. Len(es) : Append(es, e)[n] = es[n]
    OBVIOUS
  <2>2. ms = ls \o <<EventLine, DataLine(e), Blank>>
    <3>1. Mapped(h, Append(es, e)) = Mapped(h, es) \o h[e]
      <4> HIDE DEF h, R
      <4> QED
        BY <1>1, MappedAppend
    <3>2. h[e] = <<EventLine, DataLine(e), Blank>>
      OBVIOUS
    <3> HIDE DEF h, R
    <3> QED
      BY <1>2, <2>1, <3>1, <3>2
  <2>3. ls \in Seq(R) /\ Len(es) \in Nat
    <3> HIDE DEF h, R, P
    <3> QED
      BY <1>2
  <2>4. Len(ls) = 3 * Len(es)
    BY <1>4
  <2>5. \A n \in 1 .. Len(es) : /\ ls[3 * n - 2] = EventLine
                                /\ ls[3 * n - 1] = DataLine(es[n])
                                /\ ls[3 * n] = Blank
    BY <1>4
  <2> HIDE DEF ls, ms, R, h
  <2>6. /\ Len(ms) = Len(ls) + 3
        /\ \A i \in 1 .. Len(ls) : ms[i] = ls[i]
        /\ ms[Len(ls) + 1] = EventLine /\ ms[Len(ls) + 2] = DataLine(e) /\ ms[Len(ls) + 3] = Blank
    BY <2>2, <2>3
  <2>7. ASSUME NEW n \in 1 .. Len(es) + 1
        PROVE  /\ ms[3 * n - 2] = EventLine
               /\ ms[3 * n - 1] = DataLine(Append(es, e)[n])
               /\ ms[3 * n] = Blank
    <3>1. CASE n = Len(es) + 1
      BY <2>1, <2>3, <2>4, <2>6, <3>1
    <3>2. CASE n \in 1 .. Len(es)
      <4>1. 3 * n - 2 \in 1 .. Len(ls) /\ 3 * n - 1 \in 1 .. Len(ls) /\ 3 * n \in 1 .. Len(ls)
        BY <2>3, <2>4, <3>2
      <4> QED
        BY <2>1, <2>5, <2>6, <3>2, <4>1
    <3> QED
      BY <2>3, <3>1, <3>2
  <2>8. Len(ms) = 3 * Len(Append(es, e))
    BY <2>1, <2>3, <2>4, <2>6
  <2> QED
    BY <2>1, <2>7, <2>8 DEF ms
<1>5. T = Seq(S)
  <2>1. \A es \in T, e \in S : Append(es, e) \in T
    <3> HIDE DEF P
    <3> QED
      BY <1>4
  <2> HIDE DEF T
  <2> QED
    BY <1>3, <2>1, SeqInduct DEF T
<1>6. P(events)
  BY <1>5
<1> QED
  BY <1>2, <1>6

(* Every line of a body is the first, second or third of some event. *)
LEMMA Thirds ==
  ASSUME NEW N \in Nat, NEW q \in 1 .. 3 * N
  PROVE  \E n \in 1 .. N : q = 3 * n - 2 \/ q = 3 * n - 1 \/ q = 3 * n
<1> DEFINE n == (q + 2) \div 3
<1>1. n \in 1 .. N /\ (q = 3 * n - 2 \/ q = 3 * n - 1 \/ q = 3 * n)
  OBVIOUS
<1> QED
  BY <1>1

(* A body as it was sent has all its lines left, and none is garbled. *)
LEMMA BodyWhole ==
  ASSUME NEW S, NEW events \in Seq(S)
  PROVE  /\ LinesLeft(events, 0, 0, LinesOf(events))
         /\ Garbled(0, 0, LinesOf(events)) = {}
<1> DEFINE E == {events[n] : n \in 1 .. Len(events)}
           lines == LinesOf(events)
           N == Len(events)
<1>1. events \in Seq(E) /\ N \in Nat
  OBVIOUS
<1>2. /\ Len(lines) = 3 * N
      /\ lines \in Seq({EventLine, Blank} \cup {DataLine(e) : e \in E})
      /\ \A n \in 1 .. N :
            /\ lines[3 * n - 2] = EventLine
            /\ lines[3 * n - 1] = DataLine(events[n])
            /\ lines[3 * n] = Blank
  <2> HIDE DEF E
  <2> QED
    BY <1>1, LinesShape
<1>3. {EventLine, Blank} \cup {DataLine(e) : e \in E} \subseteq LineSet(events)
  <2>1. ASSUME NEW e \in E PROVE DataLine(e) \in LineSet(events)
    BY DEF LineSet, DataLine
  <2>2. EventLine \in LineSet(events) /\ Blank \in LineSet(events)
    BY DEF LineSet, EventLine
  <2> HIDE DEF E
  <2> QED
    BY <2>1, <2>2
<1>4. lines \in Seq(LineSet(events))
  <2> HIDE DEF E, lines
  <2> QED
    BY <1>2, <1>3
<1> HIDE DEF lines, E
<1>5. \A e : IsData(DataLine(e), e)
  BY DEF IsData, DataLine
<1>6. ASSUME NEW i \in 1 .. Len(lines), NEW n \in 1 .. N
      PROVE  /\ 3 * n - 2 = i => lines[i].kind = "event"
             /\ 3 * n - 1 = i => IsData(lines[i], events[n])
             /\ 3 * n     = i => lines[i] = Blank
  <2>1. ASSUME 3 * n - 2 = i PROVE lines[i].kind = "event"
    <3>1. lines[i] = EventLine
      BY <1>2, <2>1
    <3> QED
      BY <3>1 DEF EventLine
  <2>2. ASSUME 3 * n - 1 = i PROVE IsData(lines[i], events[n])
    BY <1>2, <1>5, <2>2
  <2>3. ASSUME 3 * n = i PROVE lines[i] = Blank
    BY <1>2, <2>3
  <2> QED
    BY <2>1, <2>2, <2>3
<1>7. LinesLeft(events, 0, 0, lines)
  BY <1>1, <1>2, <1>4, <1>6 DEF LinesLeft
<1>8. ASSUME NEW q \in 1 .. 3 * N, lines[q].kind = "data" PROVE lines[q].whole
  <2>1. PICK n \in 1 .. N : q = 3 * n - 2 \/ q = 3 * n - 1 \/ q = 3 * n
    BY <1>1, Thirds
  <2>2. CASE q = 3 * n - 2
    BY <1>2, <1>8, <2>2 DEF EventLine
  <2>3. CASE q = 3 * n
    BY <1>2, <1>8, <2>3 DEF Blank
  <2>4. CASE q = 3 * n - 1
    <3>1. lines[q] = DataLine(events[n])
      BY <1>2, <2>4
    <3>2. DataLine(events[n]).whole
      BY DEF DataLine
    <3> QED
      BY <3>1, <3>2
  <2> QED
    BY <2>1, <2>2, <2>3, <2>4
<1>9. Garbled(0, 0, lines) = {}
  BY <1>1, <1>2, <1>8 DEF Garbled
<1> QED
  BY <1>7, <1>9 DEF lines

(* The first lines of what is left. *)
LEMMA FirstLines ==
  ASSUME NEW events, NEW N \in Nat, N = Len(events), NEW k \in 0 .. N, NEW g \in 0 .. 1, g =< k,
         NEW lines, LinesLeft(events, k, g, lines)
  PROVE  /\ Len(lines) \in Nat
         /\ g = 1 /\ 1 =< Len(lines) => lines[1] = Blank
         /\ 1 + g =< Len(lines) => k < N /\ lines[1 + g].kind = "event"
         /\ 2 + g =< Len(lines) => IsData(lines[2 + g], events[k + 1])
         /\ 3 + g =< Len(lines) => lines[3 + g] = Blank
<1>1. /\ lines \in Seq(LineSet(events))
      /\ Len(lines) =< 3 * (N - k) + g
      /\ \A i \in 1 .. Len(lines), n \in 1 .. N :
          /\ 3 * n - 2 = 3 * k - g + i => lines[i].kind = "event"
          /\ 3 * n - 1 = 3 * k - g + i => IsData(lines[i], events[n])
          /\ 3 * n     = 3 * k - g + i => lines[i] = Blank
  BY DEF LinesLeft
<1>2. Len(lines) \in Nat
  BY <1>1
<1>3. ASSUME g = 1, 1 =< Len(lines) PROVE lines[1] = Blank
  <2>1. 1 \in 1 .. Len(lines) /\ k \in 1 .. N /\ 3 * k = 3 * k - g + 1
    BY <1>2, <1>3
  <2> QED
    BY <1>1, <2>1
<1>4. ASSUME 1 + g =< Len(lines) PROVE k < N /\ lines[1 + g].kind = "event"
  <2>1. 1 + g \in 1 .. Len(lines) /\ k + 1 \in 1 .. N /\ 3 * (k + 1) - 2 = 3 * k - g + (1 + g)
    BY <1>1, <1>2, <1>4
  <2> QED
    BY <1>1, <2>1
<1>5. ASSUME 2 + g =< Len(lines) PROVE IsData(lines[2 + g], events[k + 1])
  <2>1. 2 + g \in 1 .. Len(lines) /\ k + 1 \in 1 .. N /\ 3 * (k + 1) - 1 = 3 * k - g + (2 + g)
    BY <1>1, <1>2, <1>5
  <2> QED
    BY <1>1, <2>1
<1>6. ASSUME 3 + g =< Len(lines) PROVE lines[3 + g] = Blank
  <2>1. 3 + g \in 1 .. Len(lines) /\ k + 1 \in 1 .. N /\ 3 * (k + 1) = 3 * k - g + (3 + g)
    BY <1>1, <1>2, <1>6
  <2> QED
    BY <1>1, <2>1
<1> QED
  BY <1>2, <1>3, <1>4, <1>5, <1>6

(* Where Next of sse.go ends the frame that comes first: after its blank    *)
(* line, at an oversized line, or with the body.                            *)
LEMMA FrameEndIs ==
  ASSUME NEW events, NEW N \in Nat, N = Len(events), NEW k \in 0 .. N, NEW g \in 0 .. 1, g =< k,
         NEW lines, LinesLeft(events, k, g, lines), lines # <<>>
  PROVE  FrameEnd(lines) =
           IF Len(lines) < 2 + g THEN Len(lines)
           ELSE IF lines[2 + g].huge \/ Len(lines) = 2 + g THEN 2 + g ELSE 3 + g
<1> DEFINE n == Len(lines)
           Stops(i) == \/ lines[i] = Blank /\ i > 1
                       \/ lines[i].kind = "data" /\ lines[i].huge
                       \/ i = n
           Passes(j) == /\ lines[j] = Blank => j = 1
                        /\ lines[j].kind = "data" => ~ lines[j].huge
           e == IF n < 2 + g THEN n
                ELSE IF lines[2 + g].huge \/ n = 2 + g THEN 2 + g ELSE 3 + g
           Good(i) == Stops(i) /\ \A j \in 1 .. i - 1 : Passes(j)
<1>1. /\ n \in Nat /\ n # 0
      /\ g = 1 /\ 1 =< n => lines[1] = Blank
      /\ 1 + g =< n => k < N /\ lines[1 + g].kind = "event"
      /\ 2 + g =< n => IsData(lines[2 + g], events[k + 1])
      /\ 3 + g =< n => lines[3 + g] = Blank
  <2>1. n # 0
    BY DEF LinesLeft
  <2> QED
    BY <2>1, FirstLines
<1>2. e \in 1 .. n
  BY <1>1
<1>3. Good(e)
  <2>1. Stops(e)
    BY <1>1 DEF IsData
  <2>2. /\ g = 1 /\ 1 =< n => Passes(1)
        /\ 1 + g =< n => Passes(1 + g)
        /\ 2 + g =< n /\ ~ lines[2 + g].huge => Passes(2 + g)
    BY <1>1 DEF IsData, Blank
  <2>3. ASSUME NEW j \in 1 .. 1 + g, j =< n PROVE Passes(j)
    <3>1. (j = 1 /\ g = 1) \/ j = 1 + g
      OBVIOUS
    <3> HIDE DEF Passes, n
    <3> QED
      BY <2>2, <2>3, <3>1
  <2>4. CASE n < 2 + g
    <3>1. e = n
      BY <2>4
    <3>2. \A j \in 1 .. n - 1 : j \in 1 .. 1 + g /\ j =< n
      BY <1>1, <2>4
    <3> HIDE DEF Passes, e, n, Stops
    <3> QED
      BY <2>1, <2>3, <3>1, <3>2
  <2>5. CASE n >= 2 + g /\ (lines[2 + g].huge \/ n = 2 + g)
    <3>1. e = 2 + g
      BY <1>1, <2>5
    <3>2. \A j \in 1 .. (2 + g) - 1 : j \in 1 .. 1 + g /\ j =< n
      BY <1>1, <2>5
    <3> HIDE DEF Passes, e, n, Stops
    <3> QED
      BY <2>1, <2>3, <3>1, <3>2
  <2>6. CASE n >= 2 + g /\ ~ (lines[2 + g].huge \/ n = 2 + g)
    <3>1. e = 3 + g
      BY <1>1, <2>6
    <3>2. \A j \in 1 .. (3 + g) - 1 : (j \in 1 .. 1 + g /\ j =< n) \/ j = 2 + g
      BY <1>1, <2>6
    <3>3. Passes(2 + g)
      BY <1>1, <2>2, <2>6
    <3> HIDE DEF Passes, e, n, Stops
    <3> QED
      BY <2>1, <2>3, <3>1, <3>2, <3>3
  <2>7. n < 2 + g \/ n >= 2 + g
    BY <1>1
  <2> HIDE DEF Good, e, n
  <2> QED
    BY <2>4, <2>5, <2>6, <2>7
<1>4. ASSUME NEW i \in 1 .. n, Good(i) PROVE i = e
  <2>1. ASSUME i < e PROVE FALSE
    <3>1. Stops(i) /\ Passes(i) /\ i # n
      BY <1>2, <1>3, <1>4, <2>1
    <3>2. lines[i] = Blank /\ i > 1
      BY <3>1
    <3> QED
      BY <3>1, <3>2
  <2>2. ASSUME e < i PROVE FALSE
    <3>1. Stops(e) /\ Passes(e) /\ e # n
      BY <1>2, <1>3, <1>4, <2>2
    <3> QED
      BY <3>1
  <2>3. e \in Nat /\ i \in Nat
    BY <1>2
  <2> HIDE DEF e
  <2> QED
    BY <2>1, <2>2, <2>3
<1>5. FrameEnd(lines) = CHOOSE i \in 1 .. n : Good(i)
  BY DEF FrameEnd
<1> HIDE DEF e, Good
<1>6. (CHOOSE i \in 1 .. n : Good(i)) = e
  BY <1>2, <1>3, <1>4
<1> QED
  BY <1>5, <1>6 DEF e

Frame(lines) == SubSeq(lines, 1, FrameEnd(lines))
Rest(lines)  == SubSeq(lines, FrameEnd(lines) + 1, Len(lines))

Left(events, k, g, lines) ==
    /\ Len(events) \in Nat /\ k \in 0 .. Len(events) /\ g \in 0 .. 1 /\ g =< k
    /\ LinesLeft(events, k, g, lines)

Shifted(lines, rest, end) ==
    Len(rest) = Len(lines) - end /\ \A i \in 1 .. Len(rest) : rest[i] = lines[i + end]

(* The same, of the lines that are left. *)
LEMMA EndOfFrame ==
  ASSUME NEW events, NEW k, NEW g, NEW lines, Left(events, k, g, lines), lines # <<>>
  PROVE  FrameEnd(lines) =
           IF Len(lines) < 2 + g THEN Len(lines)
           ELSE IF lines[2 + g].huge \/ Len(lines) = 2 + g THEN 2 + g ELSE 3 + g
  BY FrameEndIs DEF Left

(* A frame that ends before its data line is the last of the body. *)
LEMMA NoDataRead ==
  ASSUME NEW events, NEW N \in Nat, N = Len(events), NEW k \in 0 .. N, NEW g \in 0 .. 1, g =< k,
         NEW lines, LinesLeft(events, k, g, lines), lines # <<>>, Len(lines) < 2 + g,
         NEW end, end = FrameEnd(lines), NEW frame, frame = SubSeq(lines, 1, end)
  PROVE  /\ Data(frame) = {}
         /\ SubSeq(lines, end + 1, Len(lines)) = <<>>
         /\ LinesLeft(events, k, g, <<>>) /\ Garbled(k, g, <<>>) = {}
<1>1. end = Len(lines)
  BY FrameEndIs
<1>2. lines \in Seq(LineSet(events)) /\ Len(lines) \in Nat
  BY DEF LinesLeft
<1>3. frame = lines /\ SubSeq(lines, end + 1, Len(lines)) = <<>>
  BY <1>1, <1>2
<1>4. ASSUME NEW i \in 1 .. Len(lines) PROVE lines[i].kind # "data"
  <2>1. /\ g = 1 /\ 1 =< Len(lines) => lines[1] = Blank
        /\ 1 + g =< Len(lines) => lines[1 + g].kind = "event"
    BY FirstLines
  <2>2. (i = 1 /\ g = 1) \/ i = 1 + g
    BY <1>2
  <2> QED
    BY <1>2, <2>1, <2>2 DEF Blank
<1>5. Data(frame) = {}
  <2>1. DOMAIN lines = 1 .. Len(lines)
    BY <1>2
  <2> QED
    BY <1>3, <1>4, <2>1 DEF Data
<1>6. LinesLeft(events, k, g, <<>>)
  BY DEF LinesLeft
<1>7. Garbled(k, g, <<>>) = {}
  BY DEF Garbled
<1> QED
  BY <1>3, <1>5, <1>6, <1>7

(* A frame that reaches its data line has this one only, of the next event, *)
(* and its last line is blank unless it was cut.                            *)
LEMMA DataRead ==
  ASSUME NEW events, NEW k, NEW g, NEW lines, Left(events, k, g, lines), 2 + g =< Len(lines)
  PROVE  /\ k + 1 \in 1 .. Len(events)
         /\ 3 + g - FrameEnd(lines) \in 0 .. 1 /\ FrameEnd(lines) \in 1 .. Len(lines)
         /\ Data(Frame(lines)) = {2 + g} /\ Frame(lines)[2 + g] = lines[2 + g]
         /\ IsData(lines[2 + g], events[k + 1])
         /\ (Last(Frame(lines)) = Blank) <=> (3 + g - FrameEnd(lines) = 0)
<1> DEFINE N == Len(events)
           end == FrameEnd(lines)
           frame == Frame(lines)
<1>0. /\ N \in Nat /\ k \in 0 .. N /\ g \in 0 .. 1 /\ g =< k
      /\ LinesLeft(events, k, g, lines)
  BY DEF Left
<1>1. lines \in Seq(LineSet(events)) /\ Len(lines) \in Nat /\ lines # <<>>
  BY <1>0 DEF LinesLeft
<1>2. /\ g = 1 /\ 1 =< Len(lines) => lines[1] = Blank
      /\ 1 + g =< Len(lines) => k < N /\ lines[1 + g].kind = "event"
      /\ 2 + g =< Len(lines) => IsData(lines[2 + g], events[k + 1])
      /\ 3 + g =< Len(lines) => lines[3 + g] = Blank
  BY <1>0, FirstLines
<1>3. end = IF lines[2 + g].huge \/ Len(lines) = 2 + g THEN 2 + g ELSE 3 + g
  <2>1. end = IF Len(lines) < 2 + g THEN Len(lines)
              ELSE IF lines[2 + g].huge \/ Len(lines) = 2 + g THEN 2 + g ELSE 3 + g
    BY <1>1, EndOfFrame
  <2>2. ~ (Len(lines) < 2 + g)
    BY <1>0, <1>1
  <2> QED
    BY <2>1, <2>2
<1> HIDE DEF end, N
<1>4. /\ end \in 1 .. Len(lines) /\ (end = 2 + g \/ end = 3 + g)
      /\ lines[2 + g].huge => end = 2 + g
  BY <1>0, <1>1, <1>3
<1>5. Len(frame) = end /\ \A i \in 1 .. end : frame[i] = lines[i]
  BY <1>1, <1>4 DEF Frame, end
<1>6. frame \in Seq(LineSet(events))
  BY <1>1, <1>4 DEF Frame, end
<1> HIDE DEF frame
<1>7. DOMAIN frame = 1 .. end
  BY <1>0, <1>5, <1>6
<1>8. IsData(lines[2 + g], events[k + 1]) /\ k < N
  BY <1>0, <1>1, <1>2
<1>9. ASSUME NEW i \in 1 .. end, i # 2 + g PROVE frame[i].kind # "data"
  <2>1. (i = 1 /\ g = 1) \/ i = 1 + g \/ i = 3 + g
    BY <1>0, <1>4, <1>9
  <2>2. frame[i] = lines[i] /\ i =< Len(lines)
    BY <1>0, <1>4, <1>5
  <2>3. CASE i = 1 /\ g = 1
    <3>1. frame[i] = Blank
      BY <1>0, <1>1, <1>2, <2>2, <2>3
    <3>2. Blank.kind # "data"
      BY DEF Blank
    <3> QED
      BY <3>1, <3>2
  <2>4. CASE i = 1 + g
    BY <1>0, <1>1, <1>2, <2>2, <2>4
  <2>5. CASE i = 3 + g
    <3>1. frame[i] = Blank
      BY <1>0, <1>1, <1>2, <2>2, <2>5
    <3>2. Blank.kind # "data"
      BY DEF Blank
    <3> QED
      BY <3>1, <3>2
  <2> QED
    BY <2>1, <2>3, <2>4, <2>5
<1>10. 2 + g \in 1 .. end /\ frame[2 + g] = lines[2 + g] /\ frame[2 + g].kind = "data"
  <2>1. 2 + g \in 1 .. end
    BY <1>0, <1>4
  <2>2. lines[2 + g].kind = "data"
    BY <1>8 DEF IsData
  <2> QED
    BY <1>0, <1>5, <2>1, <2>2
<1>11. Data(frame) = {2 + g}
  BY <1>7, <1>9, <1>10 DEF Data
<1>12. Last(frame) = lines[end]
  BY <1>0, <1>4, <1>5 DEF Last
<1>13. (Last(frame) = Blank) <=> (3 + g - end = 0)
  <2>1. CASE end = 2 + g
    <3>1. lines[2 + g].kind = "data" /\ Blank.kind # "data"
      BY <1>8 DEF IsData, Blank
    <3> QED
      BY <1>0, <1>12, <2>1, <3>1
  <2>2. CASE end = 3 + g
    BY <1>0, <1>1, <1>2, <1>4, <1>12, <2>2
  <2> QED
    BY <1>0, <1>4, <2>1, <2>2
<1> QED
  BY <1>0, <1>4, <1>8, <1>10, <1>11, <1>13 DEF end, frame, N

(* After a frame with data, what is left starts one event later. *)
LEMMA RestLeft ==
  ASSUME NEW events, NEW k, NEW g, NEW lines, Left(events, k, g, lines), 2 + g =< Len(lines)
  PROVE  /\ Left(events, k + 1, 3 + g - FrameEnd(lines), Rest(lines))
         /\ Shifted(lines, Rest(lines), FrameEnd(lines))
<1> DEFINE N == Len(events)
           end == FrameEnd(lines)
           rest == Rest(lines)
           h == 3 + g - end
<1>9. /\ N \in Nat /\ k \in 0 .. N /\ g \in 0 .. 1 /\ g =< k
      /\ LinesLeft(events, k, g, lines)
  BY DEF Left
<1>8. k + 1 \in 1 .. N /\ h \in 0 .. 1 /\ h = 3 + g - end /\ end \in 1 .. Len(lines)
  BY DataRead
<1>7. rest = SubSeq(lines, end + 1, Len(lines))
  BY DEF Rest
<1> HIDE DEF N, end, rest, h
<1>0. lines \in Seq(LineSet(events)) /\ Len(lines) \in Nat
  BY <1>9 DEF LinesLeft
<1>1. /\ Len(lines) =< 3 * (N - k) + g
      /\ \A i \in 1 .. Len(lines), n \in 1 .. N :
          /\ 3 * n - 2 = 3 * k - g + i => lines[i].kind = "event"
          /\ 3 * n - 1 = 3 * k - g + i => IsData(lines[i], events[n])
          /\ 3 * n     = 3 * k - g + i => lines[i] = Blank
  BY <1>9 DEF LinesLeft, N
<1>2. rest \in Seq(LineSet(events)) /\ Len(rest) = Len(lines) - end
  BY <1>9, <1>8, <1>7, <1>0, <1>1
<1>3. \A i \in 1 .. Len(rest) : rest[i] = lines[i + end]
  BY <1>9, <1>8, <1>7, <1>0, <1>1, <1>2
<1>4. Len(rest) =< 3 * (N - (k + 1)) + h
  BY <1>9, <1>8, <1>7, <1>0, <1>1, <1>2
<1>5. ASSUME NEW i \in 1 .. Len(rest), NEW n \in 1 .. N
      PROVE  /\ 3 * n - 2 = 3 * (k + 1) - h + i => rest[i].kind = "event"
             /\ 3 * n - 1 = 3 * (k + 1) - h + i => IsData(rest[i], events[n])
             /\ 3 * n     = 3 * (k + 1) - h + i => rest[i] = Blank
  <2>1. i + end \in 1 .. Len(lines) /\ 3 * (k + 1) - h + i = 3 * k - g + (i + end)
    BY <1>9, <1>8, <1>7, <1>0, <1>1, <1>2
  <2> QED
    BY <1>9, <1>8, <1>7, <1>0, <1>1, <1>3, <2>1
<1> QED
  BY <1>8, <1>9, <1>2, <1>3, <1>4, <1>5 DEF LinesLeft, Left, Shifted, N, end, rest, h

Fewer(A, B, x) == A \subseteq B \ {x}

(* Its data line is garbled no more ahead, and no other line is. *)
LEMMA GarbledLeft ==
  ASSUME NEW k \in Nat, NEW g \in 0 .. 1, NEW end \in Nat, NEW h \in 0 .. 1, h = 3 + g - end,
         NEW lines, NEW rest, Len(lines) \in Nat, end =< Len(lines),
         Shifted(lines, rest, end)
  PROVE  Fewer(Garbled(k + 1, h, rest), Garbled(k, g, lines), 3 * k + 2)
<1>0. Len(rest) = Len(lines) - end /\ \A i \in 1 .. Len(rest) : rest[i] = lines[i + end]
  BY DEF Shifted
<1>1. 3 * (k + 1) - h = 3 * k - g + end
  OBVIOUS
<1> DEFINE a == 3 * k - g
<1>2. a \in Int
  OBVIOUS
<1>3. Garbled(k + 1, h, rest) = {q \in a + end + 1 .. a + end + Len(rest) :
          rest[q - (a + end)].kind = "data" /\ ~ rest[q - (a + end)].whole}
  BY <1>1 DEF Garbled
<1>4. Garbled(k, g, lines) = {q \in a + 1 .. a + Len(lines) :
          lines[q - a].kind = "data" /\ ~ lines[q - a].whole}
  BY DEF Garbled
<1> HIDE DEF a
<1>5. ASSUME NEW q \in Int
      PROVE  q \in Garbled(k + 1, h, rest)
               <=> q \in Garbled(k, g, lines) /\ q \notin (a + 1 .. a + end)
  <2>1. q \in a + end + 1 .. a + end + Len(rest)
          <=> q \in a + 1 .. a + Len(lines) /\ q \notin (a + 1 .. a + end)
    BY <1>0, <1>2
  <2>2. ASSUME q \in a + end + 1 .. a + end + Len(rest)
        PROVE  rest[q - (a + end)] = lines[q - a]
    <3>1. q - (a + end) \in 1 .. Len(rest) /\ (q - (a + end)) + end = q - a
      BY <1>0, <1>2, <2>2
    <3> QED
      BY <1>0, <3>1
  <2> QED
    BY <1>3, <1>4, <2>1, <2>2
<1>6. Garbled(k + 1, h, rest) \subseteq Int /\ Garbled(k, g, lines) \subseteq Int
  BY <1>0, <1>2, <1>3, <1>4
<1>7. 3 * k + 2 \in (a + 1 .. a + end)
  BY DEF a
<1> QED
  BY <1>5, <1>6, <1>7 DEF Fewer

(* A frame without data, as the invariant needs it. *)
LEMMA FrameWithoutData ==
  ASSUME NEW events, NEW k, NEW g, NEW lines, Left(events, k, g, lines), lines # <<>>,
         Len(lines) < 2 + g
  PROVE  /\ lines \in Seq(LineSet(events))
         /\ Data(Frame(lines)) = {} /\ Rest(lines) = <<>> /\ Frame(lines) = lines
         /\ Left(events, k, g, <<>>) /\ Garbled(k, g, <<>>) = {}
<1>1. /\ Len(events) \in Nat /\ k \in 0 .. Len(events) /\ g \in 0 .. 1 /\ g =< k
      /\ LinesLeft(events, k, g, lines)
  BY DEF Left
<1>2. lines \in Seq(LineSet(events)) /\ Len(lines) \in Nat
  BY <1>1 DEF LinesLeft
<1>3. FrameEnd(lines) = Len(lines)
  BY <1>1, FrameEndIs
<1>4. Frame(lines) = lines
  BY <1>2, <1>3 DEF Frame
<1>5. /\ Data(SubSeq(lines, 1, FrameEnd(lines))) = {}
      /\ SubSeq(lines, FrameEnd(lines) + 1, Len(lines)) = <<>>
      /\ LinesLeft(events, k, g, <<>>) /\ Garbled(k, g, <<>>) = {}
  BY <1>1, NoDataRead
<1> QED
  BY <1>1, <1>2, <1>4, <1>5 DEF Left, Frame, Rest

(* A frame with data, as the invariant needs it. *)
LEMMA FrameWithData ==
  ASSUME NEW events, NEW k \in Nat, NEW g \in 0 .. 1, NEW lines,
         Left(events, k, g, lines), 2 + g =< Len(lines)
  PROVE  /\ k + 1 \in 1 .. Len(events)
         /\ Data(Frame(lines)) = {2 + g} /\ SameAt(Frame(lines), lines, 2 + g)
         /\ IsData(lines[2 + g], events[k + 1])
         /\ lines \in Seq(LineSet(events))
         /\ Frame(lines) \in Seq(LineSet(events)) /\ Rest(lines) \in Seq(LineSet(events))
         /\ Splits(lines, Frame(lines), Rest(lines))
         /\ ~ lines[2 + g].whole => 3 * k + 2 \in Garbled(k, g, lines)
         /\ \E h \in 0 .. 1 :
               /\ Left(events, k + 1, h, Rest(lines))
               /\ (Last(Frame(lines)) = Blank) <=> (h = 0)
               /\ Garbled(k + 1, h, Rest(lines)) \subseteq Garbled(k, g, lines) \ {3 * k + 2}
<1>1. /\ Len(events) \in Nat /\ k \in 0 .. Len(events) /\ g \in 0 .. 1 /\ g =< k
      /\ LinesLeft(events, k, g, lines)
  BY DEF Left
<1>2. lines \in Seq(LineSet(events)) /\ Len(lines) \in Nat
  BY <1>1 DEF LinesLeft
<1>3. /\ k + 1 \in 1 .. Len(events)
      /\ 3 + g - FrameEnd(lines) \in 0 .. 1 /\ FrameEnd(lines) \in 1 .. Len(lines)
      /\ Data(Frame(lines)) = {2 + g} /\ Frame(lines)[2 + g] = lines[2 + g]
      /\ IsData(lines[2 + g], events[k + 1])
      /\ (Last(Frame(lines)) = Blank) <=> (3 + g - FrameEnd(lines) = 0)
  BY DataRead
<1>9. /\ Left(events, k + 1, 3 + g - FrameEnd(lines), Rest(lines))
      /\ Shifted(lines, Rest(lines), FrameEnd(lines))
  BY RestLeft
<1> DEFINE end == FrameEnd(lines)
<1> HIDE DEF end
<1>10. end \in 1 .. Len(lines)
  BY <1>3 DEF end
<1>4. SubSeq(lines, 1, end) \in Seq(LineSet(events))
      /\ SubSeq(lines, end + 1, Len(lines)) \in Seq(LineSet(events))
  BY <1>2, <1>10
<1>5. lines = SubSeq(lines, 1, end) \o SubSeq(lines, end + 1, Len(lines))
  <2>1. SubSeq(lines, 1, end) \o SubSeq(lines, end + 1, Len(lines)) = SubSeq(lines, 1, Len(lines))
    <3>1. /\ 1 \in 1 .. Len(lines) + 1 /\ end \in 1 - 1 .. Len(lines)
          /\ Len(lines) \in end .. Len(lines)
      BY <1>2, <1>10
    <3> QED
      BY <1>2, <3>1, ConcatAdjacentSubSeq
  <2>2. SubSeq(lines, 1, Len(lines)) = lines
    BY <1>2
  <2> QED
    BY <2>1, <2>2
<1>6. ASSUME ~ lines[2 + g].whole PROVE 3 * k + 2 \in Garbled(k, g, lines)
  <2>1. 3 * k + 2 \in 3 * k - g + 1 .. 3 * k - g + Len(lines) /\ 3 * k + 2 - (3 * k - g) = 2 + g
    BY <1>1, <1>2
  <2>2. lines[2 + g].kind = "data"
    BY <1>3 DEF IsData
  <2> QED
    <3>1. 3 * k + 2 \in Garbled(k, g, lines)
            <=> lines[2 + g].kind = "data" /\ ~ lines[2 + g].whole
      <4> DEFINE q == 3 * k + 2
                 a == 3 * k - g
      <4>1. q \in a + 1 .. a + Len(lines) /\ q - a = 2 + g
        BY <2>1
      <4>2. Garbled(k, g, lines) =
              {x \in a + 1 .. a + Len(lines) : lines[x - a].kind = "data" /\ ~ lines[x - a].whole}
        BY DEF Garbled
      <4> HIDE DEF q, a
      <4>3. q \in Garbled(k, g, lines) <=> lines[2 + g].kind = "data" /\ ~ lines[2 + g].whole
        BY <4>1, <4>2
      <4> QED
        BY <4>3 DEF q
    <3> QED
      BY <1>6, <2>1, <2>2, <3>1
<1>7. \E h \in 0 .. 1 :
         /\ Left(events, k + 1, h, Rest(lines))
         /\ (Last(Frame(lines)) = Blank) <=> (h = 0)
         /\ Garbled(k + 1, h, Rest(lines)) \subseteq Garbled(k, g, lines) \ {3 * k + 2}
  <2>1. PICK e \in Nat : e = FrameEnd(lines)
    BY <1>2, <1>3
  <2>2. PICK h \in 0 .. 1 : h = 3 + g - e
    BY <1>3, <2>1
  <2>3. Shifted(lines, Rest(lines), e) /\ e =< Len(lines)
    BY <1>2, <1>3, <1>9, <2>1
  <2>4. Fewer(Garbled(k + 1, h, Rest(lines)), Garbled(k, g, lines), 3 * k + 2)
    BY <1>2, <2>2, <2>3, GarbledLeft
  <2>6. Left(events, k + 1, h, Rest(lines)) /\ ((Last(Frame(lines)) = Blank) <=> (h = 0))
    BY <1>3, <1>9, <2>1, <2>2
  <2>7. Garbled(k + 1, h, Rest(lines)) \subseteq Garbled(k, g, lines) \ {3 * k + 2}
    BY <2>4 DEF Fewer
  <2> QED
    BY <2>6, <2>7
<1> QED
  BY <1>2, <1>3, <1>4, <1>5, <1>6, <1>7 DEF Frame, Rest, end, Splits, SameAt

-------------------------------------------------------------------------------
(* The events that framing keeps. *)

(* What is split is read in two. *)
LEMMA MappedSplits ==
  ASSUME NEW S, NEW R, NEW h \in [S -> Seq(R)], NEW s \in Seq(S), NEW t \in Seq(S),
         NEW u, Splits(u, s, t)
  PROVE  Splits(Mapped(h, u), Mapped(h, s), Mapped(h, t))
<1>1. Mapped(h, s \o t) = Mapped(h, s) \o Mapped(h, t)
  BY MappedConcat
<1> QED
  BY <1>1 DEF Splits

OnlyAt(h, s, d) == \A i \in 1 .. Len(s) : i # d => h[s[i]] = <<>>

(* A sequence in which one element alone carries something reads as this    *)
(* one.                                                                     *)
LEMMA MappedOnly ==
  ASSUME NEW L, NEW E, NEW h \in [L -> Seq(E)], NEW s \in Seq(L), NEW d \in 1 .. Len(s),
         OnlyAt(h, s, d)
  PROVE  Mapped(h, s) = h[s[d]]
<1> DEFINE ss == [i \in 1 .. Len(s) |-> h[s[i]]]
<1>1. ss \in Seq(Seq(E))
  BY MapType
<1>2. Len(ss) = Len(s) /\ \A i \in 1 .. Len(s) : ss[i] = h[s[i]]
  OBVIOUS
<1> HIDE DEF ss
<1>3. FlattenSeq(ss) = ss[d]
  <2>1. \A i \in 1 .. Len(ss) : i # d => ss[i] = <<>>
    BY <1>2 DEF OnlyAt
  <2> QED
    BY <1>1, <1>2, <2>1, FlattenOnly
<1> QED
  BY <1>2, <1>3 DEF Mapped, ss

(* A sequence whose first part is of this kind. *)
LEMMA MappedSplit ==
  ASSUME NEW L, NEW E, NEW h \in [L -> Seq(E)], NEW s \in Seq(L), NEW t \in Seq(L),
         NEW u, Splits(u, s, t), NEW d \in 1 .. Len(s), OnlyAt(h, s, d)
  PROVE  Splits(Mapped(h, u), h[s[d]], Mapped(h, t))
<1>1. Mapped(h, s) = h[s[d]]
  BY MappedOnly
<1>2. Splits(Mapped(h, u), Mapped(h, s), Mapped(h, t))
  BY MappedSplits
<1> QED
  BY <1>1, <1>2

Picks(events) ==
    [l \in LineSet(events) |-> IF l.kind = "data" /\ l.whole THEN <<l.event>> ELSE <<>>]

(* The intact events of a body are read off its lines one by one. *)
LEMMA IntactMapped ==
  ASSUME NEW events
  PROVE  /\ Picks(events) \in [LineSet(events) -> Seq(EventSet(events))]
         /\ \A lines \in Seq(LineSet(events)) : Intact(lines) = Mapped(Picks(events), lines)
<1> DEFINE E == EventSet(events)
           L == LineSet(events)
<1>1. ASSUME NEW l \in L, l.kind = "data" PROVE l.event \in E
  <2>1. l \in [kind : {"data"}, event : E, whole : BOOLEAN, huge : BOOLEAN]
    BY <1>1 DEF LineSet, Blank, EventSet
  <2> HIDE DEF E
  <2> QED
    BY <2>1
<1>2. Picks(events) \in [L -> Seq(E)]
  <2> HIDE DEF E, L
  <2>1. \A l \in L : (IF l.kind = "data" /\ l.whole THEN <<l.event>> ELSE <<>>) \in Seq(E)
    <3>1. \A e \in E : <<e>> \in Seq(E)
      OBVIOUS
    <3>2. <<>> \in Seq(E)
      OBVIOUS
    <3> QED
      BY <1>1, <3>1, <3>2
  <2>2. Picks(events) =
          [l \in L |-> IF l.kind = "data" /\ l.whole THEN <<l.event>> ELSE <<>>]
    BY DEF Picks, L
  <2> QED
    BY <2>1, <2>2
<1>3. ASSUME NEW lines \in Seq(L) PROVE Intact(lines) = Mapped(Picks(events), lines)
  <2>1. \A i \in 1 .. Len(lines) : lines[i] \in L
    OBVIOUS
  <2>2. [i \in 1 .. Len(lines) |-> IF lines[i].kind = "data" /\ lines[i].whole
                                   THEN <<lines[i].event>> ELSE <<>>]
          = [i \in 1 .. Len(lines) |-> Picks(events)[lines[i]]]
    BY <2>1 DEF Picks
  <2> QED
    BY <2>2 DEF Intact, Mapped
<1> QED
  BY <1>2, <1>3

(* The end of a body without a data line has no event. *)
LEMMA IntactNone ==
  ASSUME NEW events, NEW k, NEW g, NEW lines, Left(events, k, g, lines), lines # <<>>,
         Len(lines) < 2 + g
  PROVE  Intact(lines) = <<>> /\ Intact(<<>>) = <<>>
<1> DEFINE E == EventSet(events)
           L == LineSet(events)
           h == Picks(events)
<1>1. h \in [L -> Seq(E)] /\ \A ls \in Seq(L) : Intact(ls) = Mapped(h, ls)
  BY IntactMapped
<1>2. lines \in Seq(L) /\ Data(lines) = {}
  BY FrameWithoutData
<1>5. \A i \in 1 .. Len(lines) : lines[i].kind # "data" /\ lines[i] \in L
  <2>1. DOMAIN lines = 1 .. Len(lines) /\ \A i \in 1 .. Len(lines) : lines[i] \in L
    BY <1>2
  <2> QED
    BY <1>2, <2>1 DEF Data
<1>6. \A i \in 1 .. Len(lines) : h[lines[i]] = <<>>
  BY <1>5 DEF Picks
<1> HIDE DEF E, L, h
<1>7. Mapped(h, lines) = <<>>
  BY <1>1, <1>2, <1>6, MappedNone
<1>8. <<>> \in Seq(L)
  OBVIOUS
<1> QED
  BY <1>1, <1>2, <1>7, <1>8, MappedEmpty

(* Reading a frame takes at most its own event off the intact ones. *)
LEMMA IntactRead ==
  ASSUME NEW events, NEW k \in Nat, NEW g \in 0 .. 1, NEW lines, Left(events, k, g, lines),
         2 + g =< Len(lines)
  PROVE  /\ lines[2 + g].whole => Intact(lines) = <<events[k + 1]>> \o Intact(Rest(lines))
         /\ ~ lines[2 + g].whole => Intact(lines) = Intact(Rest(lines))
         /\ Intact(Rest(lines)) \in Seq(EventSet(events))
<1> DEFINE E == EventSet(events)
           L == LineSet(events)
           h == Picks(events)
           frame == Frame(lines)
           rest == Rest(lines)
           d == 2 + g
<1>1. h \in [L -> Seq(E)] /\ \A ls \in Seq(L) : Intact(ls) = Mapped(h, ls)
  BY IntactMapped
<1>2. /\ lines \in Seq(L) /\ frame \in Seq(L) /\ rest \in Seq(L)
      /\ Splits(lines, frame, rest)
      /\ Data(frame) = {d} /\ frame[d] = lines[d] /\ IsData(lines[d], events[k + 1])
  <2>1. lines \in Seq(LineSet(events)) /\ Frame(lines) \in Seq(LineSet(events))
    BY FrameWithData
  <2>2. Rest(lines) \in Seq(LineSet(events))
    BY FrameWithData
  <2>3. Splits(lines, Frame(lines), Rest(lines))
    BY FrameWithData
  <2>4. Data(Frame(lines)) = {2 + g}
    BY FrameWithData
  <2>5. SameAt(Frame(lines), lines, 2 + g)
    BY FrameWithData
  <2>6. IsData(lines[2 + g], events[k + 1])
    BY FrameWithData
  <2> QED
    BY <2>1, <2>2, <2>3, <2>4, <2>5, <2>6 DEF SameAt
<1>3. DOMAIN frame = 1 .. Len(frame) /\ \A i \in 1 .. Len(frame) : frame[i] \in L
  BY <1>2
<1>4. d \in 1 .. Len(frame) /\ \A i \in 1 .. Len(frame) : i # d => frame[i].kind # "data"
  <2> HIDE DEF frame, d
  <2> QED
    BY <1>2, <1>3 DEF Data
<1>5. \A i \in 1 .. Len(frame) : i # d => h[frame[i]] = <<>>
  <2> HIDE DEF frame, d
  <2> QED
    BY <1>3, <1>4 DEF Picks
<1>6. h[frame[d]] = IF lines[d].whole THEN <<events[k + 1]>> ELSE <<>>
  <2>1. h[frame[d]] = IF lines[d].kind = "data" /\ lines[d].whole THEN <<lines[d].event>> ELSE <<>>
    BY <1>2, <1>3, <1>4 DEF Picks
  <2>2. lines[d].kind = "data" /\ lines[d].event = events[k + 1]
    BY <1>2 DEF IsData
  <2> QED
    BY <2>1, <2>2
<1> HIDE DEF E, L, h, frame, rest, d
<1>7. Splits(Mapped(h, lines), h[frame[d]], Mapped(h, rest))
  <2>1. OnlyAt(h, frame, d)
    BY <1>5 DEF OnlyAt
  <2> QED
    BY <1>1, <1>2, <1>4, <2>1, MappedSplit
<1>8. Intact(lines) = h[frame[d]] \o Intact(rest) /\ Intact(rest) \in Seq(E)
  <2>1. Mapped(h, rest) \in Seq(E)
    BY <1>1, <1>2, MapType
  <2> QED
    BY <1>1, <1>2, <1>7, <2>1 DEF Splits
<1>17. CASE lines[d].whole
  BY <1>6, <1>8, <1>17 DEF d, E, rest
<1>18. CASE ~ lines[d].whole
  <2>1. <<>> \o Intact(rest) = Intact(rest)
    BY <1>8
  <2> QED
    BY <1>6, <1>8, <1>18, <2>1 DEF d, E, rest
<1> QED
  BY <1>17, <1>18 DEF d

-------------------------------------------------------------------------------
(* Faults: how many errors are still to come. *)

(* Twice the garbled lines ahead: each counts for at most two errors. *)
Budget(k, g, lines) == 2 * Cardinality(Garbled(k, g, lines))

(* There are finitely many garbled lines. *)
LEMMA GarbledFinite ==
  ASSUME NEW k \in Nat, NEW g \in 0 .. 1, NEW lines, Len(lines) \in Nat
  PROVE  IsFiniteSet(Garbled(k, g, lines)) /\ Cardinality(Garbled(k, g, lines)) \in Nat
<1> DEFINE a == 3 * k - g + 1
           b == 3 * k - g + Len(lines)
<1>1. a \in Int /\ b \in Int
  OBVIOUS
<1>2. Garbled(k, g, lines) \subseteq a .. b
  BY DEF Garbled
<1> HIDE DEF a, b
<1>3. IsFiniteSet(a .. b)
  BY <1>1, FS_Interval
<1>4. IsFiniteSet(Garbled(k, g, lines))
  BY <1>2, <1>3, FS_Subset
<1> QED
  BY <1>4, FS_CardinalityType

(* Nothing garbled, no error to come. *)
LEMMA BudgetNone ==
  ASSUME NEW k, NEW g, NEW lines, Garbled(k, g, lines) = {}
  PROVE  Budget(k, g, lines) = 0
<1>1. Cardinality(Garbled(k, g, lines)) = 0
  BY FS_EmptySet
<1> QED
  BY <1>1 DEF Budget

(* Reading a garbled line takes its two errors off what is to come. *)
LEMMA BudgetRead ==
  ASSUME NEW k \in Nat, NEW g \in 0 .. 1, NEW lines, Len(lines) \in Nat,
         NEW n \in Nat, NEW h \in 0 .. 1, NEW rest, Len(rest) \in Nat,
         NEW x, Fewer(Garbled(n, h, rest), Garbled(k, g, lines), x)
  PROVE  /\ Budget(k, g, lines) \in Nat /\ Budget(n, h, rest) \in Nat
         /\ Budget(n, h, rest) =< Budget(k, g, lines)
         /\ x \in Garbled(k, g, lines) => Budget(n, h, rest) + 2 =< Budget(k, g, lines)
<1> DEFINE A == Garbled(n, h, rest)
           B == Garbled(k, g, lines)
<1>1. IsFiniteSet(A) /\ Cardinality(A) \in Nat
  BY GarbledFinite
<1>2. IsFiniteSet(B) /\ Cardinality(B) \in Nat
  BY GarbledFinite
<1>3. A \subseteq B \ {x}
  BY DEF Fewer
<1>6. Budget(n, h, rest) = 2 * Cardinality(A) /\ Budget(k, g, lines) = 2 * Cardinality(B)
  BY DEF Budget
<1> HIDE DEF A, B
<1>4. Cardinality(A) =< Cardinality(B)
  BY <1>2, <1>3, FS_Subset
<1>5. ASSUME x \in B PROVE Cardinality(A) + 1 =< Cardinality(B)
  <2>1. IsFiniteSet(B \ {x}) /\ Cardinality(B \ {x}) = Cardinality(B) - 1
    BY <1>2, <1>5, FS_RemoveElement
  <2>2. Cardinality(A) =< Cardinality(B \ {x})
    BY <1>3, <2>1, FS_Subset
  <2> QED
    BY <1>1, <1>2, <2>1, <2>2
<1>7. Budget(k, g, lines) \in Nat /\ Budget(n, h, rest) \in Nat
         /\ Budget(n, h, rest) =< Budget(k, g, lines)
  BY <1>1, <1>2, <1>4, <1>6
<1>8. x \in B => Budget(n, h, rest) + 2 =< Budget(k, g, lines)
  BY <1>1, <1>2, <1>5, <1>6
<1> QED
  BY <1>7, <1>8 DEF B

(* A body that was cut, and in which one line was garbled. *)
Damaged(lines, new, d) ==
    /\ Len(new) \in Nat /\ Len(new) =< Len(lines)
    /\ \A i \in 1 .. Len(new) :
          \/ new[i] = lines[i]
          \/ /\ i = d /\ lines[i].kind = "data" /\ new[i].kind = "data"
             /\ new[i].event = lines[i].event /\ ~ new[i].whole
             /\ new[i].whole \in BOOLEAN /\ new[i].huge \in BOOLEAN

(* A damaged body is still made of the lines that were left. *)
LEMMA DamagedLeft ==
  ASSUME NEW events, NEW k \in Nat, NEW g \in 0 .. 1, NEW lines, Left(events, k, g, lines),
         NEW new \in Seq(LineSet(events)), NEW d, Damaged(lines, new, d)
  PROVE  Left(events, k, g, new)
<1>1. /\ Len(events) \in Nat /\ k \in 0 .. Len(events) /\ g =< k
      /\ LinesLeft(events, k, g, lines)
  BY DEF Left
<1> DEFINE N == Len(events)
<1>2. /\ lines \in Seq(LineSet(events)) /\ Len(lines) \in Nat
      /\ Len(lines) =< 3 * (N - k) + g
      /\ \A i \in 1 .. Len(lines), n \in 1 .. N :
          /\ 3 * n - 2 = 3 * k - g + i => lines[i].kind = "event"
          /\ 3 * n - 1 = 3 * k - g + i => IsData(lines[i], events[n])
          /\ 3 * n     = 3 * k - g + i => lines[i] = Blank
  BY <1>1 DEF LinesLeft
<1>3. Len(new) \in Nat /\ Len(new) =< Len(lines)
  BY DEF Damaged
<1>4. Len(new) =< 3 * (N - k) + g
  BY <1>1, <1>2, <1>3
<1>5. ASSUME NEW i \in 1 .. Len(new), NEW n \in 1 .. N
      PROVE  /\ 3 * n - 2 = 3 * k - g + i => new[i].kind = "event"
             /\ 3 * n - 1 = 3 * k - g + i => IsData(new[i], events[n])
             /\ 3 * n     = 3 * k - g + i => new[i] = Blank
  <2>1. i \in 1 .. Len(lines)
    BY <1>2, <1>3
  <2>2. /\ 3 * n - 2 = 3 * k - g + i => lines[i].kind = "event"
        /\ 3 * n - 1 = 3 * k - g + i => IsData(lines[i], events[n])
        /\ 3 * n     = 3 * k - g + i => lines[i] = Blank
    BY <1>2, <2>1
  <2>3. CASE new[i] = lines[i]
    BY <2>2, <2>3
  <2>4. CASE /\ lines[i].kind = "data" /\ new[i].kind = "data"
             /\ new[i].event = lines[i].event /\ ~ new[i].whole
             /\ new[i].whole \in BOOLEAN /\ new[i].huge \in BOOLEAN
    <3>1. Blank.kind # "data"
      BY DEF Blank
    <3>2. IsData(lines[i], events[n]) => IsData(new[i], events[n])
      BY <2>4 DEF IsData
    <3> QED
      BY <2>2, <2>4, <3>1, <3>2
  <2> QED
    BY <2>3, <2>4 DEF Damaged
<1>6. LinesLeft(events, k, g, new)
  BY <1>4, <1>5 DEF LinesLeft
<1> QED
  BY <1>1, <1>6 DEF Left

(* A fault adds at most one garbled line, hence two errors. *)
LEMMA DamagedBudget ==
  ASSUME NEW k \in Nat, NEW g \in 0 .. 1, NEW lines, Len(lines) \in Nat,
         NEW new, NEW d, Damaged(lines, new, d)
  PROVE  /\ Budget(k, g, lines) \in Nat /\ Budget(k, g, new) \in Nat
         /\ Budget(k, g, new) =< Budget(k, g, lines) + 2
<1> DEFINE a == 3 * k - g
           A == Garbled(k, g, new)
           B == Garbled(k, g, lines)
           x == a + d
<1>1. Len(new) \in Nat /\ Len(new) =< Len(lines)
  BY DEF Damaged
<1>2. IsFiniteSet(A) /\ Cardinality(A) \in Nat
  BY <1>1, GarbledFinite
<1>3. IsFiniteSet(B) /\ Cardinality(B) \in Nat
  BY GarbledFinite
<1>4. A \subseteq B \cup {x}
  <2>1. a \in Int
    OBVIOUS
  <2>2. A = {q \in a + 1 .. a + Len(new) : new[q - a].kind = "data" /\ ~ new[q - a].whole}
    BY DEF Garbled
  <2>3. B = {q \in a + 1 .. a + Len(lines) : lines[q - a].kind = "data" /\ ~ lines[q - a].whole}
    BY DEF Garbled
  <2> HIDE DEF a, A, B
  <2> SUFFICES ASSUME NEW q \in A PROVE q \in B \/ q = x
    OBVIOUS
  <2>4. q \in a + 1 .. a + Len(new) /\ new[q - a].kind = "data" /\ ~ new[q - a].whole
    BY <2>2
  <2>5. q \in Int /\ q - a \in 1 .. Len(new) /\ q \in a + 1 .. a + Len(lines)
    BY <1>1, <2>1, <2>4
  <2>6. new[q - a] = lines[q - a] \/ q - a = d
    BY <2>5 DEF Damaged
  <2> QED
    BY <2>1, <2>3, <2>4, <2>5, <2>6
<1>5. Budget(k, g, new) = 2 * Cardinality(A) /\ Budget(k, g, lines) = 2 * Cardinality(B)
  BY DEF Budget
<1> HIDE DEF A, B, x
<1>6. IsFiniteSet(B \cup {x}) /\ Cardinality(B \cup {x}) =< Cardinality(B) + 1
  BY <1>3, FS_AddElement
<1>7. Cardinality(B \cup {x}) \in Nat /\ Cardinality(A) =< Cardinality(B \cup {x})
  BY <1>4, <1>6, FS_Subset, FS_CardinalityType
<1> QED
  BY <1>2, <1>3, <1>5, <1>6, <1>7

(* Cutting a body garbles no line. *)
LEMMA CutDamages ==
  ASSUME NEW L, NEW lines \in Seq(L), NEW i \in 1 .. Len(lines)
  PROVE  SubSeq(lines, 1, i) \in Seq(L) /\ Damaged(lines, SubSeq(lines, 1, i), 0)
<1>1. SubSeq(lines, 1, i) \in Seq(L)
  OBVIOUS
<1>2. Len(SubSeq(lines, 1, i)) = i /\ \A j \in 1 .. i : SubSeq(lines, 1, i)[j] = lines[j]
  OBVIOUS
<1> QED
  BY <1>1, <1>2 DEF Damaged

(* The data lines of a body. *)
DataLines(events) ==
    [kind : {"data"}, event : EventSet(events), whole : BOOLEAN, huge : BOOLEAN]

GarbledLine(l, n) ==
    /\ n.kind = "data" /\ n.event = l.event /\ ~ n.whole
    /\ n.whole \in BOOLEAN /\ n.huge \in BOOLEAN

(* The data lines are those lines of a body whose kind says so. *)
LEMMA LineData ==
  ASSUME NEW events
  PROVE  /\ DataLines(events) \subseteq LineSet(events)
         /\ \A l \in LineSet(events) : l.kind = "data" => l \in DataLines(events)
<1>1. LineSet(events) = {[kind |-> "event"], Blank} \cup DataLines(events)
  BY DEF LineSet, EventSet, DataLines
<1>2. [kind |-> "event"].kind # "data" /\ Blank.kind # "data"
  BY DEF Blank
<1> QED
  BY <1>1, <1>2

(* Garbling a data line leaves a data line of the same event. *)
LEMMA GarbledLines ==
  ASSUME NEW events, NEW l \in DataLines(events), NEW h \in BOOLEAN
  PROVE  /\ [l EXCEPT !.whole = FALSE, !.huge = h] \in DataLines(events)
         /\ GarbledLine(l, [l EXCEPT !.whole = FALSE, !.huge = h])
         /\ [l EXCEPT !.whole = FALSE] \in DataLines(events)
         /\ GarbledLine(l, [l EXCEPT !.whole = FALSE])
  BY DEF DataLines, GarbledLine

(* A body with one line garbled is damaged there. *)
LEMMA OneGarbled ==
  ASSUME NEW events, NEW lines \in Seq(LineSet(events)), NEW cut \in Seq(LineSet(events)),
         Len(cut) =< Len(lines), \A j \in 1 .. Len(cut) : cut[j] = lines[j],
         NEW i \in 1 .. Len(cut), lines[i].kind = "data",
         NEW bad \in DataLines(events), GarbledLine(lines[i], bad)
  PROVE  /\ [cut EXCEPT ![i] = bad] \in Seq(LineSet(events))
         /\ Damaged(lines, [cut EXCEPT ![i] = bad], i)
<1> DEFINE new == [cut EXCEPT ![i] = bad]
<1>0. bad \in LineSet(events)
  BY LineData
<1>1. /\ new \in Seq(LineSet(events)) /\ Len(new) = Len(cut)
      /\ \A j \in 1 .. Len(cut) : new[j] = IF j = i THEN bad ELSE cut[j]
  BY <1>0
<1>2. Len(cut) \in Nat /\ Len(lines) \in Nat
  OBVIOUS
<1> HIDE DEF new
<1>3. ASSUME NEW j \in 1 .. Len(new), j = i
      PROVE  /\ lines[j].kind = "data" /\ new[j].kind = "data"
             /\ new[j].event = lines[j].event /\ ~ new[j].whole
             /\ new[j].whole \in BOOLEAN /\ new[j].huge \in BOOLEAN
  <2>1. new[j] = bad
    BY <1>1, <1>3
  <2>2. GarbledLine(lines[j], new[j])
    BY <1>3, <2>1
  <2> QED
    BY <1>3, <2>2 DEF GarbledLine
<1>4. \A j \in 1 .. Len(new) : j # i => new[j] = lines[j]
  BY <1>1
<1>5. Damaged(lines, new, i)
  BY <1>1, <1>2, <1>3, <1>4 DEF Damaged
<1> QED
  BY <1>1, <1>5 DEF new

(* Garbling line i of a body. *)
LEMMA GarbleDamages ==
  ASSUME NEW events, NEW lines \in Seq(LineSet(events)), NEW i \in 1 .. Len(lines),
         lines[i].kind = "data", NEW huge \in BOOLEAN
  PROVE  /\ [lines EXCEPT ![i].whole = FALSE, ![i].huge = huge] \in Seq(LineSet(events))
         /\ Damaged(lines, [lines EXCEPT ![i].whole = FALSE, ![i].huge = huge], i)
<1> DEFINE bad == [lines[i] EXCEPT !.whole = FALSE, !.huge = huge]
<1>1. lines[i] \in DataLines(events)
  BY LineData
<1>2. bad \in DataLines(events) /\ GarbledLine(lines[i], bad)
  BY <1>1, GarbledLines
<1>3. [lines EXCEPT ![i].whole = FALSE, ![i].huge = huge] = [lines EXCEPT ![i] = bad]
  OBVIOUS
<1>4. Len(lines) =< Len(lines)
  OBVIOUS
<1> HIDE DEF bad
<1>5. /\ [lines EXCEPT ![i] = bad] \in Seq(LineSet(events))
      /\ Damaged(lines, [lines EXCEPT ![i] = bad], i)
  BY <1>2, <1>4, OneGarbled
<1> QED
  BY <1>3, <1>5

(* Breaking a body inside line i. *)
LEMMA BreakDamages ==
  ASSUME NEW events, NEW lines \in Seq(LineSet(events)), NEW i \in 1 .. Len(lines),
         lines[i].kind = "data"
  PROVE  /\ [SubSeq(lines, 1, i) EXCEPT ![i].whole = FALSE] \in Seq(LineSet(events))
         /\ Damaged(lines, [SubSeq(lines, 1, i) EXCEPT ![i].whole = FALSE], i)
<1> DEFINE cut == SubSeq(lines, 1, i)
           bad == [cut[i] EXCEPT !.whole = FALSE]
<1>0. cut \in Seq(LineSet(events)) /\ Len(cut) = i /\ \A j \in 1 .. i : cut[j] = lines[j]
  OBVIOUS
<1>1. cut[i] = lines[i] /\ Len(cut) =< Len(lines) /\ i \in 1 .. Len(cut)
      /\ \A j \in 1 .. Len(cut) : cut[j] = lines[j]
  BY <1>0
<1>2. lines[i] \in DataLines(events)
  BY LineData
<1> HIDE DEF cut
<1>3. bad \in DataLines(events) /\ GarbledLine(lines[i], bad)
  BY <1>1, <1>2, GarbledLines
<1>4. [cut EXCEPT ![i].whole = FALSE] = [cut EXCEPT ![i] = bad]
  OBVIOUS
<1> HIDE DEF bad
<1>5. /\ [cut EXCEPT ![i] = bad] \in Seq(LineSet(events))
      /\ Damaged(lines, [cut EXCEPT ![i] = bad], i)
  BY <1>0, <1>1, <1>3, OneGarbled
<1> QED
  BY <1>4, <1>5 DEF cut

-------------------------------------------------------------------------------
(* The client. *)

(* No chunk changes nothing. *)
LEMMA AssembleNone ==
  ASSUME NEW v
  PROVE  AssembleAll(v, <<>>) = v
<1> DEFINE P(f) == f = [n \in 0 .. Len(<<>>) |-> IF n = 0 THEN v ELSE Assemble(f[n - 1], <<>>[n])]
           a == CHOOSE f : P(f)
<1>1. AssembleAll(v, <<>>) = a[Len(<<>>)]
  BY DEF AssembleAll
<1>2. \E f : P(f)
  <2> DEFINE f0 == [n \in 0 .. Len(<<>>) |-> v]
  <2>1. \A n \in 0 .. Len(<<>>) : n = 0
    OBVIOUS
  <2>2. P(f0)
    BY <2>1
  <2> QED
    BY <2>2
<1>3. P(a)
  BY <1>2, Zenon
<1>4. a[0] = v
  BY <1>3
<1> QED
  BY <1>1, <1>4

(* One chunk is assembled. *)
LEMMA AssembleOne ==
  ASSUME NEW v, NEW c
  PROVE  AssembleAll(v, <<c>>) = Assemble(v, c)
<1> DEFINE P(f) == f = [n \in 0 .. Len(<<c>>) |-> IF n = 0 THEN v ELSE Assemble(f[n - 1], <<c>>[n])]
           a == CHOOSE f : P(f)
<1>1. AssembleAll(v, <<c>>) = a[Len(<<c>>)]
  BY DEF AssembleAll
<1>2. \E f : P(f)
  <2> DEFINE f0 == [n \in 0 .. Len(<<c>>) |-> IF n = 0 THEN v ELSE Assemble(v, c)]
  <2>1. \A n \in 0 .. Len(<<c>>) : n = 0 \/ n = 1
    OBVIOUS
  <2>3. f0[0] = v /\ <<c>>[1] = c
    OBVIOUS
  <2>2. P(f0)
    BY <2>1, <2>3
  <2> QED
    BY <2>2
<1>3. P(a)
  BY <1>2, Zenon
<1>5. a = [n \in 0 .. Len(<<c>>) |-> IF n = 0 THEN v ELSE Assemble(a[n - 1], <<c>>[n])]
  BY <1>3
<1>6. Len(<<c>>) = 1 /\ <<c>>[1] = c /\ 0 \in 0 .. 1 /\ 1 \in 0 .. 1 /\ 1 - 1 = 0
  OBVIOUS
<1> HIDE DEF a
<1>4. a[0] = v /\ a[1] = Assemble(a[0], c)
  <2>1. a[0] = v
    BY <1>5, <1>6
  <2>2. a[1] = Assemble(a[1 - 1], <<c>>[1])
    BY <1>5, <1>6
  <2> QED
    BY <1>6, <2>1, <2>2
<1> QED
  BY <1>1, <1>4, <1>6

(* No chunk changes nothing, whatever hangs before it. *)
LEMMA ReceiveNone ==
  ASSUME NEW v, NEW hanging
  PROVE  Receive(v, hanging, <<>>) = v
  BY AssembleNone DEF Receive

(* One chunk is assembled, or is lost when bytes hang before it. *)
LEMMA ReceiveOne ==
  ASSUME NEW v, NEW hanging, NEW c
  PROVE  /\ hanging => Receive(v, hanging, <<c>>) = [v EXCEPT !.lost = TRUE]
         /\ ~ hanging => Receive(v, hanging, <<c>>) = Assemble(v, c)
<1>1. <<c>> # <<>> /\ Tail(<<c>>) = <<>>
  OBVIOUS
<1>2. AssembleAll(v, <<>>) = v /\ AssembleAll(v, <<c>>) = Assemble(v, c)
  BY AssembleNone, AssembleOne
<1> QED
  BY <1>1, <1>2 DEF Receive

(* A chunk without a call leaves the calls alone. *)
LEMMA AddNoTool ==
  ASSUME NEW tools
  PROVE  AddTool(tools, NoTool) = tools
  BY DEF AddTool, NoTool

(* A call whose index is new is appended. *)
LEMMA AddNewTool ==
  ASSUME NEW tools \in Seq(Calls), NEW name \in Nat, NEW args \in Seq(Nat), NEW t,
         t = [index |-> Len(tools), name |-> name, args |-> args]
  PROVE  t \in Calls /\ AddTool(tools, t) = Append(tools, t)
<1>1. t.index = Len(tools) /\ t.name = name /\ t.args = args
  OBVIOUS
<1>2. Len(tools) + 1 \notin DOMAIN tools /\ Len(tools) # -1 /\ Len(tools) \in Nat
  OBVIOUS
<1>3. AddTool(tools, t) = Append(tools, [index |-> t.index, name |-> t.name, args |-> t.args])
  BY <1>1, <1>2 DEF AddTool
<1>4. t \in Calls
  BY <1>2 DEF Calls
<1> QED
  BY <1>1, <1>3, <1>4

(* A tool call that grew by some arguments. *)
Extends(c, d, args) == d.index = c.index /\ d.name = c.name /\ d.args = c.args \o args

(* Arguments are added to a call and change nothing else of it. *)
LEMMA CallExtended ==
  ASSUME NEW c \in Calls, NEW args \in Seq(Nat), NEW d, d = [c EXCEPT !.args = c.args \o args]
  PROVE  d \in Calls /\ Extends(c, d, args)
<1>1. c.args \in Seq(Nat)
  BY DEF Calls
<1>2. c.args \o args \in Seq(Nat)
  BY <1>1, ConcatProperties
<1> DEFINE a == c.args \o args
<1> HIDE DEF a
<1>3. a \in Seq(Nat) /\ d = [c EXCEPT !.args = a]
  BY <1>2 DEF a
<1>4. d \in Calls /\ d.index = c.index /\ d.name = c.name /\ d.args = a
  BY <1>3 DEF Calls
<1> QED
  BY <1>4 DEF a, Extends

Extended(tools, new, i, args) ==
    /\ new \in Seq(Calls) /\ Len(new) = Len(tools)
    /\ Extends(tools[i], new[i], args)
    /\ \A j \in 1 .. Len(tools) : j # i => new[j] = tools[j]

(* A fragment with a known index extends that call, and no other. *)
LEMMA AddToTool ==
  ASSUME NEW tools \in Seq(Calls), NEW i \in Nat, 1 =< i, i =< Len(tools),
         NEW args \in Seq(Nat), NEW t, t.index = i - 1, t.args = args,
         NEW new, new = AddTool(tools, t)
  PROVE  Extended(tools, new, i, args)
<1> DEFINE d == [tools[i] EXCEPT !.args = tools[i].args \o args]
<1>0. i \in 1 .. Len(tools) /\ t.index + 1 = i /\ t.index # -1
  OBVIOUS
<1>1. i \in DOMAIN tools /\ tools[i] \in Calls
  BY <1>0
<1>2. new = [tools EXCEPT ![i].args = @ \o t.args]
  BY <1>0, <1>1 DEF AddTool
<1>3. new = [tools EXCEPT ![i] = d]
  BY <1>2
<1>4. d \in Calls /\ Extends(tools[i], d, args)
  BY <1>1, CallExtended
<1> HIDE DEF d
<1>5. new \in Seq(Calls) /\ Len(new) = Len(tools) /\ new[i] = d
      /\ \A j \in 1 .. Len(tools) : j # i => new[j] = tools[j]
  BY <1>0, <1>3, <1>4
<1> QED
  BY <1>4, <1>5 DEF Extended

(* The calls of a client keep their type. *)
LEMMA AddToolType ==
  ASSUME NEW tools \in Seq(Calls), NEW t \in Calls
  PROVE  AddTool(tools, t) \in Seq(Calls)
<1>1. /\ t.index \in Int /\ t.args \in Seq(Nat)
      /\ [index |-> t.index, name |-> t.name, args |-> t.args] \in Calls
  BY DEF Calls
<1>2. CASE t.index = -1
  BY <1>2 DEF AddTool
<1>3. CASE t.index # -1 /\ t.index + 1 \in DOMAIN tools
  <2>1. PICK i \in Nat : i = t.index + 1 /\ 1 =< i /\ i =< Len(tools) /\ t.index = i - 1
    BY <1>1, <1>3
  <2>2. Extended(tools, AddTool(tools, t), i, t.args)
    BY <1>1, <2>1, AddToTool
  <2> QED
    BY <2>2 DEF Extended
<1>4. CASE t.index # -1 /\ t.index + 1 \notin DOMAIN tools
  BY <1>1, <1>4 DEF AddTool
<1> QED
  BY <1>2, <1>3, <1>4

(* What a client holds after one more chunk. *)
Received(v, w, role, text, tools, finish) ==
    /\ w \in Views
    /\ w.roles = v.roles + (IF role THEN 1 ELSE 0)
    /\ w.text = v.text \o text
    /\ w.tools = tools
    /\ w.finish = IF finish = "" THEN v.finish ELSE finish
    /\ w.lost = v.lost

(* What a client holds after a chunk, field by field. *)
LEMMA AssembleFields ==
  ASSUME NEW v \in Views, NEW role \in BOOLEAN, NEW text \in Seq(Nat), NEW tool,
         NEW finish \in Reasons, NEW tools \in Seq(Calls), tools = AddTool(v.tools, tool),
         NEW w, w = Assemble(v, Chunk(role, text, tool, finish))
  PROVE  Received(v, w, role, text, tools, finish)
<1> DEFINE n == v.roles + (IF role THEN 1 ELSE 0)
           x == v.text \o text
           f == IF finish = "" THEN v.finish ELSE finish
<1>1. /\ v.roles \in Nat /\ v.text \in Seq(Nat) /\ v.finish \in Reasons
  BY DEF Views
<1>2. n \in Nat
  BY <1>1
<1>3. x \in Seq(Nat)
  BY <1>1, ConcatProperties
<1>4. f \in Reasons
  BY <1>1
<1>5. w = [v EXCEPT !.roles = n, !.text = x, !.tools = tools, !.finish = f]
  BY DEF Assemble, Chunk
<1> HIDE DEF n, x, f
<1>6. w \in Views /\ w.roles = n /\ w.text = x /\ w.tools = tools /\ w.finish = f /\ w.lost = v.lost
  BY <1>2, <1>3, <1>4, <1>5 DEF Views
<1> QED
  BY <1>6 DEF Received, n, x, f

(* A client that lost a chunk holds what it held. *)
LEMMA LostFields ==
  ASSUME NEW v \in Views, NEW w, w = [v EXCEPT !.lost = TRUE]
  PROVE  w \in Views /\ w.roles = v.roles /\ w.lost
  BY DEF Views

(* Trailers change nothing else of the view. *)
LEMMA TrailersFields ==
  ASSUME NEW v \in Views, NEW trailers \in Seq(Closings), NEW w, w = [v EXCEPT !.trailers = trailers]
  PROVE  /\ w \in Views /\ w.roles = v.roles /\ w.text = v.text /\ w.tools = v.tools
         /\ w.finish = v.finish /\ w.lost = v.lost
  BY DEF Views

-------------------------------------------------------------------------------
(* The events of an Anthropic answer, and their order. *)

(* What MessagesAssumption says of a message. *)
LEMMA AnthropicWellformed ==
  ASSUME NEW p \in {"anthropic", "google"}, NEW m \in Messages(p)
  PROVE  /\ Wellformed(m) /\ m.stop # "" /\ m.usage \in UsageBlocks(p)
         /\ p = "anthropic" /\ m.usage.cacheCreation # NoDetails
              => m.usage.cacheCreation \in [ephemeral5m : Nat, ephemeral1h : Nat]
         /\ p = "google" => m.usage.candidatesTokenCount \in Nat
  BY MessagesAssumption DEF Wellformed

(* The fragments of a block are a sequence of numbers. *)
LEMMA BlockTypes ==
  ASSUME NEW m, Wellformed(m)
  PROVE  /\ Len(m.blocks) \in Nat
         /\ \A i \in 1 .. Len(m.blocks) : m.blocks[i].frags \in Seq(Nat)
<1> DEFINE B == [kind : STRING, frags : Seq(Nat)]
           bs == m.blocks
<1>1. bs \in Seq(B)
  BY DEF Wellformed
<1>2. \A x \in B : x.frags \in Seq(Nat)
  OBVIOUS
<1> HIDE DEF B, bs
<1>3. Len(bs) \in Nat /\ \A i \in 1 .. Len(bs) : bs[i] \in B
  BY <1>1
<1> QED
  BY <1>2, <1>3 DEF bs

(* The events of one block. *)
OwnEvents(m, i) ==
    {StartOf(m, i)} \cup DeltasOf(m, i) \cup {PlainEvent("content_block_stop")}

(* The fields of the events of a block. *)
LEMMA EventFields ==
  /\ \A m, i : /\ StartOf(m, i).type = "content_block_start" /\ StartOf(m, i).index = i
               /\ StartOf(m, i).kind = m.blocks[i].kind /\ StartOf(m, i).name = i
  /\ \A m, i, j : /\ DeltaOf(m, i, j).type = "content_block_delta" /\ DeltaOf(m, i, j).index = i
                  /\ DeltaOf(m, i, j).kind = m.blocks[i].kind
                  /\ DeltaOf(m, i, j).frag = m.blocks[i].frags[j]
  /\ \A x : PlainEvent(x).type = x
  BY DEF StartOf, DeltaOf, PlainEvent

Ordered(s) == \A n, q \in 1 .. Len(s) : n < q => Follows(s[n], s[q])
Precede(S, T) == \A d \in S, e \in T : Follows(d, e)

(* Two ordered sequences, the first before the second, are ordered. *)
LEMMA OrderedConcat ==
  ASSUME NEW S, NEW T, NEW s \in Seq(S), NEW t \in Seq(T), Ordered(s), Ordered(t),
         Precede(S, T)
  PROVE  s \o t \in Seq(S \cup T) /\ Ordered(s \o t)
<1> DEFINE u == s \o t
<1>1. u \in Seq(S \cup T) /\ Len(u) = Len(s) + Len(t)
      /\ (\A i \in 1 .. Len(s) : u[i] = s[i])
      /\ (\A i \in Len(s) + 1 .. Len(u) : u[i] = t[i - Len(s)])
  OBVIOUS
<1>2. Len(s) \in Nat /\ Len(t) \in Nat /\ (\A i \in 1 .. Len(s) : s[i] \in S)
      /\ (\A i \in 1 .. Len(t) : t[i] \in T)
  OBVIOUS
<1> HIDE DEF u
<1>3. ASSUME NEW n \in 1 .. Len(u), NEW q \in 1 .. Len(u), n < q PROVE Follows(u[n], u[q])
  <2>1. CASE q =< Len(s)
    <3>1. n \in 1 .. Len(s) /\ q \in 1 .. Len(s) /\ u[n] = s[n] /\ u[q] = s[q]
      BY <1>1, <1>2, <1>3, <2>1
    <3> QED
      BY <1>3, <3>1 DEF Ordered
  <2>2. CASE n > Len(s)
    <3> DEFINE a == n - Len(s)
               b == q - Len(s)
    <3>1. a \in 1 .. Len(t) /\ b \in 1 .. Len(t) /\ a < b /\ u[n] = t[a] /\ u[q] = t[b]
      BY <1>1, <1>2, <1>3, <2>2
    <3> HIDE DEF a, b
    <3> QED
      BY <3>1 DEF Ordered
  <2>3. CASE n =< Len(s) /\ q > Len(s)
    <3> DEFINE b == q - Len(s)
    <3>1. n \in 1 .. Len(s) /\ b \in 1 .. Len(t) /\ u[n] = s[n] /\ u[q] = t[b]
      BY <1>1, <1>2, <1>3, <2>3
    <3> HIDE DEF b
    <3> QED
      BY <1>2, <3>1 DEF Precede
  <2> QED
    BY <1>1, <1>2, <2>1, <2>2, <2>3
<1>4. Ordered(u)
  BY <1>3 DEF Ordered
<1> QED
  BY <1>1, <1>4 DEF u

(* The events of a block: its start, its deltas, its stop. *)
LEMMA BlockShape ==
  ASSUME NEW m, Wellformed(m), NEW i \in 1 .. Len(m.blocks),
         NEW be, be = BlockEvents(m.blocks[i], i), NEW L \in Nat, L = Len(m.blocks[i].frags)
  PROVE  /\ be \in Seq(OwnEvents(m, i)) /\ Len(be) = L + 2
         /\ be[1] = StartOf(m, i) /\ be[L + 2] = PlainEvent("content_block_stop")
         /\ \A j \in 1 .. L : be[j + 1] = DeltaOf(m, i, j)
<1> DEFINE D == [j \in 1 .. L |-> DeltaOf(m, i, j)]
           O == OwnEvents(m, i)
           a == StartOf(m, i)
           z == PlainEvent("content_block_stop")
<1>1. a \in O /\ z \in O /\ \A j \in 1 .. L : DeltaOf(m, i, j) \in O
  BY DEF OwnEvents, DeltasOf
<1>2. be = <<a>> \o D \o <<z>>
  BY DEF BlockEvents, StartOf, DeltaOf
<1> HIDE DEF O, a, z
<1>3. D \in Seq(O) /\ Len(D) = L /\ \A j \in 1 .. L : D[j] = DeltaOf(m, i, j)
  BY <1>1
<1> HIDE DEF D
<1>4. be \in Seq(O) /\ Len(be) = L + 2 /\ be[1] = a /\ be[L + 2] = z
      /\ \A j \in 1 .. L : be[j + 1] = D[j]
  <2> DEFINE c == <<a>> \o D
  <2>1. c \in Seq(O) /\ Len(c) = L + 1 /\ c[1] = a /\ \A j \in 1 .. L : c[j + 1] = D[j]
    BY ONLY <1>1, <1>3, L \in Nat
  <2>2. be = c \o <<z>>
    BY <1>2
  <2> HIDE DEF c
  <2>3. be \in Seq(O) /\ Len(be) = L + 2 /\ be[L + 2] = z
        /\ \A j \in 1 .. L + 1 : be[j] = c[j]
    BY ONLY <1>1, <2>1, <2>2, L \in Nat
  <2>4. be[1] = a
    BY ONLY <2>1, <2>3, L \in Nat
  <2>5. \A j \in 1 .. L : be[j + 1] = D[j]
    BY ONLY <2>1, <2>3, L \in Nat
  <2> QED
    BY <2>3, <2>4, <2>5
<1> QED
  BY <1>3, <1>4 DEF O, a, z

(* The events of a block are in order. *)
LEMMA BlockOrdered ==
  ASSUME NEW m, Wellformed(m), NEW i \in 1 .. Len(m.blocks)
  PROVE  Ordered(BlockEvents(m.blocks[i], i))
<1> DEFINE be == BlockEvents(m.blocks[i], i)
           fr == m.blocks[i].frags
           L == Len(m.blocks[i].frags)
<1>1. fr \in Seq(Nat) /\ L \in Nat /\ \A j, k \in 1 .. L : j < k => fr[j] < fr[k]
  BY BlockTypes DEF Wellformed
<1>2. /\ Len(be) = L + 2
      /\ be[1] = StartOf(m, i) /\ be[L + 2] = PlainEvent("content_block_stop")
      /\ \A j \in 1 .. L : be[j + 1] = DeltaOf(m, i, j)
  BY <1>1, BlockShape
<1> HIDE DEF be, L
<1> SUFFICES ASSUME NEW n \in 1 .. L + 2, NEW q \in 1 .. L + 2, n < q
             PROVE  Follows(be[n], be[q])
  BY <1>2 DEF Ordered, be
<1>3. CASE q = L + 2
  BY <1>2, <1>3, EventFields DEF Follows
<1>4. CASE q # L + 2
  <2>1. q - 1 \in 1 .. L /\ be[(q - 1) + 1] = DeltaOf(m, i, q - 1) /\ (q - 1) + 1 = q
    BY <1>1, <1>2, <1>4
  <2>2. CASE n = 1
    BY <1>2, <2>1, <2>2, EventFields DEF Follows
  <2>3. CASE n # 1
    <3>1. n - 1 \in 1 .. L /\ be[(n - 1) + 1] = DeltaOf(m, i, n - 1) /\ (n - 1) + 1 = n
          /\ n - 1 < q - 1
      BY <1>1, <1>2, <1>4, <2>3
    <3>2. fr[n - 1] < fr[q - 1]
      BY <1>1, <2>1, <3>1
    <3> QED
      BY <2>1, <3>1, <3>2, EventFields DEF Follows
  <2> QED
    BY <2>2, <2>3
<1> QED
  BY <1>3, <1>4

(* What the events of the first b blocks are. *)
LEMMA BlockEventSetIs ==
  ASSUME NEW m, NEW b, NEW d
  PROVE  d \in BlockEventSet(m, b)
           <=> \/ \E i \in 1 .. b : d = StartOf(m, i)
               \/ \E i \in 1 .. b : d \in DeltasOf(m, i)
               \/ d = PlainEvent("content_block_stop")
<1>1. d \in UNION {DeltasOf(m, i) : i \in 1 .. b} <=> \E i \in 1 .. b : d \in DeltasOf(m, i)
  BY Zenon
<1>2. d \in {StartOf(m, i) : i \in 1 .. b} <=> \E i \in 1 .. b : d = StartOf(m, i)
  BY Zenon
<1> QED
  BY <1>1, <1>2, Zenon DEF BlockEventSet

(* A delta carries a fragment of its block. *)
LEMMA DeltaFields ==
  ASSUME NEW m, NEW i, NEW d \in DeltasOf(m, i)
  PROVE  /\ d.type = "content_block_delta" /\ d.index = i /\ d.kind = m.blocks[i].kind
         /\ \E j \in 1 .. Len(m.blocks[i].frags) : d.frag = m.blocks[i].frags[j]
  BY EventFields DEF DeltasOf

(* The events of the blocks before precede those of the next. *)
LEMMA BlocksPrecede ==
  ASSUME NEW m, NEW b \in Nat
  PROVE  /\ Precede(BlockEventSet(m, b), OwnEvents(m, b + 1))
         /\ BlockEventSet(m, b) \cup OwnEvents(m, b + 1) \subseteq BlockEventSet(m, b + 1)
<1>1. ASSUME NEW d \in BlockEventSet(m, b), NEW e \in OwnEvents(m, b + 1) PROVE Follows(d, e)
  <2>1. \/ \E i \in 1 .. b : d = StartOf(m, i)
        \/ \E i \in 1 .. b : d \in DeltasOf(m, i)
        \/ d = PlainEvent("content_block_stop")
    BY BlockEventSetIs
  <2>2. \/ e = StartOf(m, b + 1)
        \/ e \in DeltasOf(m, b + 1)
        \/ e = PlainEvent("content_block_stop")
    BY DEF OwnEvents
  <2>3. d.type \in {"content_block_start", "content_block_delta"} => d.index \in 1 .. b
    BY <2>1, EventFields, DeltaFields
  <2>5. e.type \in {"content_block_start", "content_block_delta"} => e.index = b + 1
    BY <2>2, EventFields, DeltaFields
  <2>4. \A x \in 1 .. b : x # b + 1
    OBVIOUS
  <2> QED
    BY <2>3, <2>4, <2>5 DEF Follows
<1>2. BlockEventSet(m, b) \cup OwnEvents(m, b + 1) \subseteq BlockEventSet(m, b + 1)
  <2>1. (\A i \in 1 .. b : i \in 1 .. b + 1) /\ b + 1 \in 1 .. b + 1
    OBVIOUS
  <2>2. ASSUME NEW d \in BlockEventSet(m, b) PROVE d \in BlockEventSet(m, b + 1)
    <3>1. \/ \E i \in 1 .. b : d = StartOf(m, i)
          \/ \E i \in 1 .. b : d \in DeltasOf(m, i)
          \/ d = PlainEvent("content_block_stop")
      BY BlockEventSetIs
    <3> QED
      BY <2>1, <3>1, BlockEventSetIs
  <2>3. ASSUME NEW d \in OwnEvents(m, b + 1) PROVE d \in BlockEventSet(m, b + 1)
    <3>1. \/ d = StartOf(m, b + 1) \/ d \in DeltasOf(m, b + 1)
          \/ d = PlainEvent("content_block_stop")
      BY DEF OwnEvents
    <3> QED
      BY <2>1, <3>1, BlockEventSetIs
  <2> QED
    BY <2>2, <2>3
<1> QED
  BY <1>1, <1>2 DEF Precede

Blocks(m, b) == [i \in 1 .. b |-> BlockEvents(m.blocks[i], i)]
BlocksOK(m, b) ==
    /\ Blocks(m, b) \in Seq(Seq(BlockEventSet(m, b)))
    /\ FlattenSeq(Blocks(m, b)) \in Seq(BlockEventSet(m, b))
    /\ Ordered(FlattenSeq(Blocks(m, b)))

(* A sequence over S is one over a larger set. *)
LEMMA SeqMono ==
  ASSUME NEW S, NEW T, S \subseteq T, NEW s \in Seq(S)
  PROVE  s \in Seq(T)
  OBVIOUS

(* The same of sequences of sequences. *)
LEMMA SeqSeqMono ==
  ASSUME NEW S, NEW T, S \subseteq T, NEW s \in Seq(Seq(S))
  PROVE  s \in Seq(Seq(T))
<1>1. Seq(S) \subseteq Seq(T)
  OBVIOUS
<1> DEFINE A == Seq(S)
           B == Seq(T)
<1> HIDE DEF A, B
<1>2. A \subseteq B /\ s \in Seq(A)
  BY <1>1 DEF A, B
<1>3. s \in Seq(B)
  BY <1>2, SeqMono
<1> QED
  BY <1>3 DEF B

(* The events of no block are in order. *)
LEMMA BlocksNone ==
  ASSUME NEW m
  PROVE  BlocksOK(m, 0)
<1>1. Blocks(m, 0) = <<>>
  BY DEF Blocks
<1>2. FlattenSeq(<<>>) = <<>>
  BY FlattenEmpty
<1>3. Ordered(<<>>)
  BY DEF Ordered
<1>4. \A S : <<>> \in Seq(S)
  OBVIOUS
<1>5. /\ <<>> \in Seq(Seq(BlockEventSet(m, 0))) /\ FlattenSeq(<<>>) \in Seq(BlockEventSet(m, 0))
      /\ Ordered(FlattenSeq(<<>>))
  BY <1>2, <1>3, <1>4, Zenon
<1> QED
  BY <1>1, <1>5, Zenon DEF BlocksOK

(* The events of one block more are in order. *)
LEMMA BlocksGrow ==
  ASSUME NEW m, Wellformed(m), NEW b \in Nat, b + 1 =< Len(m.blocks), BlocksOK(m, b)
  PROVE  BlocksOK(m, b + 1)
<1> DEFINE be == BlockEvents(m.blocks[b + 1], b + 1)
           ss == Blocks(m, b)
           S == BlockEventSet(m, b)
           T == OwnEvents(m, b + 1)
           U == BlockEventSet(m, b + 1)
<1>1. Len(m.blocks) \in Nat /\ b + 1 \in 1 .. Len(m.blocks) /\ m.blocks[b + 1].frags \in Seq(Nat)
  BY BlockTypes
<1>2. Len(m.blocks[b + 1].frags) \in Nat
  BY <1>1
<1>3. be \in Seq(T)
  BY <1>1, <1>2, BlockShape
<1>4. Ordered(be)
  BY <1>1, BlockOrdered
<1>5. Precede(S, T) /\ S \cup T \subseteq U
  BY BlocksPrecede
<1>6. ss \in Seq(Seq(S)) /\ FlattenSeq(ss) \in Seq(S) /\ Ordered(FlattenSeq(ss))
  BY DEF BlocksOK
<1>7. Blocks(m, b + 1) = Append(ss, be)
  <2>1. ss = [i \in 1 .. b |-> BlockEvents(m.blocks[i], i)]
    BY DEF Blocks
  <2>2. Blocks(m, b + 1) = [i \in 1 .. b + 1 |-> BlockEvents(m.blocks[i], i)]
    BY DEF Blocks
  <2>3. Len(ss) = b
    BY <2>1
  <2> QED
    BY <2>1, <2>2, <2>3
<1> HIDE DEF be, ss, S, T, U
<1>8. S \subseteq U /\ T \subseteq U
  BY <1>5
<1>9. ss \in Seq(Seq(U))
  BY <1>6, <1>8, SeqSeqMono
<1>10. be \in Seq(U)
  BY <1>3, <1>8, SeqMono
<1>11. FlattenSeq(Append(ss, be)) = FlattenSeq(ss) \o be
  BY <1>9, <1>10, FlattenAppend
<1>12. FlattenSeq(ss) \o be \in Seq(S \cup T) /\ Ordered(FlattenSeq(ss) \o be)
  BY <1>3, <1>4, <1>5, <1>6, OrderedConcat
<1>13. FlattenSeq(ss) \o be \in Seq(U)
  BY <1>5, <1>12, SeqMono
<1>14. Append(ss, be) \in Seq(Seq(U))
  BY <1>9, <1>10
<1> QED
  BY <1>7, <1>11, <1>12, <1>13, <1>14 DEF BlocksOK, U

(* The events of all blocks are in order. *)
LEMMA BlocksAll ==
  ASSUME NEW m, Wellformed(m)
  PROVE  BlocksOK(m, Len(m.blocks))
<1> DEFINE B == Len(m.blocks)
           T == {b \in Nat : b =< B => BlocksOK(m, b)}
<1>1. 0 \in T
  BY BlocksNone
<1>2. B \in Nat
  BY BlockTypes
<1> HIDE DEF B
<1>3. ASSUME NEW b \in Nat, b \in T PROVE b + 1 \in T
  <2>1. b + 1 =< B => b =< B
    BY <1>2
  <2>2. b + 1 =< B => BlocksOK(m, b + 1)
    BY <1>3, <2>1, BlocksGrow DEF B
  <2> QED
    BY <2>2
<1>4. T = Nat
  <2>1. T \in SUBSET Nat /\ \A b \in T : b + 1 \in T
    BY <1>3
  <2> HIDE DEF T
  <2> QED
    BY <1>1, <2>1, Induct
<1>5. B \in T
  BY <1>2, <1>4
<1> QED
  BY <1>2, <1>5 DEF B

(* Where the events of an answer are: its frame, and its blocks between. *)
MessageStart(m) == [type |-> "message_start", usage |-> m.usage]
MessageDelta(m) == [type |-> "message_delta", usage |-> m.usage, stop |-> m.stop]
Opening(m) == <<MessageStart(m), PlainEvent("ping")>>
Closing(m) == <<MessageDelta(m), PlainEvent("message_stop")>>
Body(m)    == FlattenSeq(Blocks(m, Len(m.blocks)))

Positions(m, events, N) ==
    /\ events[1] = MessageStart(m) /\ events[2] = PlainEvent("ping")
    /\ events[N - 1] = MessageDelta(m) /\ events[N] = PlainEvent("message_stop")
    /\ \A n \in 3 .. N - 2 : events[n] \in BlockEventSet(m, Len(m.blocks))

(* An Anthropic answer in three parts. *)
LEMMA EventsParts ==
  ASSUME NEW m
  PROVE  AnthropicEvents(m) = Opening(m) \o Body(m) \o Closing(m)
  BY DEF AnthropicEvents, Opening, Body, Closing, Blocks, MessageStart, MessageDelta

(* The positions in a sequence of these three parts. *)
LEMMA ThreeParts ==
  ASSUME NEW S, NEW a \in S, NEW b \in S, NEW f \in Seq(S), NEW c \in S, NEW d \in S, NEW e,
         e = <<a, b>> \o f \o <<c, d>>
  PROVE  /\ e \in Seq(S) /\ Len(e) = Len(f) + 4 /\ e[1] = a /\ e[2] = b
         /\ e[Len(f) + 3] = c /\ e[Len(f) + 4] = d
         /\ \A n \in 3 .. Len(f) + 2 : e[n] = f[n - 2]
  OBVIOUS

(* Where the events of an Anthropic answer are. *)
LEMMA EventsPositions ==
  ASSUME NEW m, Wellformed(m)
  PROVE  /\ AnthropicEvents(m) \in Seq(AnthropicEventSet(m))
         /\ Len(AnthropicEvents(m)) \in Nat /\ Len(AnthropicEvents(m)) >= 4
         /\ Positions(m, AnthropicEvents(m), Len(AnthropicEvents(m)))
<1> DEFINE S == AnthropicEventSet(m)
           U == BlockEventSet(m, Len(m.blocks))
           f == Body(m)
           a == MessageStart(m)
           b == PlainEvent("ping")
           c == MessageDelta(m)
           d == PlainEvent("message_stop")
           e == AnthropicEvents(m)
<1>1. f \in Seq(U)
  BY BlocksAll DEF BlocksOK, Body
<1>2. U \subseteq S /\ a \in S /\ b \in S /\ c \in S /\ d \in S
  BY DEF AnthropicEventSet, MessageStart, MessageDelta
<1>3. e = <<a, b>> \o f \o <<c, d>>
  BY EventsParts DEF Opening, Closing
<1> HIDE DEF S, U, f, a, b, c, d, e
<1>4. f \in Seq(S) /\ Len(f) \in Nat
  BY <1>1, <1>2, SeqMono
<1>5. /\ e \in Seq(S) /\ Len(e) = Len(f) + 4 /\ e[1] = a /\ e[2] = b
      /\ e[Len(f) + 3] = c /\ e[Len(f) + 4] = d
      /\ \A n \in 3 .. Len(f) + 2 : e[n] = f[n - 2]
  BY <1>2, <1>3, <1>4, ThreeParts
<1>6. Len(e) \in Nat /\ Len(e) >= 4 /\ Len(e) - 1 = Len(f) + 3 /\ Len(e) - 2 = Len(f) + 2
  BY <1>4, <1>5
<1>7. \A n \in 3 .. Len(e) - 2 : e[n] \in U
  <2>1. \A n \in 3 .. Len(f) + 2 : n - 2 \in 1 .. Len(f)
    BY <1>4
  <2>2. \A n \in 1 .. Len(f) : f[n] \in U
    BY <1>1
  <2> QED
    BY <1>5, <1>6, <2>1, <2>2
<1> QED
  BY <1>5, <1>6, <1>7 DEF Positions, S, U, f, a, b, c, d, e

(* The frame of an answer is told from its blocks by type. *)
LEMMA FrameFields ==
  ASSUME NEW m
  PROVE  /\ MessageStart(m).type = "message_start" /\ MessageStart(m).usage = m.usage
         /\ MessageDelta(m).type = "message_delta" /\ MessageDelta(m).usage = m.usage
         /\ MessageDelta(m).stop = m.stop
         /\ PlainEvent("ping").type = "ping"
         /\ PlainEvent("message_stop").type = "message_stop"
         /\ PlainEvent("content_block_stop").type = "content_block_stop"
  BY DEF MessageStart, MessageDelta, PlainEvent

(* The types of the events of blocks. *)
LEMMA BlockEventTypes ==
  ASSUME NEW m, NEW b, NEW e \in BlockEventSet(m, b)
  PROVE  e.type \in {"content_block_start", "content_block_delta", "content_block_stop"}
<1>1. \/ \E i \in 1 .. b : e = StartOf(m, i)
      \/ \E i \in 1 .. b : e \in DeltasOf(m, i)
      \/ e = PlainEvent("content_block_stop")
  BY BlockEventSetIs
<1> QED
  BY <1>1, EventFields, DeltaFields

(* The place of an event by its type. *)
Placed(events, N) ==
    \A n \in 1 .. N :
        /\ events[n].type = "message_start" <=> n = 1
        /\ events[n].type = "message_delta" <=> n = N - 1
        /\ events[n].type = "message_stop" <=> n = N

(* The type of an event tells whether it is the first, the last but one or  *)
(* the last.                                                                *)
LEMMA EventsPlaced ==
  ASSUME NEW m, NEW events, NEW N \in Nat, N >= 4, Positions(m, events, N)
  PROVE  Placed(events, N)
<1> SUFFICES ASSUME NEW n \in 1 .. N
             PROVE  /\ events[n].type = "message_start" <=> n = 1
                    /\ events[n].type = "message_delta" <=> n = N - 1
                    /\ events[n].type = "message_stop" <=> n = N
  BY DEF Placed
<1>1. /\ events[1].type = "message_start" /\ events[2].type = "ping"
      /\ events[N - 1].type = "message_delta" /\ events[N].type = "message_stop"
  BY FrameFields DEF Positions
<1>2. \A q \in 3 .. N - 2 :
         events[q].type \in {"content_block_start", "content_block_delta", "content_block_stop"}
  BY BlockEventTypes DEF Positions
<1>3. n = 1 \/ n = 2 \/ n \in 3 .. N - 2 \/ n = N - 1 \/ n = N
  OBVIOUS
<1>4. CASE n = 1
  BY <1>1, <1>4
<1>5. CASE n = 2
  BY <1>1, <1>5
<1>6. CASE n \in 3 .. N - 2
  BY <1>2, <1>6
<1>7. CASE n = N - 1
  BY <1>1, <1>7
<1>8. CASE n = N
  BY <1>1, <1>8
<1> QED
  BY <1>3, <1>4, <1>5, <1>6, <1>7, <1>8

(* All the events of an Anthropic answer are in order. *)
LEMMA EventsOrdered ==
  ASSUME NEW m, Wellformed(m)
  PROVE  Ordered(AnthropicEvents(m))
<1> DEFINE U == BlockEventSet(m, Len(m.blocks))
           f == Body(m)
           A == {MessageStart(m), PlainEvent("ping")}
           C == {MessageDelta(m), PlainEvent("message_stop")}
<1>1. f \in Seq(U) /\ Ordered(f)
  BY BlocksAll DEF BlocksOK, Body
<1>2. \A x \in A : x.type # "content_block_start" /\ x.type # "content_block_delta"
  BY FrameFields
<1>3. \A x \in C : x.type # "content_block_start" /\ x.type # "content_block_delta"
  BY FrameFields
<1>4. Opening(m) \in Seq(A) /\ Closing(m) \in Seq(C)
  BY DEF Opening, Closing
<1> HIDE DEF A, C, U, f
<1>5. ASSUME NEW S, NEW s \in Seq(S),
             \A x \in S : x.type # "content_block_start" /\ x.type # "content_block_delta"
      PROVE  Ordered(s)
  <2>1. \A n \in 1 .. Len(s) : s[n] \in S
    OBVIOUS
  <2> QED
    BY <1>5, <2>1 DEF Ordered, Follows
<1>6. Ordered(Opening(m)) /\ Ordered(Closing(m))
  BY <1>2, <1>3, <1>4, <1>5
<1>7. Precede(A, U) /\ Precede(A \cup U, C)
  BY <1>2, <1>3 DEF Precede, Follows
<1>8. Opening(m) \o f \in Seq(A \cup U) /\ Ordered(Opening(m) \o f)
  BY <1>1, <1>4, <1>6, <1>7, OrderedConcat
<1>9. Ordered((Opening(m) \o f) \o Closing(m))
  BY <1>4, <1>6, <1>7, <1>8, OrderedConcat
<1> QED
  BY <1>9, EventsParts DEF f

-------------------------------------------------------------------------------
(* stream_anthropic.go: what each event does to the translator. *)

(* The translator after each event that changes it, and the chunk it sends. *)
Started(t, u, usage) ==
    u = [t EXCEPT !.counts = [AnthropicStreamCounts(usage)
                                EXCEPT !["output"] = t.counts["output"]]]
Announced(t, u, x) ==
    u = [t EXCEPT !.toolIndex = Append(@, <<x, t.nextTool>>), !.nextTool = @ + 1]
Concluded(t, u, usage) ==
    u = [t EXCEPT !.counts["output"] = AtLeastZero(usage.outputTokens), !.sawUsage = TRUE]
OneChunk(chunks, role, text, tool, finish) == chunks = <<Chunk(role, text, tool, finish)>>
NewCall(n, name) == [index |-> n, name |-> name, args |-> <<>>]

(* message_start: the counts but the output, and the role. *)
LEMMA TranslateStart ==
  ASSUME NEW t, NEW e, NEW r, r = AnthropicTranslate(t, e), e.type = "message_start"
  PROVE  Started(t, r.t, e.usage) /\ OneChunk(r.chunks, TRUE, <<>>, NoTool, "")
  BY DEF AnthropicTranslate, Started, OneChunk

(* The start of a tool_use block: a new index, announced with its name. *)
LEMMA TranslateTool ==
  ASSUME NEW t, NEW e, NEW r, r = AnthropicTranslate(t, e),
         e.type = "content_block_start", e.kind = "tool_use"
  PROVE  /\ Announced(t, r.t, e.index)
         /\ OneChunk(r.chunks, FALSE, <<>>, NewCall(t.nextTool, e.name), "")
  BY DEF AnthropicTranslate, Announced, OneChunk, NewCall

(* A delta of text: its fragment. *)
LEMMA TranslateText ==
  ASSUME NEW t, NEW e, NEW r, r = AnthropicTranslate(t, e),
         e.type = "content_block_delta", e.kind = "text"
  PROVE  r.t = t /\ OneChunk(r.chunks, FALSE, <<e.frag>>, NoTool, "")
  BY DEF AnthropicTranslate, OneChunk

(* A delta of arguments: a fragment of the call, if it is known. *)
LEMMA TranslateToolDelta ==
  ASSUME NEW t, NEW e, NEW r, r = AnthropicTranslate(t, e),
         e.type = "content_block_delta", e.kind = "tool_use"
  PROVE  r.t = t /\ r.chunks = ToolDelta(t, e)
  BY DEF AnthropicTranslate

(* message_delta: the output count, and the reason. *)
LEMMA TranslateReason ==
  ASSUME NEW t, NEW e, NEW r, r = AnthropicTranslate(t, e), e.type = "message_delta"
  PROVE  /\ Concluded(t, r.t, e.usage)
         /\ OneChunk(r.chunks, FALSE, <<>>, NoTool, anthropicFinishReason(e.stop))
  BY DEF AnthropicTranslate, Concluded, OneChunk

(* message_stop: the end, without a chunk. *)
LEMMA TranslateStop ==
  ASSUME NEW t, NEW e, NEW r, r = AnthropicTranslate(t, e), e.type = "message_stop"
  PROVE  r.t = [t EXCEPT !.done = TRUE] /\ r.chunks = <<>>
  BY DEF AnthropicTranslate

(* Any other event changes nothing and says nothing. *)
LEMMA TranslateOther ==
  ASSUME NEW t, NEW e, NEW r, r = AnthropicTranslate(t, e),
         e.type \notin {"message_start", "message_delta", "message_stop"},
         ~ (e.type = "content_block_start" /\ e.kind = "tool_use"),
         ~ (e.type = "content_block_delta" /\ e.kind \in {"text", "tool_use"})
  PROVE  r.t = t /\ r.chunks = <<>>
  BY DEF AnthropicTranslate

(* What is known of an event by its type. *)
LEMMA EventKinds ==
  ASSUME NEW m, Wellformed(m), NEW e \in AnthropicEventSet(m)
  PROVE  /\ e.type = "message_start" => e.usage = m.usage
         /\ e.type = "message_delta" => e.usage = m.usage /\ e.stop = m.stop
         /\ e.type = "content_block_start"
              => e.index \in 1 .. Len(m.blocks) /\ e.kind = m.blocks[e.index].kind
                 /\ e.name = e.index
         /\ e.type = "content_block_delta"
              => e.index \in 1 .. Len(m.blocks) /\ e.kind = m.blocks[e.index].kind
                 /\ e.frag \in Nat
                 /\ \E l \in 1 .. Len(m.blocks[e.index].frags) :
                       m.blocks[e.index].frags[l] = e.frag
<1>1. \/ e \in BlockEventSet(m, Len(m.blocks)) \/ e = MessageStart(m) \/ e = PlainEvent("ping")
      \/ e = MessageDelta(m) \/ e = PlainEvent("message_stop")
  BY DEF AnthropicEventSet, MessageStart, MessageDelta
<1>2. CASE e = MessageStart(m) \/ e = PlainEvent("ping") \/ e = MessageDelta(m)
             \/ e = PlainEvent("message_stop")
  BY <1>2, FrameFields
<1>3. CASE \E i \in 1 .. Len(m.blocks) : e = StartOf(m, i)
  BY <1>3, EventFields
<1>4. CASE \E i \in 1 .. Len(m.blocks) : e \in DeltasOf(m, i)
  <2>1. PICK i \in 1 .. Len(m.blocks) : e \in DeltasOf(m, i)
    BY <1>4
  <2>2. /\ e.type = "content_block_delta" /\ e.index = i /\ e.kind = m.blocks[i].kind
        /\ \E j \in 1 .. Len(m.blocks[i].frags) : e.frag = m.blocks[i].frags[j]
    BY <2>1, DeltaFields
  <2>3. m.blocks[i].frags \in Seq(Nat)
    BY BlockTypes
  <2>4. \A j \in 1 .. Len(m.blocks[i].frags) : m.blocks[i].frags[j] \in Nat
    BY <2>3
  <2> QED
    BY <2>2, <2>4
<1>5. CASE e = PlainEvent("content_block_stop")
  BY <1>5, FrameFields
<1> QED
  BY <1>1, <1>2, <1>3, <1>4, <1>5, BlockEventSetIs

-------------------------------------------------------------------------------
(* The tool calls of an Anthropic stream. *)

(* Arguments that precede what is to come still do an event later. *)
LEMMA OwnArgsKept ==
  ASSUME NEW m, NEW k \in Nat, NEW args, NEW b, OwnArgs(m, k, args, b),
         Len(AnthropicEvents(m)) \in Nat
  PROVE  OwnArgs(m, k + 1, args, b)
<1> DEFINE events == AnthropicEvents(m)
<1>1. \A n \in (k + 1) + 1 .. Len(events) : n \in k + 1 .. Len(events)
  OBVIOUS
<1> HIDE DEF events
<1> QED
  BY <1>1 DEF OwnArgs, events

(* No argument precedes everything. *)
LEMMA OwnArgsNone ==
  ASSUME NEW m, NEW k, NEW b
  PROVE  OwnArgs(m, k, <<>>, b)
  BY DEF OwnArgs

(* A fragment more still precedes what is to come, as the events are in     *)
(* order.                                                                   *)
LEMMA OwnArgsGrow ==
  ASSUME NEW m, Wellformed(m), NEW k \in Nat, NEW args \in Seq(Nat), NEW b, OwnArgs(m, k, args, b),
         k + 1 \in 1 .. Len(AnthropicEvents(m)), NEW e, e = AnthropicEvents(m)[k + 1],
         e.type = "content_block_delta", e.index = b, e.frag \in Nat,
         \E l \in 1 .. Len(m.blocks[b].frags) : m.blocks[b].frags[l] = e.frag
  PROVE  OwnArgs(m, k + 1, args \o <<e.frag>>, b)
<1> DEFINE events == AnthropicEvents(m)
           N == Len(events)
           new == args \o <<e.frag>>
           x == e.frag
           fr == m.blocks[b].frags
<1>1. N \in Nat /\ Ordered(events)
  BY EventsPositions, EventsOrdered
<1>2. /\ Len(new) = Len(args) + 1 /\ new[Len(args) + 1] = x /\ Len(args) \in Nat
      /\ \A j \in 1 .. Len(args) : new[j] = args[j]
  OBVIOUS
<1>3. \A j \in 1 .. Len(args) :
              /\ \E l \in 1 .. Len(fr) : fr[l] = args[j]
              /\ j > 1 => args[j - 1] < args[j]
              /\ \A n \in k + 1 .. N :
                    events[n].type = "content_block_delta" /\ events[n].index = b
                      => args[j] < events[n].frag
  BY DEF OwnArgs
<1>4. \A n \in (k + 1) + 1 .. N :
         events[n].type = "content_block_delta" /\ events[n].index = b => x < events[n].frag
  <2> SUFFICES ASSUME NEW n \in (k + 1) + 1 .. N,
                      events[n].type = "content_block_delta", events[n].index = b
               PROVE  x < events[n].frag
    OBVIOUS
  <2>1. n \in 1 .. N /\ k + 1 \in 1 .. N /\ k + 1 < n
    BY <1>1
  <2>2. Follows(events[k + 1], events[n])
    BY <1>1, <2>1 DEF Ordered
  <2> QED
    BY <2>2 DEF Follows
<1>5. e = events[k + 1] /\ e.type = "content_block_delta" /\ e.index = b
  OBVIOUS
<1>9. k + 1 \in k + 1 .. N /\ \A n \in (k + 1) + 1 .. N : n \in k + 1 .. N
  BY <1>1
<1>10. \E l \in 1 .. Len(fr) : fr[l] = x
  OBVIOUS
<1> HIDE DEF events, N, new, x, fr
<1>6. ASSUME NEW j \in 1 .. Len(args) + 1
      PROVE  /\ \E l \in 1 .. Len(fr) : fr[l] = new[j]
             /\ j > 1 => new[j - 1] < new[j]
             /\ \A n \in (k + 1) + 1 .. N :
                   events[n].type = "content_block_delta" /\ events[n].index = b
                     => new[j] < events[n].frag
  <2>1. CASE j =< Len(args)
    <3>1. j \in 1 .. Len(args) /\ new[j] = args[j]
      BY <1>2, <2>1
    <3>2. j > 1 => new[j - 1] = args[j - 1]
      <4>1. j > 1 => j - 1 \in 1 .. Len(args)
        BY <1>2, <2>1
      <4> QED
        BY <1>2, <4>1
    <3> QED
      BY <1>3, <1>9, <3>1, <3>2
  <2>2. CASE j = Len(args) + 1
    <3>1. new[j] = x
      BY <1>2, <2>2
    <3>2. j > 1 => new[j - 1] < new[j]
      <4> SUFFICES ASSUME j > 1 PROVE new[j - 1] < new[j]
        OBVIOUS
      <4>1. Len(args) \in 1 .. Len(args) /\ j - 1 = Len(args)
        BY <1>2, <2>2
      <4>2. new[j - 1] = args[Len(args)]
        BY <1>2, <4>1
      <4>3. args[Len(args)] < e.frag
        BY <1>3, <1>5, <1>9, <4>1
      <4> QED
        BY <3>1, <4>2, <4>3 DEF x
    <3> QED
      BY <1>4, <1>10, <3>1, <3>2
  <2> QED
    BY <1>2, <2>1, <2>2
<1> QED
  BY <1>2, <1>6 DEF OwnArgs, events, N, new, fr

(* The table of calls, after an event that leaves it alone. *)
LEMMA TableKept ==
  ASSUME NEW m, NEW k \in Nat, NEW t, NEW u, AnthropicTable(m, k, t),
         Len(AnthropicEvents(m)) \in Nat, u.toolIndex = t.toolIndex, u.nextTool = t.nextTool
  PROVE  AnthropicTable(m, k + 1, u)
<1> DEFINE events == AnthropicEvents(m)
<1>1. \A n \in (k + 1) + 1 .. Len(events) : n \in k + 1 .. Len(events)
  OBVIOUS
<1> HIDE DEF events
<1> QED
  BY <1>1 DEF AnthropicTable, events

(* The client's calls, after an event that leaves them alone. *)
LEMMA ToolsKept ==
  ASSUME NEW m, NEW k \in Nat, NEW t, NEW u, NEW v, NEW w, AnthropicTools(m, k, t, v),
         Len(AnthropicEvents(m)) \in Nat,
         u.toolIndex = t.toolIndex, u.nextTool = t.nextTool, w.tools = v.tools
  PROVE  AnthropicTools(m, k + 1, u, w)
<1>1. \A i \in 1 .. t.nextTool : OwnArgs(m, k + 1, v.tools[i].args, t.toolIndex[i][1])
  BY OwnArgsKept DEF AnthropicTools
<1> QED
  BY <1>1 DEF AnthropicTools

(* A call is announced. *)
LEMMA TableGrows ==
  ASSUME NEW m, Wellformed(m), NEW k \in Nat, NEW t \in AnthropicTranslators(m), NEW u,
         AnthropicTable(m, k, t),
         k + 1 \in 1 .. Len(AnthropicEvents(m)), NEW e, e = AnthropicEvents(m)[k + 1],
         e.type = "content_block_start", e.index \in 1 .. Len(m.blocks),
         m.blocks[e.index].kind = "tool_use",
         u.toolIndex = Append(t.toolIndex, <<e.index, t.nextTool>>), u.nextTool = t.nextTool + 1
  PROVE  AnthropicTable(m, k + 1, u)
<1> DEFINE events == AnthropicEvents(m)
           N == Len(events)
           old == t.toolIndex
           new == u.toolIndex
           n == t.nextTool
           x == e.index
<1>1. N \in Nat /\ Ordered(events)
  BY EventsPositions, EventsOrdered
<1>2. /\ n \in Nat /\ old \in Seq((1 .. Len(m.blocks)) \X Nat)
  BY DEF AnthropicTranslators
<1>3. /\ Len(old) = n
      /\ \A i \in 1 .. n :
              /\ old[i][2] = i - 1
              /\ m.blocks[old[i][1]].kind = "tool_use"
              /\ \A j \in 1 .. n : old[i][1] = old[j][1] => i = j
              /\ \A q \in k + 1 .. N :
                    events[q].type = "content_block_start" => events[q].index # old[i][1]
  BY DEF AnthropicTable
<1>4. /\ Len(new) = n + 1 /\ new[n + 1] = <<x, n>> /\ \A i \in 1 .. n : new[i] = old[i]
  BY <1>2, <1>3
<1>5. new[n + 1][1] = x /\ new[n + 1][2] = n
  BY <1>4
<1>6. \A q \in (k + 1) + 1 .. N : events[q].type = "content_block_start" => events[q].index # x
  <2> SUFFICES ASSUME NEW q \in (k + 1) + 1 .. N, events[q].type = "content_block_start"
               PROVE  events[q].index # x
    OBVIOUS
  <2>1. q \in 1 .. N /\ k + 1 \in 1 .. N /\ k + 1 < q
    BY <1>1
  <2>2. Follows(events[k + 1], events[q])
    BY <1>1, <2>1 DEF Ordered
  <2> QED
    BY <2>2 DEF Follows
<1>7. \A i \in 1 .. n : old[i][1] # x
  <2>1. k + 1 \in k + 1 .. N
    BY <1>1
  <2> QED
    BY <1>3, <2>1
<1>8. (\A q \in (k + 1) + 1 .. N : q \in k + 1 .. N) /\ m.blocks[x].kind = "tool_use"
      /\ u.nextTool = n + 1
  BY <1>1
<1> HIDE DEF events, N, old, new, n, x
<1>9. ASSUME NEW i \in 1 .. n + 1
      PROVE  /\ new[i][2] = i - 1
             /\ m.blocks[new[i][1]].kind = "tool_use"
             /\ \A j \in 1 .. n + 1 : new[i][1] = new[j][1] => i = j
             /\ \A q \in (k + 1) + 1 .. N :
                   events[q].type = "content_block_start" => events[q].index # new[i][1]
  <2>1. CASE i \in 1 .. n
    <3>1. new[i] = old[i]
      BY <1>4, <2>1
    <3>2. ASSUME NEW j \in 1 .. n + 1, new[i][1] = new[j][1] PROVE i = j
      <4>1. CASE j \in 1 .. n
        BY <1>3, <1>4, <2>1, <3>2, <4>1
      <4>2. CASE j = n + 1
        BY <1>4, <1>5, <1>7, <2>1, <3>2, <4>2
      <4> QED
        BY <1>2, <4>1, <4>2
    <3> QED
      BY <1>3, <1>8, <2>1, <3>1, <3>2
  <2>2. CASE i = n + 1
    <3>1. ASSUME NEW j \in 1 .. n + 1, new[i][1] = new[j][1] PROVE i = j
      <4>1. CASE j \in 1 .. n
        BY <1>4, <1>5, <1>7, <2>2, <3>1, <4>1
      <4> QED
        BY <1>2, <2>2, <4>1
    <3>2. new[i][2] = i - 1
      BY <1>2, <1>5, <2>2
    <3> QED
      BY <1>5, <1>6, <1>8, <2>2, <3>1, <3>2
  <2> QED
    BY <1>2, <2>1, <2>2
<1> QED
  BY <1>4, <1>8, <1>9 DEF AnthropicTable, events, N, new

(* The client's calls, after one more was announced. *)
LEMMA ToolsGrow ==
  ASSUME NEW m, NEW k \in Nat, NEW t \in AnthropicTranslators(m), NEW u, NEW v \in Views, NEW w,
         AnthropicTable(m, k, t), AnthropicTools(m, k, t, v), Len(AnthropicEvents(m)) \in Nat,
         NEW x \in 1 .. Len(m.blocks),
         u.toolIndex = Append(t.toolIndex, <<x, t.nextTool>>), u.nextTool = t.nextTool + 1,
         w.tools = Append(v.tools, [index |-> t.nextTool, name |-> x, args |-> <<>>])
  PROVE  AnthropicTools(m, k + 1, u, w)
<1> DEFINE old == t.toolIndex
           new == u.toolIndex
           n == t.nextTool
           tools == v.tools
           more == w.tools
           c == [index |-> t.nextTool, name |-> x, args |-> <<>>]
<1>1. n \in Nat /\ old \in Seq((1 .. Len(m.blocks)) \X Nat) /\ tools \in Seq(Calls)
  BY DEF AnthropicTranslators, Views
<1>2. /\ Len(old) = n
  BY DEF AnthropicTable
<1>3. /\ Len(tools) = n
      /\ \A i \in 1 .. n : /\ tools[i].index = i - 1 /\ tools[i].name = old[i][1]
                           /\ OwnArgs(m, k, tools[i].args, old[i][1])
  BY DEF AnthropicTools
<1>4. /\ Len(new) = n + 1 /\ new[n + 1] = <<x, n>> /\ \A i \in 1 .. n : new[i] = old[i]
  BY <1>1, <1>2
<1>5. c.index = n /\ c.name = x /\ c.args = <<>>
  OBVIOUS
<1>6. more = Append(tools, c) /\ u.nextTool = n + 1
  OBVIOUS
<1> HIDE DEF old, new, n, tools, more, c
<1>7. Len(more) = n + 1 /\ more[n + 1] = c /\ \A i \in 1 .. n : more[i] = tools[i]
  BY <1>1, <1>3, <1>6
<1>8. ASSUME NEW i \in 1 .. n + 1
      PROVE  /\ more[i].index = i - 1 /\ more[i].name = new[i][1]
             /\ OwnArgs(m, k + 1, more[i].args, new[i][1])
  <2>1. CASE i \in 1 .. n
    <3>1. OwnArgs(m, k + 1, tools[i].args, old[i][1])
      BY <1>3, <2>1, OwnArgsKept
    <3> QED
      BY <1>3, <1>4, <1>7, <2>1, <3>1
  <2>2. CASE i = n + 1
    <3>1. more[i] = c /\ new[i][1] = x
      BY <1>4, <1>7, <2>2
    <3>2. OwnArgs(m, k + 1, <<>>, x)
      BY OwnArgsNone
    <3>3. c.index = i - 1
      BY <1>1, <1>5, <2>2
    <3> QED
      BY <1>5, <3>1, <3>2, <3>3
  <2> QED
    BY <1>1, <2>1, <2>2
<1> QED
  BY <1>6, <1>7, <1>8 DEF AnthropicTools, new, more

(* A block has one index in the table, or none. *)
LEMMA IndexOfIs ==
  ASSUME NEW m, NEW k, NEW t \in AnthropicTranslators(m), AnthropicTable(m, k, t), NEW b
  PROVE  \/ IndexOf(t, b) = {} /\ \A i \in 1 .. t.nextTool : t.toolIndex[i][1] # b
         \/ \E i \in 1 .. t.nextTool : t.toolIndex[i][1] = b /\ IndexOf(t, b) = {i - 1}
<1> DEFINE tab == t.toolIndex
           n == t.nextTool
<1>1. n \in Nat /\ tab \in Seq((1 .. Len(m.blocks)) \X Nat) /\ Len(tab) = n
  BY DEF AnthropicTranslators, AnthropicTable
<1>2. DOMAIN tab = 1 .. n
  BY <1>1
<1>3. \A i \in 1 .. n : tab[i][2] = i - 1 /\ \A j \in 1 .. n : tab[i][1] = tab[j][1] => i = j
  BY DEF AnthropicTable
<1>4. IndexOf(t, b) = {tab[i][2] : i \in {j \in 1 .. n : tab[j][1] = b}}
  BY <1>2 DEF IndexOf
<1> HIDE DEF tab, n
<1>5. CASE \A i \in 1 .. n : tab[i][1] # b
  BY <1>4, <1>5 DEF tab, n
<1>6. CASE \E i \in 1 .. n : tab[i][1] = b
  <2>1. PICK i \in 1 .. n : tab[i][1] = b
    BY <1>6
  <2>2. {j \in 1 .. n : tab[j][1] = b} = {i}
    BY <1>3, <2>1
  <2>3. IndexOf(t, b) = {tab[i][2]}
    BY <1>4, <2>2
  <2>4. IndexOf(t, b) = {i - 1}
    BY <1>3, <2>3
  <2> QED
    BY <2>1, <2>4 DEF tab, n
<1> QED
  BY <1>5, <1>6

(* Arguments of a block that was not announced are dropped. *)
LEMMA ToolDeltaNone ==
  ASSUME NEW t, NEW e, IndexOf(t, e.index) = {}
  PROVE  ToolDelta(t, e) = <<>>
  BY DEF ToolDelta

(* Arguments of an announced block are a fragment with its index. *)
LEMMA ToolDeltaOne ==
  ASSUME NEW t, NEW e, NEW x, IndexOf(t, e.index) = {x}
  PROVE  ToolDelta(t, e) = <<Chunk(FALSE, <<>>, ToolFragment(x, <<e.frag>>), "")>>
<1>1. (CHOOSE i \in {x} : TRUE) = x
  OBVIOUS
<1>2. IndexOf(t, e.index) # {}
  OBVIOUS
<1>3. ToolDelta(t, e) =
        <<Chunk(FALSE, <<>>, ToolFragment(CHOOSE i \in IndexOf(t, e.index) : TRUE, <<e.frag>>), "")>>
  BY <1>2 DEF ToolDelta
<1> QED
  BY <1>1, <1>3

(* The fields of a fragment. *)
LEMMA FragmentIs ==
  ASSUME NEW x \in Nat, NEW f \in Nat, NEW c, c = ToolFragment(x, <<f>>)
  PROVE  /\ c \in Calls /\ c.index = x /\ c.args = <<f>> /\ <<f>> \in Seq(Nat)
  BY DEF ToolFragment, Calls

(* The client's calls, after a fragment of a call it holds. *)
LEMMA ToolsExtended ==
  ASSUME NEW m, Wellformed(m), NEW k \in Nat, NEW t \in AnthropicTranslators(m), NEW v \in Views, NEW w,
         AnthropicTable(m, k, t), AnthropicTools(m, k, t, v),
         k + 1 \in 1 .. Len(AnthropicEvents(m)), NEW e \in AnthropicEventSet(m),
         e = AnthropicEvents(m)[k + 1], e.type = "content_block_delta",
         NEW i \in 1 .. t.nextTool, t.toolIndex[i][1] = e.index,
         w.tools = AddTool(v.tools, ToolFragment(i - 1, <<e.frag>>))
  PROVE  AnthropicTools(m, k + 1, t, w) /\ Extended(v.tools, w.tools, i, <<e.frag>>)
<1>8. /\ e.frag \in Nat
      /\ \E l \in 1 .. Len(m.blocks[e.index].frags) : m.blocks[e.index].frags[l] = e.frag
  BY EventKinds
<1> DEFINE n == t.nextTool
           tools == v.tools
           more == w.tools
           c == ToolFragment(i - 1, <<e.frag>>)
           tab == t.toolIndex
           f == e.frag
<1>0. Len(AnthropicEvents(m)) \in Nat
  BY EventsPositions
<1>1. n \in Nat /\ tools \in Seq(Calls)
  BY DEF AnthropicTranslators, Views
<1>2. /\ Len(tools) = n
      /\ \A j \in 1 .. n : /\ tools[j].index = j - 1 /\ tools[j].name = tab[j][1]
                           /\ OwnArgs(m, k, tools[j].args, tab[j][1])
  BY DEF AnthropicTools
<1>3. i - 1 \in Nat /\ (i - 1) + 1 = i
  BY <1>1
<1>4. c.index = i - 1 /\ c.args = <<f>> /\ <<f>> \in Seq(Nat)
  BY <1>3, <1>8, FragmentIs
<1>5. more = AddTool(tools, c)
  OBVIOUS
<1> HIDE DEF n, tools, more, c, tab, f
<1>6. /\ more \in Seq(Calls) /\ Len(more) = n
      /\ Extends(tools[i], more[i], <<f>>)
      /\ \A j \in 1 .. n : j # i => more[j] = tools[j]
  <2>0. i \in 1 .. n
    BY DEF n
  <2>1. i \in Nat /\ 1 =< i /\ i =< Len(tools)
    BY <1>1, <1>2, <2>0
  <2>2. Extended(tools, more, i, <<f>>)
    BY <1>1, <1>4, <1>5, <2>1, AddToTool
  <2> QED
    BY <1>2, <2>2 DEF Extended
<1>7. ASSUME NEW j \in 1 .. n
      PROVE  /\ more[j].index = j - 1 /\ more[j].name = tab[j][1]
             /\ OwnArgs(m, k + 1, more[j].args, tab[j][1])
  <2>1. CASE j # i
    <3>1. OwnArgs(m, k + 1, tools[j].args, tab[j][1])
      BY <1>0, <1>2, OwnArgsKept
    <3> QED
      BY <1>2, <1>6, <2>1, <3>1
  <2>2. CASE j = i
    <3>5. i \in 1 .. n
      BY DEF n
    <3>6. i \in 1 .. Len(tools)
      BY <1>2, <3>5
    <3>0. i \in 1 .. n /\ tools[i] \in Calls
      BY <1>1, <3>5, <3>6
    <3>1. tools[i].args \in Seq(Nat) /\ i \in 1 .. n
      BY <3>0 DEF Calls
    <3>2. tab[i][1] = e.index /\ OwnArgs(m, k, tools[i].args, e.index)
      BY <1>2, <3>1 DEF tab
    <3>3. OwnArgs(m, k + 1, tools[i].args \o <<e.frag>>, e.index)
      BY <1>8, <3>1, <3>2, OwnArgsGrow
    <3>4. more[i].index = tools[i].index /\ more[i].name = tools[i].name
          /\ more[i].args = tools[i].args \o <<e.frag>>
      BY <1>6 DEF Extends, f
    <3> QED
      BY <1>2, <2>2, <3>1, <3>2, <3>3, <3>4
  <2> QED
    BY <2>1, <2>2
<1>9. Extended(tools, more, i, <<f>>)
  BY <1>2, <1>6 DEF Extended
<1>10. AnthropicTools(m, k + 1, t, w)
  BY <1>6, <1>7 DEF AnthropicTools, n, more, tab
<1> QED
  BY <1>9, <1>10 DEF more, tools, f

-------------------------------------------------------------------------------
(* The meter of an Anthropic stream. *)

(* The counts of a usage block, class by class, as the stream reads them. *)
LEMMA StreamCountsType ==
  ASSUME NEW u \in UsageBlocks("anthropic")
  PROVE  /\ AnthropicStreamCounts(u) \in [AllKinds -> Nat]
         /\ AnthropicStreamCounts(u)["input"] = AtLeastZero(u.inputTokens)
         /\ AnthropicStreamCounts(u)["cached_read"] = AtLeastZero(u.cacheReadTokens)
         /\ AnthropicStreamCounts(u)["cache_write_5m"] = AtLeastZero(u.cacheCreationTokens)
         /\ AnthropicStreamCounts(u)["output"] = AtLeastZero(u.outputTokens)
         /\ AnthropicStreamCounts(u)["cache_write_1h"] = 0
         /\ AnthropicStreamCounts(u)["audio_input"] = 0
         /\ AnthropicStreamCounts(u)["audio_output"] = 0
         /\ AnthropicStreamCounts(u)["reasoning"] = 0
<1>1. /\ u.inputTokens \in Int /\ u.outputTokens \in Int /\ u.cacheReadTokens \in Int
      /\ u.cacheCreationTokens \in Int
  BY DEF UsageBlocks
<1>2. \A n \in Int : AtLeastZero(n) \in Nat
  BY DEF AtLeastZero
<1>3. /\ AtLeastZero(u.inputTokens) \in Nat /\ AtLeastZero(u.outputTokens) \in Nat
      /\ AtLeastZero(u.cacheReadTokens) \in Nat /\ AtLeastZero(u.cacheCreationTokens) \in Nat
  BY <1>1, <1>2
<1> QED
  BY <1>3 DEF AnthropicStreamCounts, NoCounts, AllKinds

(* The meter, after an event that carries no count. *)
LEMMA MeterKept ==
  ASSUME NEW m, NEW k \in Nat, NEW t, NEW u, NEW errs \in Nat, AnthropicMeter(m, k, t, errs),
         u.counts = t.counts, NEW N \in Nat, N = Len(AnthropicEvents(m)), k # 0, k + 1 # N - 1
  PROVE  AnthropicMeter(m, k + 1, u, errs)
<1>1. (errs = 0 => k = 0) => (errs = 0 => k + 1 = 0)
  OBVIOUS
<1>2. (errs = 0 => k < N - 1) => (errs = 0 => k + 1 < N - 1)
  OBVIOUS
<1> QED
  BY <1>1, <1>2 DEF AnthropicMeter

(* The meter, past an event that was garbled. *)
LEMMA MeterSkipped ==
  ASSUME NEW m, NEW k, NEW t, NEW errs, AnthropicMeter(m, k, t, errs),
         NEW n, NEW more \in Nat, more > 0
  PROVE  AnthropicMeter(m, n, t, more)
<1>1. more # 0
  OBVIOUS
<1> QED
  BY <1>1 DEF AnthropicMeter

(* The meter, after message_start. *)
LEMMA MeterStart ==
  ASSUME NEW m, m.usage \in UsageBlocks("anthropic"), NEW t \in AnthropicTranslators(m),
         NEW u, NEW errs \in Nat,
         AnthropicMeter(m, 0, t, errs), NEW N \in Nat, N = Len(AnthropicEvents(m)), N >= 4,
         Started(t, u, m.usage)
  PROVE  /\ AnthropicMeter(m, 1, u, errs) /\ u \in AnthropicTranslators(m)
         /\ u.toolIndex = t.toolIndex /\ u.nextTool = t.nextTool /\ u.done = t.done
<1> DEFINE all == AnthropicStreamCounts(m.usage)
           new == [all EXCEPT !["output"] = t.counts["output"]]
<1>1. all \in [AllKinds -> Nat]
  BY StreamCountsType
<1>2. t.counts \in [AllKinds -> Nat] /\ "output" \in AllKinds
  BY DEF AnthropicTranslators, AllKinds
<1> HIDE DEF all
<1>3. new \in [AllKinds -> Nat] /\ (\A c \in AllKinds \ {"output"} : new[c] = all[c])
      /\ new["output"] = t.counts["output"]
  BY <1>1, <1>2
<1>4. u = [t EXCEPT !.counts = new]
  BY DEF all, Started
<1> HIDE DEF new
<1>5. /\ u \in AnthropicTranslators(m) /\ u.counts = new
      /\ u.toolIndex = t.toolIndex /\ u.nextTool = t.nextTool /\ u.done = t.done
  BY <1>3, <1>4 DEF AnthropicTranslators
<1>6. \/ t.counts["output"] = all["output"]
      \/ (errs = 0 => 0 < N - 1) /\ t.counts["output"] = 0
  BY DEF AnthropicMeter, all
<1>7. 1 < N - 1
  OBVIOUS
<1>8. AnthropicMeter(m, 1, u, errs)
  BY <1>3, <1>5, <1>6, <1>7 DEF AnthropicMeter, all
<1> QED
  BY <1>5, <1>8

(* The meter, after message_delta. *)
LEMMA MeterReason ==
  ASSUME NEW m, m.usage \in UsageBlocks("anthropic"), NEW t \in AnthropicTranslators(m),
         NEW u, NEW errs \in Nat, NEW k \in Nat,
         AnthropicMeter(m, k, t, errs), NEW N \in Nat, N = Len(AnthropicEvents(m)), N >= 4,
         k + 1 = N - 1,
         Concluded(t, u, m.usage)
  PROVE  /\ AnthropicMeter(m, k + 1, u, errs) /\ u \in AnthropicTranslators(m)
         /\ u.toolIndex = t.toolIndex /\ u.nextTool = t.nextTool /\ u.done = t.done
<1> DEFINE all == AnthropicStreamCounts(m.usage)
           new == [t.counts EXCEPT !["output"] = AtLeastZero(m.usage.outputTokens)]
<1>1. all \in [AllKinds -> Nat] /\ all["output"] = AtLeastZero(m.usage.outputTokens)
  BY StreamCountsType
<1>2. t.counts \in [AllKinds -> Nat] /\ "output" \in AllKinds
  BY DEF AnthropicTranslators, AllKinds
<1> HIDE DEF all
<1>3. new \in [AllKinds -> Nat] /\ (\A c \in AllKinds \ {"output"} : new[c] = t.counts[c])
      /\ new["output"] = all["output"]
  BY <1>1, <1>2
<1>4. u = [t EXCEPT !.counts = new, !.sawUsage = TRUE]
  BY DEF Concluded
<1> HIDE DEF new
<1>5. /\ u \in AnthropicTranslators(m) /\ u.counts = new
      /\ u.toolIndex = t.toolIndex /\ u.nextTool = t.nextTool /\ u.done = t.done
  BY <1>3, <1>4 DEF AnthropicTranslators
<1>6. \/ \A c \in AllKinds \ {"output"} : t.counts[c] = all[c]
      \/ (errs = 0 => k = 0) /\ \A c \in AllKinds \ {"output"} : t.counts[c] = 0
  BY DEF AnthropicMeter, all
<1>7. k # 0
  OBVIOUS
<1>8. AnthropicMeter(m, k + 1, u, errs)
  BY <1>3, <1>5, <1>6, <1>7 DEF AnthropicMeter, all
<1> QED
  BY <1>5, <1>8

(* The translator, after a call was announced. *)
LEMMA TableTypes ==
  ASSUME NEW m, NEW t \in AnthropicTranslators(m), NEW x \in 1 .. Len(m.blocks), NEW u,
         Announced(t, u, x)
  PROVE  /\ u \in AnthropicTranslators(m) /\ u.counts = t.counts /\ u.done = t.done
         /\ u.toolIndex = Append(t.toolIndex, <<x, t.nextTool>>) /\ u.nextTool = t.nextTool + 1
<1> DEFINE new == Append(t.toolIndex, <<x, t.nextTool>>)
           n == t.nextTool + 1
           P == (1 .. Len(m.blocks)) \X Nat
<1>1. t.nextTool \in Nat /\ t.toolIndex \in Seq(P) /\ <<x, t.nextTool>> \in P
  BY DEF AnthropicTranslators
<1>2. n \in Nat
  BY <1>1
<1>3. new \in Seq(P)
  <2> HIDE DEF P
  <2> QED
    BY <1>1
<1>4. u = [t EXCEPT !.toolIndex = new, !.nextTool = n]
  BY DEF Announced
<1> HIDE DEF new, n, P
<1>5. /\ u \in AnthropicTranslators(m) /\ u.counts = t.counts /\ u.done = t.done
      /\ u.toolIndex = new /\ u.nextTool = n
  BY <1>2, <1>3, <1>4 DEF AnthropicTranslators, P
<1> QED
  BY <1>5 DEF new, n

(* The translator, after message_stop. *)
LEMMA DoneTypes ==
  ASSUME NEW m, NEW t \in AnthropicTranslators(m), NEW u, u = [t EXCEPT !.done = TRUE]
  PROVE  /\ u \in AnthropicTranslators(m) /\ u.counts = t.counts
         /\ u.toolIndex = t.toolIndex /\ u.nextTool = t.nextTool
  BY DEF AnthropicTranslators

-------------------------------------------------------------------------------
(* What a client holds after k events of an Anthropic answer. *)

(* What the events carry is text, blocks or arguments. *)
LEMMA PiecesType ==
  ASSUME NEW m, Wellformed(m)
  PROVE  /\ TextOf(m) \in [AnthropicEventSet(m) -> Seq(Nat)]
         /\ CallOf(m) \in [AnthropicEventSet(m) -> Seq(1 .. Len(m.blocks))]
         /\ \A b : ArgsOf(m, b) \in [AnthropicEventSet(m) -> Seq(Nat)]
<1> DEFINE E == AnthropicEventSet(m)
           B == 1 .. Len(m.blocks)
<1>1. \A e \in E : /\ e.type = "content_block_delta" => e.frag \in Nat
                   /\ e.type = "content_block_start" => e.index \in B
  BY EventKinds
<1>2. <<>> \in Seq(Nat) /\ <<>> \in Seq(B) /\ (\A x \in Nat : <<x>> \in Seq(Nat))
      /\ (\A x \in B : <<x>> \in Seq(B))
  OBVIOUS
<1>3. /\ TextOf(m) = [e \in E |->
           IF e.type = "content_block_delta" /\ e.kind = "text" THEN <<e.frag>> ELSE <<>>]
      /\ CallOf(m) = [e \in E |->
           IF e.type = "content_block_start" /\ e.kind = "tool_use" THEN <<e.index>> ELSE <<>>]
  BY DEF TextOf, CallOf
<1>4. ASSUME NEW b
      PROVE  ArgsOf(m, b) = [e \in E |->
                IF e.type = "content_block_delta" /\ e.kind = "tool_use" /\ e.index = b
                THEN <<e.frag>> ELSE <<>>]
  BY DEF ArgsOf
<1> HIDE DEF E, B
<1>5. TextOf(m) \in [E -> Seq(Nat)]
  BY <1>1, <1>2, <1>3
<1>6. CallOf(m) \in [E -> Seq(B)]
  BY <1>1, <1>2, <1>3
<1>7. ASSUME NEW b PROVE ArgsOf(m, b) \in [E -> Seq(Nat)]
  <2>1. ArgsOf(m, b) = [e \in E |->
                IF e.type = "content_block_delta" /\ e.kind = "tool_use" /\ e.index = b
                THEN <<e.frag>> ELSE <<>>]
    BY <1>4
  <2> QED
    BY <1>1, <1>2, <2>1
<1> QED
  BY <1>5, <1>6, <1>7 DEF E, B

(* The events read so far, and one more. *)
ReadTo(m, k) == SubSeq(AnthropicEvents(m), 1, k)

(* What the events read so far carry, after one more. *)
LEMMA ReadOne ==
  ASSUME NEW m, Wellformed(m), NEW k \in Nat, k + 1 =< Len(AnthropicEvents(m)),
         NEW e, e = AnthropicEvents(m)[k + 1],
         NEW R, NEW h \in [AnthropicEventSet(m) -> Seq(R)]
  PROVE  /\ Splits(Mapped(h, ReadTo(m, k + 1)), Mapped(h, ReadTo(m, k)), h[e])
         /\ Mapped(h, ReadTo(m, k)) \in Seq(R) /\ h[e] \in Seq(R)
         /\ e \in AnthropicEventSet(m)
<1> DEFINE E == AnthropicEventSet(m)
           events == AnthropicEvents(m)
<1>1. events \in Seq(E)
  BY EventsPositions
<1> HIDE DEF E, events
<1>2. /\ SubSeq(events, 1, k) \in Seq(E) /\ events[k + 1] \in E
      /\ SubSeq(events, 1, k + 1) = Append(SubSeq(events, 1, k), events[k + 1])
  BY <1>1, PrefixGrows DEF events
<1>3. h \in [E -> Seq(R)] /\ e = events[k + 1]
  BY DEF E, events
<1> DEFINE s == SubSeq(events, 1, k)
<1>6. s \in Seq(E) /\ e \in E
  BY <1>2, <1>3
<1>7. SubSeq(events, 1, k + 1) = Append(s, e)
  BY <1>2, <1>3
<1> HIDE DEF s
<1>4. Mapped(h, Append(s, e)) = Mapped(h, s) \o h[e]
  BY <1>3, <1>6, MappedAppend
<1>5. Mapped(h, s) \in Seq(R) /\ h[e] \in Seq(R)
  BY <1>3, <1>6, MapType
<1> QED
  BY <1>4, <1>5, <1>6, <1>7 DEF Splits, ReadTo, s, E, events

Text(m, k)    == Mapped(TextOf(m), ReadTo(m, k))
Called(m, k)  == Mapped(CallOf(m), ReadTo(m, k))
Args(m, b, k) == Mapped(ArgsOf(m, b), ReadTo(m, k))
Column(t)     == [i \in 1 .. t.nextTool |-> t.toolIndex[i][1]]

(* What a client holds after k events, in these terms. *)
LEMMA PrefixIs ==
  ASSUME NEW m, NEW k, NEW t, NEW v
  PROVE  AnthropicPrefix(m, k, t, v) <=>
            /\ v.roles = (IF k = 0 THEN 0 ELSE 1)
            /\ v.text = Text(m, k)
            /\ Column(t) = Called(m, k)
            /\ \A i \in 1 .. t.nextTool : v.tools[i].args = Args(m, t.toolIndex[i][1], k)
            /\ v.finish = (IF k < Len(AnthropicEvents(m)) - 1 THEN ""
                           ELSE anthropicFinishReason(m.stop))
  BY DEF AnthropicPrefix, Text, Called, Args, Column, ReadTo

(* The text and the calls read, after one more event. *)
LEMMA PiecesGrow ==
  ASSUME NEW m, Wellformed(m), NEW k \in Nat, k + 1 =< Len(AnthropicEvents(m)),
         NEW e, e = AnthropicEvents(m)[k + 1]
  PROVE  /\ Splits(Text(m, k + 1), Text(m, k), TextOf(m)[e]) /\ Text(m, k) \in Seq(Nat)
         /\ Splits(Called(m, k + 1), Called(m, k), CallOf(m)[e])
         /\ Called(m, k) \in Seq(1 .. Len(m.blocks))
<1>1. /\ TextOf(m) \in [AnthropicEventSet(m) -> Seq(Nat)]
      /\ CallOf(m) \in [AnthropicEventSet(m) -> Seq(1 .. Len(m.blocks))]
  BY PiecesType
<1>2. Splits(Text(m, k + 1), Text(m, k), TextOf(m)[e]) /\ Text(m, k) \in Seq(Nat)
  BY <1>1, ReadOne DEF Text
<1>3. /\ Splits(Called(m, k + 1), Called(m, k), CallOf(m)[e])
      /\ Called(m, k) \in Seq(1 .. Len(m.blocks))
  BY <1>1, ReadOne DEF Called
<1> QED
  BY <1>2, <1>3

(* The arguments read of a block, after one more event. *)
LEMMA ArgsGrow ==
  ASSUME NEW m, Wellformed(m), NEW k \in Nat, k + 1 =< Len(AnthropicEvents(m)),
         NEW e, e = AnthropicEvents(m)[k + 1], NEW b
  PROVE  Splits(Args(m, b, k + 1), Args(m, b, k), ArgsOf(m, b)[e]) /\ Args(m, b, k) \in Seq(Nat)
<1>1. ArgsOf(m, b) \in [AnthropicEventSet(m) -> Seq(Nat)]
  BY PiecesType
<1> QED
  BY <1>1, ReadOne DEF Args

(* What an event carries, by its type and kind. *)
LEMMA PiecesOf ==
  ASSUME NEW m, NEW e \in AnthropicEventSet(m)
  PROVE  /\ e.type = "content_block_delta" /\ e.kind = "text" => TextOf(m)[e] = <<e.frag>>
         /\ ~ (e.type = "content_block_delta" /\ e.kind = "text") => TextOf(m)[e] = <<>>
         /\ e.type = "content_block_start" /\ e.kind = "tool_use" => CallOf(m)[e] = <<e.index>>
         /\ ~ (e.type = "content_block_start" /\ e.kind = "tool_use") => CallOf(m)[e] = <<>>
         /\ \A b : /\ e.type = "content_block_delta" /\ e.kind = "tool_use" /\ e.index = b
                        => ArgsOf(m, b)[e] = <<e.frag>>
                   /\ ~ (e.type = "content_block_delta" /\ e.kind = "tool_use" /\ e.index = b)
                        => ArgsOf(m, b)[e] = <<>>
  BY DEF TextOf, CallOf, ArgsOf

(* Adding nothing changes nothing. *)
LEMMA NothingAdded ==
  ASSUME NEW S, NEW a \in Seq(S), NEW b, Splits(b, a, <<>>)
  PROVE  b = a
  BY DEF Splits

FinishAt(m, k) == IF k < Len(AnthropicEvents(m)) - 1 THEN "" ELSE anthropicFinishReason(m.stop)

QuietArgs(m, t, e) == \A i \in 1 .. t.nextTool : ArgsOf(m, t.toolIndex[i][1])[e] = <<>>

(* An event that brings text or nothing. *)
LEMMA PrefixPlain ==
  ASSUME NEW m, Wellformed(m), NEW k \in Nat, k + 1 =< Len(AnthropicEvents(m)),
         NEW e, e = AnthropicEvents(m)[k + 1], NEW t, NEW u, NEW v, NEW w,
         AnthropicPrefix(m, k, t, v), u.toolIndex = t.toolIndex, u.nextTool = t.nextTool,
         w.tools = v.tools, Splits(w.text, v.text, TextOf(m)[e]), CallOf(m)[e] = <<>>,
         QuietArgs(m, t, e), w.roles = 1, w.finish = FinishAt(m, k + 1)
  PROVE  AnthropicPrefix(m, k + 1, u, w)
<1>1. /\ v.text = Text(m, k) /\ Column(t) = Called(m, k)
      /\ \A i \in 1 .. t.nextTool : v.tools[i].args = Args(m, t.toolIndex[i][1], k)
  BY PrefixIs
<1>2. /\ Splits(Text(m, k + 1), Text(m, k), TextOf(m)[e])
      /\ Splits(Called(m, k + 1), Called(m, k), CallOf(m)[e])
      /\ Called(m, k) \in Seq(1 .. Len(m.blocks))
  BY PiecesGrow
<1>3. w.text = Text(m, k + 1)
  BY <1>1, <1>2 DEF Splits
<1>4. Called(m, k + 1) = Called(m, k)
  BY <1>2, NothingAdded
<1>5. ASSUME NEW i \in 1 .. t.nextTool
      PROVE  Args(m, t.toolIndex[i][1], k + 1) = Args(m, t.toolIndex[i][1], k)
  <2> DEFINE b == t.toolIndex[i][1]
  <2>1. ArgsOf(m, b)[e] = <<>>
    BY DEF QuietArgs
  <2> HIDE DEF b
  <2>2. Splits(Args(m, b, k + 1), Args(m, b, k), ArgsOf(m, b)[e]) /\ Args(m, b, k) \in Seq(Nat)
    BY ArgsGrow
  <2>3. Args(m, b, k + 1) = Args(m, b, k)
    BY <2>1, <2>2, NothingAdded
  <2> QED
    BY <2>3 DEF b
<1>6. Column(u) = Column(t) /\ k + 1 # 0
  BY DEF Column
<1>7. \A i \in 1 .. u.nextTool : w.tools[i].args = Args(m, u.toolIndex[i][1], k + 1)
  BY <1>1, <1>5
<1>8. w.roles = (IF k + 1 = 0 THEN 0 ELSE 1) /\ Column(u) = Called(m, k + 1)
  BY <1>1, <1>4, <1>6
<1>9. w.finish = (IF k + 1 < Len(AnthropicEvents(m)) - 1 THEN ""
                  ELSE anthropicFinishReason(m.stop))
  BY DEF FinishAt
<1> QED
  BY <1>3, <1>7, <1>8, <1>9, PrefixIs

(* Nothing of a block comes before its announcement. *)
LEMMA NoArgsBefore ==
  ASSUME NEW m, Wellformed(m), NEW k \in Nat, k + 1 =< Len(AnthropicEvents(m)),
         NEW e, e = AnthropicEvents(m)[k + 1], e.type = "content_block_start"
  PROVE  Args(m, e.index, k + 1) = <<>>
<1> DEFINE events == AnthropicEvents(m)
           E == AnthropicEventSet(m)
           s == SubSeq(events, 1, k + 1)
           h == ArgsOf(m, e.index)
<1>1. events \in Seq(E) /\ Ordered(events)
  BY EventsPositions, EventsOrdered
<1>2. h \in [E -> Seq(Nat)]
  BY PiecesType
<1>3. s \in Seq(E) /\ Len(s) = k + 1 /\ \A i \in 1 .. k + 1 : s[i] = events[i]
  <2> HIDE DEF E, events
  <2>1. k + 1 =< Len(events)
    BY DEF events
  <2> QED
    BY <1>1, <2>1
<1>4. ASSUME NEW i \in 1 .. k + 1 PROVE h[s[i]] = <<>>
  <2>1. s[i] = events[i] /\ events[i] \in E /\ i \in 1 .. Len(events) /\ k + 1 \in 1 .. Len(events)
    BY <1>1, <1>3
  <2>2. ~ (events[i].type = "content_block_delta" /\ events[i].index = e.index)
    <3>1. CASE i = k + 1
      BY <3>1
    <3>2. CASE i # k + 1
      <4>1. i < k + 1
        BY <3>2
      <4>2. Follows(events[i], events[k + 1])
        BY <1>1, <2>1, <4>1 DEF Ordered
      <4> QED
        BY <4>2 DEF Follows
    <3> QED
      BY <3>1, <3>2
  <2> HIDE DEF h
  <2>3. ArgsOf(m, e.index)[events[i]] = <<>>
    BY <2>1, <2>2, PiecesOf
  <2> QED
    BY <2>1, <2>3 DEF h
<1> HIDE DEF h, s, E
<1>6. \A i \in 1 .. Len(s) : h[s[i]] = <<>>
  BY <1>3, <1>4
<1>7. s \in Seq(E)
  BY <1>3
<1>5. Mapped(h, s) = <<>>
  BY <1>2, <1>6, <1>7, MappedNone
<1> QED
  BY <1>5 DEF Args, ReadTo, h, s

(* An event that announces a call. *)
LEMMA PrefixCall ==
  ASSUME NEW m, Wellformed(m), NEW k \in Nat, k + 1 =< Len(AnthropicEvents(m)),
         NEW e \in AnthropicEventSet(m), e = AnthropicEvents(m)[k + 1],
         NEW t \in AnthropicTranslators(m), NEW u, NEW v \in Views, NEW w,
         AnthropicPrefix(m, k, t, v), Len(t.toolIndex) = t.nextTool, Len(v.tools) = t.nextTool,
         e.type = "content_block_start", e.kind = "tool_use", e.index \in 1 .. Len(m.blocks),
         u.toolIndex = Append(t.toolIndex, <<e.index, t.nextTool>>), u.nextTool = t.nextTool + 1,
         w.tools = Append(v.tools, [index |-> t.nextTool, name |-> e.index, args |-> <<>>]),
         Splits(w.text, v.text, <<>>), w.roles = 1, w.finish = FinishAt(m, k + 1)
  PROVE  AnthropicPrefix(m, k + 1, u, w)
<1> DEFINE n == t.nextTool
           x == e.index
           c == [index |-> t.nextTool, name |-> e.index, args |-> <<>>]
           tab == t.toolIndex
           new == u.toolIndex
<1>0. n \in Nat /\ tab \in Seq((1 .. Len(m.blocks)) \X Nat) /\ v.tools \in Seq(Calls)
  BY DEF AnthropicTranslators, Views
<1>1. /\ v.text = Text(m, k) /\ Column(t) = Called(m, k)
      /\ \A i \in 1 .. t.nextTool : v.tools[i].args = Args(m, t.toolIndex[i][1], k)
  BY PrefixIs
<1>2. /\ Splits(Text(m, k + 1), Text(m, k), TextOf(m)[e])
      /\ Splits(Called(m, k + 1), Called(m, k), CallOf(m)[e])
      /\ Called(m, k) \in Seq(1 .. Len(m.blocks)) /\ Text(m, k) \in Seq(Nat)
  BY PiecesGrow
<1>3. TextOf(m)[e] = <<>> /\ CallOf(m)[e] = <<x>> /\ \A b : ArgsOf(m, b)[e] = <<>>
  BY PiecesOf
<1>4. w.text = Text(m, k + 1)
  BY <1>1, <1>2, <1>3 DEF Splits
<1>5. /\ Len(new) = n + 1 /\ new[n + 1] = <<x, n>> /\ \A i \in 1 .. n : new[i] = tab[i]
  BY <1>0, SMTT(30)
<1>6. /\ w.tools[n + 1] = c /\ \A i \in 1 .. n : w.tools[i] = v.tools[i]
  BY <1>0
<1>7. c.args = <<>>
  OBVIOUS
<1>14. u.nextTool = n + 1
  OBVIOUS
<1> HIDE DEF c, n, tab, new
<1>8. Column(u) = Append(Column(t), x)
  <2>1. Column(t) = [i \in 1 .. n |-> tab[i][1]]
    BY DEF Column, n, tab
  <2>2. Column(u) = [i \in 1 .. n + 1 |-> new[i][1]]
    BY <1>14 DEF Column, new
  <2>3. Column(t) \in Seq(1 .. Len(m.blocks)) /\ Len(Column(t)) = n
    BY <1>0, <1>1, <1>2, <2>1
  <2>4. new[n + 1][1] = x
    BY <1>5
  <2> QED
    BY <1>0, <1>5, <2>1, <2>2, <2>3, <2>4, SMTT(30)
<1>9. Column(u) = Called(m, k + 1)
  <2>1. Append(Called(m, k), x) = Called(m, k) \o <<x>>
    BY <1>2
  <2> QED
    BY <1>1, <1>2, <1>3, <1>8, <2>1 DEF Splits
<1>10. ASSUME NEW i \in 1 .. n + 1 PROVE w.tools[i].args = Args(m, new[i][1], k + 1)
  <2>1. CASE i \in 1 .. n
    <3> DEFINE b == tab[i][1]
    <3>1. w.tools[i] = v.tools[i] /\ new[i] = tab[i] /\ v.tools[i].args = Args(m, b, k)
      BY <1>1, <1>5, <1>6, <2>1 DEF n, tab
    <3> HIDE DEF b
    <3>2. Splits(Args(m, b, k + 1), Args(m, b, k), ArgsOf(m, b)[e]) /\ Args(m, b, k) \in Seq(Nat)
      BY ArgsGrow
    <3>3. ArgsOf(m, b)[e] = <<>>
      BY <1>3
    <3>4. Args(m, b, k + 1) = Args(m, b, k)
      BY <3>2, <3>3, NothingAdded
    <3> QED
      BY <3>1, <3>4 DEF b
  <2>2. CASE i = n + 1
    <3>3. w.tools[i] = c /\ new[i] = <<x, n>>
      BY <1>5, <1>6, <2>2
    <3>4. <<x, n>>[1] = x
      OBVIOUS
    <3>1. w.tools[i].args = <<>> /\ new[i][1] = x
      BY <1>7, <3>3, <3>4
    <3>2. Args(m, x, k + 1) = <<>>
      BY NoArgsBefore
    <3> QED
      BY <3>1, <3>2
  <2>3. i \in 1 .. n \/ i = n + 1
    <3>1. n \in Nat /\ i \in 1 .. n + 1
      BY <1>0
    <3> QED
      BY ONLY <3>1
  <2> QED
    BY <2>1, <2>2, <2>3
<1>11. \A i \in 1 .. u.nextTool : w.tools[i].args = Args(m, u.toolIndex[i][1], k + 1)
  BY <1>10, <1>14 DEF new
<1>12. w.roles = (IF k + 1 = 0 THEN 0 ELSE 1)
  OBVIOUS
<1>13. w.finish = (IF k + 1 < Len(AnthropicEvents(m)) - 1 THEN ""
                  ELSE anthropicFinishReason(m.stop))
  BY DEF FinishAt
<1> QED
  BY <1>4, <1>9, <1>11, <1>12, <1>13, PrefixIs

(* An event that brings arguments of an announced call. *)
LEMMA PrefixArgs ==
  ASSUME NEW m, Wellformed(m), NEW k \in Nat, k + 1 =< Len(AnthropicEvents(m)),
         NEW e \in AnthropicEventSet(m), e = AnthropicEvents(m)[k + 1],
         NEW t, NEW v, NEW w, AnthropicPrefix(m, k, t, v),
         e.type = "content_block_delta", e.kind = "tool_use",
         NEW i \in 1 .. t.nextTool, t.toolIndex[i][1] = e.index,
         \A j \in 1 .. t.nextTool : t.toolIndex[j][1] = e.index => j = i,
         Extends(v.tools[i], w.tools[i], <<e.frag>>),
         \A j \in 1 .. t.nextTool : j # i => w.tools[j] = v.tools[j],
         Splits(w.text, v.text, <<>>), w.roles = 1, w.finish = FinishAt(m, k + 1)
  PROVE  AnthropicPrefix(m, k + 1, t, w)
<1>1. /\ v.text = Text(m, k) /\ Column(t) = Called(m, k)
      /\ \A j \in 1 .. t.nextTool : v.tools[j].args = Args(m, t.toolIndex[j][1], k)
  BY PrefixIs
<1>2. /\ Splits(Text(m, k + 1), Text(m, k), TextOf(m)[e])
      /\ Splits(Called(m, k + 1), Called(m, k), CallOf(m)[e])
      /\ Called(m, k) \in Seq(1 .. Len(m.blocks)) /\ Text(m, k) \in Seq(Nat)
  BY PiecesGrow
<1>3. TextOf(m)[e] = <<>> /\ CallOf(m)[e] = <<>>
  BY PiecesOf
<1>4. w.text = Text(m, k + 1)
  BY <1>1, <1>2, <1>3 DEF Splits
<1>5. Called(m, k + 1) = Called(m, k)
  BY <1>2, <1>3, NothingAdded
<1>6. ASSUME NEW j \in 1 .. t.nextTool
      PROVE  w.tools[j].args = Args(m, t.toolIndex[j][1], k + 1)
  <2> DEFINE b == t.toolIndex[j][1]
  <2>1. v.tools[j].args = Args(m, b, k)
    BY <1>1
  <2>2. j # i => b # e.index
    OBVIOUS
  <2>3. j = i => b = e.index
    OBVIOUS
  <2> HIDE DEF b
  <2>4. Splits(Args(m, b, k + 1), Args(m, b, k), ArgsOf(m, b)[e]) /\ Args(m, b, k) \in Seq(Nat)
    BY ArgsGrow
  <2>5. CASE j = i
    <3>4. ArgsOf(m, e.index)[e] = <<e.frag>>
      BY DEF ArgsOf
    <3>1. ArgsOf(m, b)[e] = <<e.frag>>
      BY <2>3, <2>5, <3>4
    <3>2. w.tools[j].args = v.tools[j].args \o <<e.frag>>
      BY <2>5 DEF Extends
    <3>3. w.tools[j].args = Args(m, b, k + 1)
      BY <2>1, <2>4, <3>1, <3>2 DEF Splits
    <3> QED
      BY <3>3 DEF b
  <2>6. CASE j # i
    <3>1. ArgsOf(m, b)[e] = <<>>
      BY <2>2, <2>6, PiecesOf
    <3>2. Args(m, b, k + 1) = Args(m, b, k)
      BY <2>4, <3>1, NothingAdded
    <3>3. w.tools[j].args = Args(m, b, k + 1)
      BY <2>1, <2>6, <3>2
    <3> QED
      BY <3>3 DEF b
  <2> QED
    BY <2>5, <2>6
<1>8. w.roles = (IF k + 1 = 0 THEN 0 ELSE 1) /\ Column(t) = Called(m, k + 1)
  BY <1>1, <1>5
<1>9. w.finish = (IF k + 1 < Len(AnthropicEvents(m)) - 1 THEN ""
                  ELSE anthropicFinishReason(m.stop))
  BY DEF FinishAt
<1> QED
  BY <1>4, <1>6, <1>8, <1>9, PrefixIs

-------------------------------------------------------------------------------
(* The invariant of an Anthropic stream, event by event. *)

(* The next event, and where the events of the frame are. *)
NextIs(e, k, N) ==
    /\ e.type = "message_start" <=> k = 0
    /\ e.type = "message_delta" <=> k + 1 = N - 1
    /\ e.type = "message_stop" <=> k + 1 = N

(* What the place of the next event tells of its type. *)
LEMMA NextEvent ==
  ASSUME NEW m, Wellformed(m), NEW k \in Nat, NEW N, N = Len(AnthropicEvents(m)),
         k + 1 \in 1 .. N, NEW e, e = AnthropicEvents(m)[k + 1]
  PROVE  N \in Nat /\ N >= 4 /\ e \in AnthropicEventSet(m) /\ NextIs(e, k, N)
<1>1. /\ AnthropicEvents(m) \in Seq(AnthropicEventSet(m)) /\ N \in Nat /\ N >= 4
      /\ Positions(m, AnthropicEvents(m), N)
  BY EventsPositions
<1>2. Placed(AnthropicEvents(m), N)
  BY <1>1, EventsPlaced
<1>3. e \in AnthropicEventSet(m)
  BY <1>1
<1>4. /\ e.type = "message_start" <=> k + 1 = 1
      /\ e.type = "message_delta" <=> k + 1 = N - 1
      /\ e.type = "message_stop" <=> k + 1 = N
  BY <1>2 DEF Placed
<1>5. k + 1 = 1 <=> k = 0
  OBVIOUS
<1> QED
  BY <1>1, <1>3, <1>4, <1>5 DEF NextIs

(* The translator's side of the invariant. *)
AnthropicKept(m, k, t, errs) ==
    /\ t \in AnthropicTranslators(m)
    /\ t.done => k = Len(AnthropicEvents(m))
    /\ AnthropicTable(m, k, t)
    /\ AnthropicMeter(m, k, t, errs)

(* The translator's side of the invariant is kept by every event. *)
LEMMA TranslatorKept ==
  ASSUME NEW m, Wellformed(m), m.usage \in UsageBlocks("anthropic"),
         NEW k \in Nat, NEW N, N = Len(AnthropicEvents(m)),
         k + 1 \in 1 .. N, NEW e, e = AnthropicEvents(m)[k + 1], NEW t, NEW errs \in Nat,
         AnthropicKept(m, k, t, errs), NEW r, r = AnthropicTranslate(t, e)
  PROVE  AnthropicKept(m, k + 1, r.t, errs)
<1>0. N \in Nat /\ N >= 4 /\ e \in AnthropicEventSet(m) /\ NextIs(e, k, N)
  BY NextEvent
<1>1. /\ N \in Nat /\ N >= 4 /\ e \in AnthropicEventSet(m)
      /\ e.type = "message_start" <=> k = 0
      /\ e.type = "message_delta" <=> k + 1 = N - 1
      /\ e.type = "message_stop" <=> k + 1 = N
  BY <1>0 DEF NextIs
<1>2. /\ t \in AnthropicTranslators(m) /\ AnthropicTable(m, k, t)
      /\ AnthropicMeter(m, k, t, errs) /\ ~ t.done
  <2>1. k # N
    BY <1>1
  <2> QED
    BY <2>1 DEF AnthropicKept
<1> DEFINE u == r.t
<1>3. ASSUME u = t, k # 0, k + 1 # N - 1 PROVE AnthropicKept(m, k + 1, u, errs)
  <2>1. AnthropicTable(m, k + 1, t)
    BY <1>1, <1>2, TableKept
  <2>2. AnthropicMeter(m, k + 1, t, errs)
    BY <1>1, <1>2, <1>3, MeterKept
  <2> QED
    BY <1>2, <1>3, <2>1, <2>2 DEF AnthropicKept
<1>4. CASE e.type = "message_start"
  <2>1. e.usage = m.usage
    BY <1>1, <1>4, EventKinds
  <2>2. Started(t, u, m.usage)
    BY <1>4, <2>1, TranslateStart
  <2> HIDE DEF u
  <2>3. k = 0
    BY <1>1, <1>4
  <2>6. AnthropicMeter(m, 0, t, errs)
    BY <1>2, <2>3
  <2>4. /\ AnthropicMeter(m, 1, u, errs) /\ u \in AnthropicTranslators(m)
        /\ u.toolIndex = t.toolIndex /\ u.nextTool = t.nextTool /\ u.done = t.done
    BY <1>1, <1>2, <2>2, <2>6, MeterStart
  <2>5. AnthropicTable(m, k + 1, u)
    BY <1>1, <1>2, <2>4, TableKept
  <2>7. AnthropicMeter(m, k + 1, u, errs)
    BY <2>3, <2>4
  <2> QED
    BY <1>2, <2>4, <2>5, <2>7 DEF AnthropicKept, u
<1>5. CASE e.type = "message_delta"
  <2>1. e.usage = m.usage
    BY <1>1, <1>5, EventKinds
  <2>2. Concluded(t, u, m.usage)
    BY <1>5, <2>1, TranslateReason
  <2> HIDE DEF u
  <2>3. k + 1 = N - 1
    BY <1>1, <1>5
  <2>4. /\ AnthropicMeter(m, k + 1, u, errs) /\ u \in AnthropicTranslators(m)
        /\ u.toolIndex = t.toolIndex /\ u.nextTool = t.nextTool /\ u.done = t.done
    BY <1>1, <1>2, <2>2, <2>3, MeterReason
  <2>5. AnthropicTable(m, k + 1, u)
    BY <1>1, <1>2, <2>4, TableKept
  <2> QED
    BY <1>2, <2>4, <2>5 DEF AnthropicKept, u
<1>6. CASE e.type = "message_stop"
  <2>2. u = [t EXCEPT !.done = TRUE]
    BY <1>6, TranslateStop
  <2> HIDE DEF u
  <2>3. k + 1 = N /\ k # 0 /\ k + 1 # N - 1
    BY <1>1, <1>6
  <2>4. /\ u \in AnthropicTranslators(m) /\ u.counts = t.counts
        /\ u.toolIndex = t.toolIndex /\ u.nextTool = t.nextTool
    BY <1>2, <2>2, DoneTypes
  <2>5. AnthropicTable(m, k + 1, u)
    BY <1>1, <1>2, <2>4, TableKept
  <2>6. AnthropicMeter(m, k + 1, u, errs)
    BY <1>1, <1>2, <2>3, <2>4, MeterKept
  <2> QED
    BY <2>3, <2>4, <2>5, <2>6 DEF AnthropicKept, u
<1>7. CASE e.type = "content_block_start" /\ e.kind = "tool_use"
  <2>1. e.index \in 1 .. Len(m.blocks) /\ m.blocks[e.index].kind = "tool_use"
    BY <1>1, <1>7, EventKinds
  <2>2. Announced(t, u, e.index)
    BY <1>7, TranslateTool
  <2> HIDE DEF u
  <2>3. k # 0 /\ k + 1 # N - 1
    BY <1>1, <1>7
  <2>4. /\ u \in AnthropicTranslators(m) /\ u.counts = t.counts /\ u.done = t.done
        /\ u.toolIndex = Append(t.toolIndex, <<e.index, t.nextTool>>) /\ u.nextTool = t.nextTool + 1
    BY <1>2, <2>1, <2>2, TableTypes
  <2>5. AnthropicTable(m, k + 1, u)
    BY <1>1, <1>2, <1>7, <2>1, <2>4, TableGrows
  <2>6. AnthropicMeter(m, k + 1, u, errs)
    BY <1>1, <1>2, <2>3, <2>4, MeterKept
  <2> QED
    BY <1>2, <2>4, <2>5, <2>6 DEF AnthropicKept, u
<1>8. CASE e.type = "content_block_delta" /\ e.kind \in {"text", "tool_use"}
  <2>3. e.kind = "text" => u = t
    BY <1>8, TranslateText
  <2>4. e.kind = "tool_use" => u = t
    BY <1>8, TranslateToolDelta
  <2>1. u = t
    BY <1>8, <2>3, <2>4
  <2>2. k # 0 /\ k + 1 # N - 1
    BY <1>1, <1>8
  <2> QED
    BY <1>3, <2>1, <2>2
<1>9. CASE /\ e.type \notin {"message_start", "message_delta", "message_stop"}
           /\ ~ (e.type = "content_block_start" /\ e.kind = "tool_use")
           /\ ~ (e.type = "content_block_delta" /\ e.kind \in {"text", "tool_use"})
  <2>1. u = t
    BY <1>9, TranslateOther
  <2>2. k # 0 /\ k + 1 # N - 1
    BY <1>1, <1>9
  <2> QED
    BY <1>3, <2>1, <2>2
<1> QED
  BY <1>4, <1>5, <1>6, <1>7, <1>8, <1>9

(* A chunk reaches the client, or is swallowed by what hangs before it. *)
LEMMA ChunkReceived ==
  ASSUME NEW v \in Views, NEW role \in BOOLEAN, NEW text \in Seq(Nat), NEW tool,
         NEW finish \in Reasons, NEW tools \in Seq(Calls), tools = AddTool(v.tools, tool),
         NEW hanging \in BOOLEAN, NEW chunks, OneChunk(chunks, role, text, tool, finish),
         NEW w, w = Receive(v, hanging, chunks)
  PROVE  /\ hanging => w \in Views /\ w.roles = v.roles /\ w.lost
         /\ ~ hanging => Received(v, w, role, text, tools, finish)
<1> DEFINE c == Chunk(role, text, tool, finish)
<1>1. chunks = <<c>>
  BY DEF OneChunk
<1>2. CASE hanging
  <2> HIDE DEF c
  <2>1. w = [v EXCEPT !.lost = TRUE]
    BY <1>1, <1>2, ReceiveOne
  <2>2. w \in Views /\ w.roles = v.roles /\ w.lost
    BY <2>1, LostFields
  <2> QED
    BY <1>2, <2>2
<1>3. CASE ~ hanging
  <2> HIDE DEF c
  <2>1. w = Assemble(v, c)
    BY <1>1, <1>3, ReceiveOne
  <2>2. Received(v, w, role, text, tools, finish)
    BY <2>1, AssembleFields DEF c
  <2> QED
    BY <1>3, <2>2
<1> QED
  BY <1>2, <1>3

(* The client's side of the invariant. *)
AnthropicView(m, k, t, v, errs) ==
    /\ v \in Views
    /\ v.roles \in 0 .. 1 /\ (k = 0 => v.roles = 0)
    /\ ~ v.lost => AnthropicTools(m, k, t, v)
    /\ errs = 0 => ~ v.lost /\ AnthropicPrefix(m, k, t, v)

(* The invariant is the translator's side and the client's. *)
LEMMA AnthropicStateIs ==
  ASSUME NEW m, NEW k, NEW t, NEW v, NEW errs
  PROVE  AnthropicState(m, k, t, v, errs)
            <=> AnthropicKept(m, k, t, errs) /\ AnthropicView(m, k, t, v, errs)
  BY DEF AnthropicState, AnthropicKept, AnthropicView

(* A client that lost a chunk, which takes an error before. *)
LEMMA ViewLost ==
  ASSUME NEW m, NEW k \in Nat, NEW t, NEW u, NEW v, NEW errs \in Nat, errs # 0,
         AnthropicView(m, k, t, v, errs), NEW w \in Views, w.roles = v.roles, w.lost
  PROVE  AnthropicView(m, k + 1, u, w, errs)
<1>1. w.roles \in 0 .. 1 /\ k + 1 # 0
  BY DEF AnthropicView
<1> QED
  BY <1>1 DEF AnthropicView

(* An event that leaves the calls alone. *)
LEMMA ViewPlain ==
  ASSUME NEW m, Wellformed(m), NEW k \in Nat, k + 1 =< Len(AnthropicEvents(m)),
         NEW e, e = AnthropicEvents(m)[k + 1], NEW t, NEW u, NEW v, NEW w \in Views,
         NEW errs \in Nat, AnthropicView(m, k, t, v, errs),
         u.toolIndex = t.toolIndex, u.nextTool = t.nextTool,
         w.tools = v.tools, w.lost = v.lost, w.roles \in 0 .. 1,
         Splits(w.text, v.text, TextOf(m)[e]), CallOf(m)[e] = <<>>, QuietArgs(m, t, e),
         errs = 0 => w.roles = 1 /\ w.finish = FinishAt(m, k + 1)
  PROVE  AnthropicView(m, k + 1, u, w, errs)
<1>1. Len(AnthropicEvents(m)) \in Nat
  BY EventsPositions
<1>2. ~ w.lost => AnthropicTools(m, k + 1, u, w)
  <2> SUFFICES ASSUME ~ w.lost PROVE AnthropicTools(m, k + 1, u, w)
    OBVIOUS
  <2>1. AnthropicTools(m, k, t, v)
    BY DEF AnthropicView
  <2> QED
    BY <1>1, <2>1, ToolsKept
<1>3. errs = 0 => ~ w.lost /\ AnthropicPrefix(m, k + 1, u, w)
  <2> SUFFICES ASSUME errs = 0 PROVE ~ w.lost /\ AnthropicPrefix(m, k + 1, u, w)
    OBVIOUS
  <2>1. ~ v.lost /\ AnthropicPrefix(m, k, t, v)
    BY DEF AnthropicView
  <2>2. w.roles = 1 /\ w.finish = FinishAt(m, k + 1)
    OBVIOUS
  <2>3. AnthropicPrefix(m, k + 1, u, w)
    BY <2>1, <2>2, PrefixPlain
  <2> QED
    BY <2>1, <2>3
<1>4. k + 1 # 0
  OBVIOUS
<1> QED
  BY <1>2, <1>3, <1>4 DEF AnthropicView

(* An event that announces a call. *)
LEMMA ViewCall ==
  ASSUME NEW m, Wellformed(m), NEW k \in Nat, k + 1 =< Len(AnthropicEvents(m)),
         NEW e \in AnthropicEventSet(m), e = AnthropicEvents(m)[k + 1],
         NEW t \in AnthropicTranslators(m), NEW u, NEW v \in Views, NEW w \in Views,
         NEW errs \in Nat, AnthropicView(m, k, t, v, errs), AnthropicTable(m, k, t), ~ v.lost,
         e.type = "content_block_start", e.kind = "tool_use", e.index \in 1 .. Len(m.blocks),
         u.toolIndex = Append(t.toolIndex, <<e.index, t.nextTool>>), u.nextTool = t.nextTool + 1,
         w.tools = Append(v.tools, NewCall(t.nextTool, e.index)),
         Splits(w.text, v.text, <<>>), w.lost = v.lost, w.roles \in 0 .. 1,
         errs = 0 => w.roles = 1 /\ w.finish = FinishAt(m, k + 1)
  PROVE  AnthropicView(m, k + 1, u, w, errs)
<1>0. w.tools = Append(v.tools, [index |-> t.nextTool, name |-> e.index, args |-> <<>>])
  BY DEF NewCall
<1>1. Len(AnthropicEvents(m)) \in Nat
  BY EventsPositions
<1>2. AnthropicTools(m, k, t, v)
  BY DEF AnthropicView
<1>3. AnthropicTools(m, k + 1, u, w)
  BY <1>0, <1>1, <1>2, ToolsGrow
<1>4. errs = 0 => ~ w.lost /\ AnthropicPrefix(m, k + 1, u, w)
  <2> SUFFICES ASSUME errs = 0 PROVE AnthropicPrefix(m, k + 1, u, w)
    OBVIOUS
  <2>1. AnthropicPrefix(m, k, t, v)
    BY DEF AnthropicView
  <2>2. w.roles = 1 /\ w.finish = FinishAt(m, k + 1)
    OBVIOUS
  <2>3. Len(t.toolIndex) = t.nextTool /\ Len(v.tools) = t.nextTool
    BY <1>2 DEF AnthropicTable, AnthropicTools
  <2> QED
    BY <1>0, <2>1, <2>2, <2>3, PrefixCall
<1>5. k + 1 # 0
  OBVIOUS
<1> QED
  BY <1>3, <1>4, <1>5 DEF AnthropicView

(* An event that brings arguments of an announced call. *)
LEMMA ViewArgs ==
  ASSUME NEW m, Wellformed(m), NEW k \in Nat, k + 1 \in 1 .. Len(AnthropicEvents(m)),
         NEW e \in AnthropicEventSet(m), e = AnthropicEvents(m)[k + 1],
         NEW t \in AnthropicTranslators(m), NEW v \in Views, NEW w \in Views,
         NEW errs \in Nat, AnthropicView(m, k, t, v, errs), AnthropicTable(m, k, t), ~ v.lost,
         e.type = "content_block_delta", e.kind = "tool_use",
         NEW i \in 1 .. t.nextTool, t.toolIndex[i][1] = e.index,
         w.tools = AddTool(v.tools, ToolFragment(i - 1, <<e.frag>>)),
         Splits(w.text, v.text, <<>>), w.lost = v.lost, w.roles \in 0 .. 1,
         errs = 0 => w.roles = 1 /\ w.finish = FinishAt(m, k + 1)
  PROVE  AnthropicView(m, k + 1, t, w, errs)
<1>1. AnthropicTools(m, k, t, v)
  BY DEF AnthropicView
<1>2. AnthropicTools(m, k + 1, t, w) /\ Extended(v.tools, w.tools, i, <<e.frag>>)
  BY <1>1, ToolsExtended
<1>7. Len(v.tools) = t.nextTool
  BY <1>1 DEF AnthropicTools
<1>3. /\ AnthropicTools(m, k + 1, t, w)
      /\ Extends(v.tools[i], w.tools[i], <<e.frag>>)
      /\ \A j \in 1 .. t.nextTool : j # i => w.tools[j] = v.tools[j]
  BY <1>2, <1>7 DEF Extended
<1>4. \A j \in 1 .. t.nextTool : t.toolIndex[j][1] = e.index => j = i
  BY DEF AnthropicTable
<1>5. errs = 0 => ~ w.lost /\ AnthropicPrefix(m, k + 1, t, w)
  <2> SUFFICES ASSUME errs = 0 PROVE AnthropicPrefix(m, k + 1, t, w)
    OBVIOUS
  <2>1. AnthropicPrefix(m, k, t, v) /\ k + 1 =< Len(AnthropicEvents(m))
    BY DEF AnthropicView
  <2>2. w.roles = 1 /\ w.finish = FinishAt(m, k + 1)
    OBVIOUS
  <2> QED
    BY <1>3, <1>4, <2>1, <2>2, PrefixArgs
<1>6. k + 1 # 0
  OBVIOUS
<1> QED
  BY <1>3, <1>5, <1>6 DEF AnthropicView

(* A reason is one of OpenAI's, and not empty. *)
LEMMA ReasonTypes ==
  \A s : anthropicFinishReason(s) \in Reasons /\ anthropicFinishReason(s) # ""
  BY DEF anthropicFinishReason, Reasons

(* What the client's view tells before the next event. *)
LEMMA ViewBefore ==
  ASSUME NEW m, NEW k \in Nat, NEW N \in Nat, N = Len(AnthropicEvents(m)), k + 1 =< N,
         NEW t, NEW v, NEW errs \in Nat, AnthropicView(m, k, t, v, errs)
  PROVE  /\ v \in Views /\ v.roles \in 0 .. 1 /\ (k = 0 => v.roles = 0)
         /\ v.text \in Seq(Nat) /\ v.tools \in Seq(Calls) /\ Splits(v.text, v.text, <<>>)
         /\ errs = 0 /\ k # 0 => v.roles = 1
         /\ errs = 0 /\ k + 1 # N - 1 => v.finish = FinishAt(m, k + 1)
<1>1. v \in Views /\ v.roles \in 0 .. 1 /\ (k = 0 => v.roles = 0)
  BY DEF AnthropicView
<1>2. v.text \in Seq(Nat) /\ v.tools \in Seq(Calls)
  BY <1>1 DEF Views
<1>3. Splits(v.text, v.text, <<>>)
  BY <1>2 DEF Splits
<1>4. errs = 0 => /\ v.roles = (IF k = 0 THEN 0 ELSE 1)
                  /\ v.finish = (IF k < N - 1 THEN "" ELSE anthropicFinishReason(m.stop))
  BY DEF AnthropicView, AnthropicPrefix
<1>5. FinishAt(m, k + 1) = IF k + 1 < N - 1 THEN "" ELSE anthropicFinishReason(m.stop)
  BY DEF FinishAt
<1>6. k + 1 # N - 1 => (k < N - 1 <=> k + 1 < N - 1)
  OBVIOUS
<1> QED
  BY <1>1, <1>2, <1>3, <1>4, <1>5, <1>6

(* What each event carries for a call of the table. *)
LEMMA QuietEvent ==
  ASSUME NEW m, NEW t, NEW e \in AnthropicEventSet(m),
         \/ e.type # "content_block_delta"
         \/ e.kind # "tool_use"
         \/ \A i \in 1 .. t.nextTool : t.toolIndex[i][1] # e.index
  PROVE  QuietArgs(m, t, e)
<1> SUFFICES ASSUME NEW i \in 1 .. t.nextTool
             PROVE  ArgsOf(m, t.toolIndex[i][1])[e] = <<>>
  BY DEF QuietArgs
<1> QED
  BY DEF ArgsOf

(* An event after which nothing is sent. *)
LEMMA ViewQuiet ==
  ASSUME NEW m, Wellformed(m), NEW k \in Nat, NEW N \in Nat, N = Len(AnthropicEvents(m)),
         k + 1 =< N, NEW e \in AnthropicEventSet(m), e = AnthropicEvents(m)[k + 1],
         NEW t, NEW u, NEW v, NEW errs \in Nat, AnthropicView(m, k, t, v, errs),
         u.toolIndex = t.toolIndex, u.nextTool = t.nextTool, k # 0, k + 1 # N - 1,
         TextOf(m)[e] = <<>>, CallOf(m)[e] = <<>>, QuietArgs(m, t, e)
  PROVE  AnthropicView(m, k + 1, u, v, errs)
<1>1. /\ v \in Views /\ v.roles \in 0 .. 1 /\ Splits(v.text, v.text, <<>>)
      /\ errs = 0 => v.roles = 1
      /\ errs = 0 => v.finish = FinishAt(m, k + 1)
  BY ViewBefore
<1>2. Splits(v.text, v.text, TextOf(m)[e]) /\ k + 1 =< Len(AnthropicEvents(m))
  BY <1>1
<1> QED
  BY <1>1, <1>2, ViewPlain

(* The first chunk carries the role, and the last but one event the reason. *)
Opens(role, k) == role = (k = 0)
Closes(m, k, N, finish) ==
    /\ k + 1 = N - 1 => finish = FinishAt(m, k + 1) /\ finish # ""
    /\ k + 1 # N - 1 => finish = ""

Says(m, k, N, e, chunks) ==
    \E role \in BOOLEAN, text \in Seq(Nat), finish \in Reasons :
        /\ TextOf(m)[e] = text /\ Opens(role, k) /\ Closes(m, k, N, finish)
        /\ OneChunk(chunks, role, text, NoTool, finish)

(* An event after which a chunk without a call is sent. *)
LEMMA ViewSays ==
  ASSUME NEW m, Wellformed(m), NEW k \in Nat, NEW N \in Nat, N = Len(AnthropicEvents(m)),
         k + 1 =< N, NEW e \in AnthropicEventSet(m), e = AnthropicEvents(m)[k + 1],
         NEW t, NEW u, NEW v, NEW errs \in Nat, AnthropicView(m, k, t, v, errs),
         u.toolIndex = t.toolIndex, u.nextTool = t.nextTool,
         CallOf(m)[e] = <<>>, QuietArgs(m, t, e),
         NEW hanging \in BOOLEAN, errs = 0 => ~ hanging,
         NEW chunks, Says(m, k, N, e, chunks),
         NEW w, w = Receive(v, hanging, chunks)
  PROVE  AnthropicView(m, k + 1, u, w, errs)
<1>0. PICK role \in BOOLEAN, text \in Seq(Nat), finish \in Reasons :
            /\ TextOf(m)[e] = text /\ Opens(role, k) /\ Closes(m, k, N, finish)
            /\ OneChunk(chunks, role, text, NoTool, finish)
  BY DEF Says
<1>1. /\ v \in Views /\ v.roles \in 0 .. 1 /\ (k = 0 => v.roles = 0) /\ v.tools \in Seq(Calls)
      /\ errs = 0 /\ k # 0 => v.roles = 1
      /\ errs = 0 /\ k + 1 # N - 1 => v.finish = FinishAt(m, k + 1)
  BY ViewBefore
<1>2. v.tools = AddTool(v.tools, NoTool)
  BY AddNoTool
<1>3. /\ hanging => w \in Views /\ w.roles = v.roles /\ w.lost
      /\ ~ hanging => Received(v, w, role, text, v.tools, finish)
  BY <1>0, <1>1, <1>2, ChunkReceived
<1>4. CASE hanging
  BY <1>3, <1>4, ViewLost
<1>5. CASE ~ hanging
  <2>1. /\ w \in Views /\ w.roles = v.roles + (IF role THEN 1 ELSE 0)
        /\ Splits(w.text, v.text, TextOf(m)[e]) /\ w.tools = v.tools
        /\ w.finish = (IF finish = "" THEN v.finish ELSE finish) /\ w.lost = v.lost
    BY <1>0, <1>3, <1>5 DEF Received, Splits
  <2>2. w.roles \in 0 .. 1 /\ (errs = 0 => w.roles = 1)
    <3>1. CASE k = 0
      <4>1. role
        BY <1>0, <3>1, Zenon DEF Opens
      <4>2. w.roles = v.roles + 1
        BY <2>1, <4>1
      <4> QED
        BY <1>1, <3>1, <4>2
    <3>2. CASE k # 0
      <4>1. ~ role
        BY <1>0, <3>2, Zenon DEF Opens
      <4>2. w.roles = v.roles + 0
        BY <2>1, <4>1
      <4> QED
        BY <1>1, <3>2, <4>2
    <3> QED
      BY <3>1, <3>2
  <2>3. errs = 0 => w.finish = FinishAt(m, k + 1)
    <3>1. CASE k + 1 = N - 1
      BY <1>0, <2>1, <3>1 DEF Closes
    <3>2. CASE k + 1 # N - 1
      BY <1>0, <1>1, <2>1, <3>2 DEF Closes
    <3> QED
      BY <3>1, <3>2
  <2>4. errs = 0 => w.roles = 1 /\ w.finish = FinishAt(m, k + 1)
    BY <2>2, <2>3
  <2>5. k + 1 =< Len(AnthropicEvents(m))
    OBVIOUS
  <2> QED
    BY <2>1, <2>2, <2>4, <2>5, ViewPlain
<1> QED
  BY <1>4, <1>5

(* A chunk of a tool call. *)
CallChunk(chunks, tool) == OneChunk(chunks, FALSE, <<>>, tool, "")
CallReceived(v, w, tools) ==
    /\ w \in Views /\ w.roles = v.roles /\ Splits(w.text, v.text, <<>>)
    /\ w.tools = tools /\ w.finish = v.finish /\ w.lost = v.lost

(* A chunk of a call reaches the client or is swallowed. *)
LEMMA CallIsReceived ==
  ASSUME NEW v \in Views, NEW tool, NEW tools \in Seq(Calls), tools = AddTool(v.tools, tool),
         NEW hanging \in BOOLEAN, NEW chunks, CallChunk(chunks, tool),
         NEW w, w = Receive(v, hanging, chunks)
  PROVE  /\ hanging => w \in Views /\ w.roles = v.roles /\ w.lost
         /\ ~ hanging => CallReceived(v, w, tools)
<1>1. ASSUME NEW role \in BOOLEAN, NEW text \in Seq(Nat), NEW finish \in Reasons,
             OneChunk(chunks, role, text, tool, finish)
      PROVE  /\ hanging => w \in Views /\ w.roles = v.roles /\ w.lost
             /\ ~ hanging => Received(v, w, role, text, tools, finish)
  BY <1>1, ChunkReceived
<1>2. "" \in Reasons /\ <<>> \in Seq(Nat)
  BY DEF Reasons
<1>3. /\ hanging => w \in Views /\ w.roles = v.roles /\ w.lost
      /\ ~ hanging => Received(v, w, FALSE, <<>>, tools, "")
  BY <1>1, <1>2, Zenon DEF CallChunk
<1>4. v.roles \in Nat /\ v.roles + 0 = v.roles
  BY DEF Views
<1>5. ASSUME Received(v, w, FALSE, <<>>, tools, "") PROVE CallReceived(v, w, tools)
  <2>1. /\ w \in Views /\ w.roles = v.roles + 0 /\ Splits(w.text, v.text, <<>>)
        /\ w.tools = tools /\ w.finish = v.finish /\ w.lost = v.lost
    BY <1>5 DEF Received, Splits
  <2> QED
    BY <1>4, <2>1 DEF CallReceived
<1> QED
  BY <1>3, <1>5, Zenon

Grown(t, u, x) ==
    u.toolIndex = Append(t.toolIndex, <<x, t.nextTool>>) /\ u.nextTool = t.nextTool + 1

(* The client after the announcement of a call. *)
LEMMA ViewAnnounced ==
  ASSUME NEW m, Wellformed(m), NEW k \in Nat, NEW N \in Nat, N = Len(AnthropicEvents(m)),
         k + 1 =< N, NEW e \in AnthropicEventSet(m), e = AnthropicEvents(m)[k + 1],
         NEW t \in AnthropicTranslators(m), NEW u, NEW v, NEW errs \in Nat,
         AnthropicView(m, k, t, v, errs), AnthropicTable(m, k, t),
         e.type = "content_block_start", e.kind = "tool_use", k # 0, k + 1 # N - 1,
         Grown(t, u, e.index),
         NEW hanging \in BOOLEAN, errs = 0 => ~ hanging,
         NEW chunks, CallChunk(chunks, NewCall(t.nextTool, e.name)),
         NEW w, w = Receive(v, hanging, chunks)
  PROVE  AnthropicView(m, k + 1, u, w, errs)
<1>1. /\ v \in Views /\ v.roles \in 0 .. 1 /\ v.tools \in Seq(Calls) /\ v.text \in Seq(Nat)
      /\ errs = 0 => v.roles = 1
      /\ errs = 0 => v.finish = FinishAt(m, k + 1)
  BY ViewBefore
<1>2. e.index \in 1 .. Len(m.blocks) /\ e.name = e.index /\ e.index \in Nat
  <2>1. e.index \in 1 .. Len(m.blocks) /\ e.name = e.index
    BY EventKinds
  <2>2. Len(m.blocks) \in Nat
    BY BlockTypes
  <2> QED
    BY <2>1, <2>2
<1> DEFINE c == NewCall(t.nextTool, e.index)
           new == AddTool(v.tools, c)
<1>3. c \in Calls
  <2>1. t.nextTool \in Int /\ <<>> \in Seq(Nat)
    BY DEF AnthropicTranslators
  <2> QED
    BY <1>2, <2>1 DEF NewCall, Calls
<1> HIDE DEF c
<1>4. new \in Seq(Calls)
  BY <1>1, <1>3, AddToolType
<1>5. CallChunk(chunks, c)
  BY <1>2 DEF c
<1>6. "" \in Reasons /\ <<>> \in Seq(Nat)
  BY DEF Reasons
<1> HIDE DEF new
<1>7. /\ hanging => w \in Views /\ w.roles = v.roles /\ w.lost
      /\ ~ hanging => CallReceived(v, w, new)
  <2>1. new = AddTool(v.tools, c)
    BY DEF new
  <2> QED
    BY <1>1, <1>4, <1>5, <1>6, <2>1, CallIsReceived
<1>8. CASE hanging
  BY <1>7, <1>8, ViewLost
<1>9. CASE ~ hanging
  <2>1. /\ w \in Views /\ w.roles = v.roles /\ Splits(w.text, v.text, <<>>)
        /\ w.tools = new /\ w.finish = v.finish /\ w.lost = v.lost
    BY <1>7, <1>9 DEF CallReceived
  <2>2. w.roles \in 0 .. 1 /\ (errs = 0 => w.roles = 1 /\ w.finish = FinishAt(m, k + 1))
    BY <1>1, <2>1
  <2>3. CASE ~ v.lost
    <3>1. AnthropicTools(m, k, t, v)
      BY <2>3 DEF AnthropicView
    <3>2. t.nextTool = Len(v.tools)
      BY <3>1 DEF AnthropicTools
    <3>3. c = [index |-> Len(v.tools), name |-> e.index, args |-> <<>>]
      BY <3>2 DEF c, NewCall
    <3>4. new = Append(v.tools, c)
      BY <1>1, <1>2, <1>6, <3>3, AddNewTool DEF new
    <3>5. w.tools = Append(v.tools, NewCall(t.nextTool, e.index))
      BY <2>1, <3>4 DEF c
    <3>6. k + 1 =< Len(AnthropicEvents(m))
      OBVIOUS
    <3>7. /\ u.toolIndex = Append(t.toolIndex, <<e.index, t.nextTool>>)
          /\ u.nextTool = t.nextTool + 1
      BY DEF Grown
    <3> QED
      BY <1>1, <1>2, <2>1, <2>2, <2>3, <3>5, <3>6, <3>7, ViewCall
  <2>4. CASE v.lost
    <3>1. errs # 0 /\ w.roles = v.roles /\ w.lost
      <4>1. errs # 0
        BY <2>4 DEF AnthropicView
      <4> QED
        BY <2>1, <2>4, <4>1
    <3> QED
      BY <2>1, <3>1, ViewLost
  <2> QED
    BY <2>3, <2>4
<1> QED
  BY <1>8, <1>9

FragmentAt(c, i, e) == c = ToolFragment(i - 1, <<e.frag>>)

(* The client after arguments of an announced call. *)
LEMMA ViewFragment ==
  ASSUME NEW m, Wellformed(m), NEW k \in Nat, NEW N \in Nat, N = Len(AnthropicEvents(m)),
         k + 1 \in 1 .. N, NEW e \in AnthropicEventSet(m), e = AnthropicEvents(m)[k + 1],
         NEW t \in AnthropicTranslators(m), NEW v, NEW errs \in Nat,
         AnthropicView(m, k, t, v, errs), AnthropicTable(m, k, t),
         e.type = "content_block_delta", e.kind = "tool_use", k # 0, k + 1 # N - 1,
         NEW i \in 1 .. t.nextTool, t.toolIndex[i][1] = e.index,
         NEW c, FragmentAt(c, i, e),
         NEW hanging \in BOOLEAN, errs = 0 => ~ hanging,
         NEW chunks, CallChunk(chunks, c),
         NEW w, w = Receive(v, hanging, chunks)
  PROVE  AnthropicView(m, k + 1, t, w, errs)
<1>0. k + 1 =< N
  OBVIOUS
<1>1. /\ v \in Views /\ v.roles \in 0 .. 1 /\ v.tools \in Seq(Calls) /\ v.text \in Seq(Nat)
      /\ errs = 0 => v.roles = 1
      /\ errs = 0 => v.finish = FinishAt(m, k + 1)
  BY <1>0, ViewBefore
<1> DEFINE new == AddTool(v.tools, c)
<1>2. c \in Calls
  <2>1. e.frag \in Nat
    BY EventKinds
  <2>2. t.nextTool \in Nat
    BY DEF AnthropicTranslators
  <2>3. i - 1 \in Nat
    BY <2>2
  <2> QED
    BY <2>1, <2>3, FragmentIs DEF FragmentAt
<1>3. new \in Seq(Calls)
  BY <1>1, <1>2, AddToolType
<1>4. "" \in Reasons /\ <<>> \in Seq(Nat)
  BY DEF Reasons
<1> HIDE DEF new
<1>5. /\ hanging => w \in Views /\ w.roles = v.roles /\ w.lost
      /\ ~ hanging => CallReceived(v, w, new)
  <2>1. new = AddTool(v.tools, c)
    BY DEF new
  <2> QED
    BY <1>1, <1>3, <1>4, <2>1, CallIsReceived
<1>6. CASE hanging
  BY <1>5, <1>6, ViewLost
<1>7. CASE ~ hanging
  <2>1. /\ w \in Views /\ w.roles = v.roles /\ Splits(w.text, v.text, <<>>)
        /\ w.tools = new /\ w.finish = v.finish /\ w.lost = v.lost
    BY <1>5, <1>7 DEF CallReceived
  <2>2. w.roles \in 0 .. 1 /\ (errs = 0 => w.roles = 1 /\ w.finish = FinishAt(m, k + 1))
    BY <1>1, <2>1
  <2>3. CASE ~ v.lost
    <3>1. w.tools = AddTool(v.tools, ToolFragment(i - 1, <<e.frag>>))
      BY <2>1 DEF new, FragmentAt
    <3>2. k + 1 \in 1 .. Len(AnthropicEvents(m))
      OBVIOUS
    <3> QED
      BY <1>1, <2>1, <2>2, <2>3, <3>1, <3>2, ViewArgs
  <2>4. CASE v.lost
    <3>1. errs # 0
      BY <2>4 DEF AnthropicView
    <3>3. w.roles = v.roles /\ w.lost
      BY <2>1, <2>4
    <3> QED
      BY <2>1, <3>1, <3>3, ViewLost
  <2> QED
    BY <2>3, <2>4
<1> QED
  BY <1>6, <1>7

(* The client after arguments of a call. *)
LEMMA ViewArguments ==
  ASSUME NEW m, Wellformed(m), NEW k \in Nat, NEW N \in Nat, N = Len(AnthropicEvents(m)),
         k + 1 \in 1 .. N, NEW e \in AnthropicEventSet(m), e = AnthropicEvents(m)[k + 1],
         NEW t \in AnthropicTranslators(m), NEW v, NEW errs \in Nat,
         AnthropicView(m, k, t, v, errs), AnthropicTable(m, k, t),
         e.type = "content_block_delta", e.kind = "tool_use", k # 0, k + 1 # N - 1,
         NEW hanging \in BOOLEAN, errs = 0 => ~ hanging,
         NEW chunks, chunks = ToolDelta(t, e), NEW w, w = Receive(v, hanging, chunks)
  PROVE  AnthropicView(m, k + 1, t, w, errs)
<1>0. k + 1 =< N
  OBVIOUS
<1>2. CASE IndexOf(t, e.index) = {} /\ \A i \in 1 .. t.nextTool : t.toolIndex[i][1] # e.index
  <2>1. w = v
    <3>1. chunks = <<>>
      BY <1>2, ToolDeltaNone
    <3> QED
      BY <3>1, ReceiveNone
  <2>2. QuietArgs(m, t, e)
    BY <1>2, QuietEvent
  <2>3. TextOf(m)[e] = <<>> /\ CallOf(m)[e] = <<>>
    BY PiecesOf
  <2> QED
    BY <1>0, <2>1, <2>2, <2>3, ViewQuiet
<1>3. ASSUME NEW i \in 1 .. t.nextTool, t.toolIndex[i][1] = e.index, IndexOf(t, e.index) = {i - 1}
      PROVE  AnthropicView(m, k + 1, t, w, errs)
  <2> DEFINE c == ToolFragment(i - 1, <<e.frag>>)
  <2>1. CallChunk(chunks, c)
    BY <1>3, ToolDeltaOne DEF OneChunk, CallChunk
  <2>2. FragmentAt(c, i, e)
    BY DEF FragmentAt
  <2> HIDE DEF c
  <2> QED
    BY <1>3, <2>1, <2>2, ViewFragment
<1>4. \/ IndexOf(t, e.index) = {} /\ \A i \in 1 .. t.nextTool : t.toolIndex[i][1] # e.index
      \/ \E i \in 1 .. t.nextTool : t.toolIndex[i][1] = e.index /\ IndexOf(t, e.index) = {i - 1}
  BY IndexOfIs
<1> QED
  BY <1>2, <1>3, <1>4

(* The reason is known from the last event but one. *)
LEMMA FinishAtReason ==
  ASSUME NEW m, NEW k, NEW N \in Nat, N = Len(AnthropicEvents(m)), k = N - 1
  PROVE  FinishAt(m, k) = anthropicFinishReason(m.stop)
<1>1. ~ (k < Len(AnthropicEvents(m)) - 1)
  OBVIOUS
<1> QED
  BY <1>1 DEF FinishAt

(* The client after any event. *)
LEMMA ClientKept ==
  ASSUME NEW m, Wellformed(m), m.usage \in UsageBlocks("anthropic"),
         NEW k \in Nat, NEW N, N = Len(AnthropicEvents(m)),
         k + 1 \in 1 .. N, NEW e, e = AnthropicEvents(m)[k + 1], NEW t, NEW v, NEW errs \in Nat,
         AnthropicKept(m, k, t, errs), AnthropicView(m, k, t, v, errs),
         NEW hanging \in BOOLEAN, errs = 0 => ~ hanging,
         NEW r, r = AnthropicTranslate(t, e), NEW w, w = Receive(v, hanging, r.chunks)
  PROVE  AnthropicView(m, k + 1, r.t, w, errs)
<1>0. N \in Nat /\ N >= 4 /\ e \in AnthropicEventSet(m) /\ NextIs(e, k, N)
  BY NextEvent
<1>1. /\ N \in Nat /\ N >= 4 /\ e \in AnthropicEventSet(m) /\ k + 1 =< N
      /\ e.type = "message_start" <=> k = 0
      /\ e.type = "message_delta" <=> k + 1 = N - 1
      /\ e.type = "message_stop" <=> k + 1 = N
  BY <1>0 DEF NextIs
<1>14. N \in Nat /\ e \in AnthropicEventSet(m) /\ k + 1 =< N
  BY <1>1
<1>2. t \in AnthropicTranslators(m) /\ AnthropicTable(m, k, t)
  BY DEF AnthropicKept
<1> DEFINE u == r.t
           chunks == r.chunks
<1>3. w = Receive(v, hanging, chunks)
  OBVIOUS
<1>4. "" \in Reasons /\ <<>> \in Seq(Nat)
  BY DEF Reasons
<1>5. ASSUME u.toolIndex = t.toolIndex, u.nextTool = t.nextTool, k # 0, k + 1 # N - 1,
             TextOf(m)[e] = <<>>, CallOf(m)[e] = <<>>, QuietArgs(m, t, e), chunks = <<>>
      PROVE  AnthropicView(m, k + 1, u, w, errs)
  <2>1. w = v
    BY <1>3, <1>5, ReceiveNone
  <2> HIDE DEF u, chunks
  <2> QED
    BY <1>1, <1>5, <2>1, ViewQuiet
<1>6. ASSUME u.toolIndex = t.toolIndex, u.nextTool = t.nextTool,
             CallOf(m)[e] = <<>>, QuietArgs(m, t, e), Says(m, k, N, e, chunks)
      PROVE  AnthropicView(m, k + 1, u, w, errs)
  <2> HIDE DEF u, chunks
  <2> QED
    BY <1>14, <1>3, <1>6, ViewSays
<1>7. CASE e.type = "message_start"
  <2>1. Started(t, u, m.usage) /\ OneChunk(chunks, TRUE, <<>>, NoTool, "")
    <3>1. e.usage = m.usage
      BY <1>1, <1>7, EventKinds
    <3> QED
      BY <1>7, <3>1, TranslateStart
  <2>2. /\ TextOf(m)[e] = <<>> /\ CallOf(m)[e] = <<>> /\ QuietArgs(m, t, e)
    BY <1>1, <1>7, PiecesOf, QuietEvent
  <2>3. k = 0 /\ k + 1 # N - 1
    BY <1>1, <1>7
  <2>4. u.toolIndex = t.toolIndex /\ u.nextTool = t.nextTool
    BY <1>2, <2>1 DEF Started, AnthropicTranslators
  <2>5. Opens(TRUE, k) /\ Closes(m, k, N, "")
    BY <2>3, Zenon DEF Opens, Closes
  <2> HIDE DEF u, chunks
  <2>6. Says(m, k, N, e, chunks)
    BY <1>4, <2>1, <2>2, <2>5, Zenon DEF Says
  <2> QED
    BY <1>6, <2>2, <2>4, <2>6 DEF u
<1>8. CASE e.type = "message_delta"
  <2>1. /\ Concluded(t, u, m.usage)
        /\ OneChunk(chunks, FALSE, <<>>, NoTool, anthropicFinishReason(m.stop))
    <3>1. e.usage = m.usage /\ e.stop = m.stop
      BY <1>1, <1>8, EventKinds
    <3> QED
      BY <1>8, <3>1, TranslateReason
  <2>2. /\ TextOf(m)[e] = <<>> /\ CallOf(m)[e] = <<>> /\ QuietArgs(m, t, e)
    BY <1>1, <1>8, PiecesOf, QuietEvent
  <2>3. k # 0 /\ k + 1 = N - 1
    BY <1>1, <1>8
  <2>4. u.toolIndex = t.toolIndex /\ u.nextTool = t.nextTool
    BY <1>2, <2>1 DEF Concluded, AnthropicTranslators
  <2>5. anthropicFinishReason(m.stop) \in Reasons /\ anthropicFinishReason(m.stop) # ""
        /\ FinishAt(m, k + 1) = anthropicFinishReason(m.stop)
    BY <1>1, <2>3, ReasonTypes, FinishAtReason
  <2>6. Opens(FALSE, k) /\ Closes(m, k, N, anthropicFinishReason(m.stop))
    BY <2>3, <2>5, Zenon DEF Opens, Closes
  <2> HIDE DEF u, chunks
  <2>7. Says(m, k, N, e, chunks)
    BY <1>4, <2>1, <2>2, <2>5, <2>6, Zenon DEF Says
  <2> QED
    BY <1>6, <2>2, <2>4, <2>7 DEF u
<1>9. CASE e.type = "message_stop"
  <2>1. u = [t EXCEPT !.done = TRUE] /\ chunks = <<>>
    BY <1>9, TranslateStop
  <2>2. /\ TextOf(m)[e] = <<>> /\ CallOf(m)[e] = <<>> /\ QuietArgs(m, t, e)
    BY <1>1, <1>9, PiecesOf, QuietEvent
  <2>3. k # 0 /\ k + 1 # N - 1
    BY <1>1, <1>9
  <2>4. u.toolIndex = t.toolIndex /\ u.nextTool = t.nextTool
    BY <1>2, <2>1 DEF AnthropicTranslators
  <2> QED
    BY <1>5, <2>1, <2>2, <2>3, <2>4
<1>10. CASE e.type = "content_block_start" /\ e.kind = "tool_use"
  <2>1. Announced(t, u, e.index) /\ CallChunk(chunks, NewCall(t.nextTool, e.name))
    BY <1>10, TranslateTool DEF CallChunk
  <2>2. e.index \in 1 .. Len(m.blocks)
    BY <1>1, <1>10, EventKinds
  <2>3. k # 0 /\ k + 1 # N - 1
    BY <1>1, <1>10
  <2> HIDE DEF u, chunks
  <2>4. Grown(t, u, e.index)
    BY <1>2, <2>1, <2>2, TableTypes DEF Grown
  <2>5. AnthropicView(m, k + 1, u, w, errs)
    BY <1>1, <1>2, <1>3, <1>10, <2>1, <2>3, <2>4, ViewAnnounced
  <2> QED
    BY <2>5 DEF u
<1>11. CASE e.type = "content_block_delta" /\ e.kind = "text"
  <2>1. u = t /\ OneChunk(chunks, FALSE, <<e.frag>>, NoTool, "")
    BY <1>11, TranslateText
  <2>2. /\ TextOf(m)[e] = <<e.frag>> /\ CallOf(m)[e] = <<>> /\ QuietArgs(m, t, e)
    BY <1>1, <1>11, PiecesOf, QuietEvent
  <2>3. k # 0 /\ k + 1 # N - 1
    BY <1>1, <1>11
  <2>4. <<e.frag>> \in Seq(Nat)
    <3>1. e.frag \in Nat
      BY <1>1, <1>11, EventKinds
    <3> QED
      BY <3>1
  <2>5. Opens(FALSE, k) /\ Closes(m, k, N, "")
    BY <2>3, Zenon DEF Opens, Closes
  <2>6. u.toolIndex = t.toolIndex /\ u.nextTool = t.nextTool
    BY <2>1
  <2> HIDE DEF u, chunks
  <2>7. Says(m, k, N, e, chunks)
    BY <1>4, <2>1, <2>2, <2>4, <2>5, Zenon DEF Says
  <2> QED
    BY <1>6, <2>2, <2>6, <2>7 DEF u
<1>12. CASE e.type = "content_block_delta" /\ e.kind = "tool_use"
  <2>1. u = t /\ chunks = ToolDelta(t, e)
    BY <1>12, TranslateToolDelta
  <2>2. k # 0 /\ k + 1 # N - 1
    BY <1>1, <1>12
  <2> HIDE DEF u, chunks
  <2>3. AnthropicView(m, k + 1, t, w, errs)
    BY <1>1, <1>2, <1>3, <1>12, <2>1, <2>2, ViewArguments
  <2> QED
    BY <2>1, <2>3 DEF u
<1>13. CASE /\ e.type \notin {"message_start", "message_delta", "message_stop"}
            /\ ~ (e.type = "content_block_start" /\ e.kind = "tool_use")
            /\ ~ (e.type = "content_block_delta" /\ e.kind \in {"text", "tool_use"})
  <2>1. u = t /\ chunks = <<>>
    BY <1>13, TranslateOther
  <2>2. /\ TextOf(m)[e] = <<>> /\ CallOf(m)[e] = <<>> /\ QuietArgs(m, t, e)
    BY <1>1, <1>13, PiecesOf, QuietEvent
  <2>3. k # 0 /\ k + 1 # N - 1
    BY <1>1, <1>13
  <2> QED
    BY <1>5, <2>1, <2>2, <2>3
<1> QED
  BY <1>7, <1>8, <1>9, <1>10, <1>11, <1>12, <1>13

(* An Anthropic stream at rest, after an event, past a garbled one, at its end. *)
LEMMA AnthropicFresh ==
  ASSUME NEW m, Wellformed(m)
  PROVE  AnthropicState(m, 0, NewAnthropicStreamTranslator, EmptyView, 0)
<1> DEFINE t == NewAnthropicStreamTranslator
           v == EmptyView
<1>1. t \in AnthropicTranslators(m)
  <2>1. NoCounts \in [AllKinds -> Nat] /\ <<>> \in Seq((1 .. Len(m.blocks)) \X Nat)
    BY DEF NoCounts
  <2> QED
    BY <2>1 DEF NewAnthropicStreamTranslator, AnthropicTranslators
<1>2. t.nextTool = 0 /\ t.toolIndex = <<>> /\ ~ t.done /\ t.counts = NoCounts
  BY DEF NewAnthropicStreamTranslator
<1>3. v \in Views
  <2>1. <<>> \in Seq(Nat) /\ <<>> \in Seq(Calls) /\ <<>> \in Seq(Closings) /\ "" \in Reasons
    BY DEF Reasons
  <2> QED
    BY <2>1 DEF EmptyView, Views
<1>4. v.roles = 0 /\ v.text = <<>> /\ v.tools = <<>> /\ v.finish = "" /\ ~ v.lost
  BY DEF EmptyView
<1> HIDE DEF t, v
<1>5. Len(AnthropicEvents(m)) \in Nat /\ Len(AnthropicEvents(m)) >= 4
  BY EventsPositions
<1>6. AnthropicTable(m, 0, t)
  BY <1>2 DEF AnthropicTable
<1>7. AnthropicMeter(m, 0, t, 0)
  <2>1. \A c \in AllKinds : t.counts[c] = 0
    BY <1>2 DEF NoCounts
  <2>2. "output" \in AllKinds
    BY DEF AllKinds
  <2>3. 0 < Len(AnthropicEvents(m)) - 1
    BY <1>5
  <2> QED
    BY <2>1, <2>2, <2>3 DEF AnthropicMeter
<1>8. AnthropicTools(m, 0, t, v)
  <2>1. Len(v.tools) = t.nextTool
    BY <1>2, <1>4
  <2>2. 1 .. t.nextTool = {}
    BY <1>2
  <2> QED
    BY <2>1, <2>2 DEF AnthropicTools
<1>9. AnthropicPrefix(m, 0, t, v)
  <2>1. ReadTo(m, 0) = <<>>
    BY PrefixNone DEF ReadTo
  <2>2. Text(m, 0) = <<>> /\ Called(m, 0) = <<>>
    BY <2>1, MappedEmpty DEF Text, Called
  <2>3. Column(t) = <<>>
    BY <1>2 DEF Column
  <2>4. \A i \in 1 .. t.nextTool : v.tools[i].args = Args(m, t.toolIndex[i][1], 0)
    BY <1>2
  <2>5. v.finish = (IF 0 < Len(AnthropicEvents(m)) - 1 THEN ""
                    ELSE anthropicFinishReason(m.stop))
    <3>1. 0 < Len(AnthropicEvents(m)) - 1
      BY <1>5
    <3> QED
      BY <1>4, <3>1
  <2>6. v.roles = (IF 0 = 0 THEN 0 ELSE 1) /\ v.text = Text(m, 0) /\ Column(t) = Called(m, 0)
    BY <1>4, <2>2, <2>3
  <2>7. ASSUME NEW n, n = 0 PROVE AnthropicPrefix(m, n, t, v)
    BY <2>4, <2>5, <2>6, <2>7, PrefixIs
  <2> QED
    BY <2>7
<1>10. v.roles \in 0 .. 1
  <2>1. 0 \in 0 .. 1
    OBVIOUS
  <2> QED
    BY <1>4, <2>1, Zenon
<1>11. AnthropicState(m, 0, t, v, 0)
  BY <1>1, <1>2, <1>3, <1>4, <1>6, <1>7, <1>8, <1>9, <1>10 DEF AnthropicState
<1> QED
  BY <1>11 DEF t, v

(* The invariant of an Anthropic stream is kept by an event. *)
LEMMA AnthropicRead ==
  ASSUME NEW m, Wellformed(m), m.usage \in UsageBlocks("anthropic"),
         NEW k \in Nat, k + 1 \in 1 .. Len(AnthropicEvents(m)), NEW t, NEW v, NEW errs \in Nat,
         NEW hanging \in BOOLEAN, errs = 0 => ~ hanging, AnthropicState(m, k, t, v, errs),
         NEW r, r = AnthropicTranslate(t, AnthropicEvents(m)[k + 1])
  PROVE  AnthropicState(m, k + 1, r.t, Receive(v, hanging, r.chunks), errs)
<1> DEFINE N == Len(AnthropicEvents(m))
           e == AnthropicEvents(m)[k + 1]
           w == Receive(v, hanging, r.chunks)
<1>1. AnthropicKept(m, k, t, errs) /\ AnthropicView(m, k, t, v, errs)
  BY AnthropicStateIs
<1>2. k + 1 \in 1 .. N /\ r = AnthropicTranslate(t, e)
  OBVIOUS
<1>3. N = Len(AnthropicEvents(m)) /\ e = AnthropicEvents(m)[k + 1]
      /\ w = Receive(v, hanging, r.chunks)
  OBVIOUS
<1> HIDE DEF N, e, w
<1>4. AnthropicKept(m, k + 1, r.t, errs)
  BY <1>1, <1>2, <1>3, TranslatorKept
<1>5. AnthropicView(m, k + 1, r.t, w, errs)
  BY <1>1, <1>2, <1>3, ClientKept
<1> QED
  BY <1>4, <1>5, AnthropicStateIs DEF w

(* It is kept past a garbled event, which counts as an error. *)
LEMMA AnthropicSkip ==
  ASSUME NEW m, Wellformed(m), NEW k \in Nat, k + 1 \in 1 .. Len(AnthropicEvents(m)),
         NEW t, NEW v, NEW errs \in Nat, AnthropicState(m, k, t, v, errs),
         NEW more \in Nat, more > 0
  PROVE  AnthropicState(m, k + 1, t, v, more)
<1>1. Len(AnthropicEvents(m)) \in Nat
  BY EventsPositions
<1>2. /\ t \in AnthropicTranslators(m) /\ v \in Views /\ ~ t.done
      /\ AnthropicTable(m, k, t) /\ AnthropicMeter(m, k, t, errs)
      /\ v.roles \in 0 .. 1 /\ (~ v.lost => AnthropicTools(m, k, t, v))
  <2>1. k # Len(AnthropicEvents(m))
    BY <1>1
  <2> QED
    BY <2>1 DEF AnthropicState
<1>3. AnthropicTable(m, k + 1, t)
  BY <1>1, <1>2, TableKept
<1>4. AnthropicMeter(m, k + 1, t, more)
  BY <1>2, MeterSkipped
<1>5. ~ v.lost => AnthropicTools(m, k + 1, t, v)
  BY <1>1, <1>2, ToolsKept
<1>6. k + 1 # 0 /\ more # 0
  OBVIOUS
<1> QED
  BY <1>2, <1>3, <1>4, <1>5, <1>6 DEF AnthropicState

(* It is kept by the trailers. *)
LEMMA AnthropicEnd ==
  ASSUME NEW m, NEW k, NEW t, NEW v, NEW errs, AnthropicState(m, k, t, v, errs),
         NEW trailers \in Seq(Closings), NEW w, w = [v EXCEPT !.trailers = trailers]
  PROVE  AnthropicState(m, k, t, w, errs)
<1>1. v \in Views
  BY DEF AnthropicState
<1>2. /\ w \in Views /\ w.roles = v.roles /\ w.text = v.text /\ w.tools = v.tools
      /\ w.finish = v.finish /\ w.lost = v.lost
  BY <1>1, TrailersFields
<1>3. AnthropicTools(m, k, t, v) => AnthropicTools(m, k, t, w)
  BY <1>2 DEF AnthropicTools
<1>4. AnthropicPrefix(m, k, t, v) => AnthropicPrefix(m, k, t, w)
  BY <1>2 DEF AnthropicPrefix
<1>5. /\ t \in AnthropicTranslators(m)
      /\ t.done => k = Len(AnthropicEvents(m))
      /\ AnthropicTable(m, k, t)
      /\ AnthropicMeter(m, k, t, errs)
      /\ v.roles \in 0 .. 1 /\ (k = 0 => v.roles = 0)
      /\ ~ v.lost => AnthropicTools(m, k, t, v)
      /\ errs = 0 => ~ v.lost /\ AnthropicPrefix(m, k, t, v)
  BY DEF AnthropicState
<1> QED
  BY <1>2, <1>3, <1>4, <1>5 DEF AnthropicState

-------------------------------------------------------------------------------
(* stream_google.go: the chunks of a Gemini answer, and what each does. *)

(* The parts of a Gemini answer. *)
BlockParts(m, i) ==
    [j \in 1 .. IF m.blocks[i].kind = "tool_use" THEN 1 ELSE Len(m.blocks[i].frags) |->
        [name |-> i, part |-> GooglePart(m.blocks[i], j)]]
Parts(m) == FlattenSeq([i \in 1 .. Len(m.blocks) |-> BlockParts(m, i)])

PartSet(m) ==
    {p \in [name : 1 .. Len(m.blocks), part : [tool : BOOLEAN, frags : Seq(Nat)]] :
        IF p.part.tool THEN /\ m.blocks[p.name].kind = "tool_use"
                            /\ p.part.frags = m.blocks[p.name].frags
                       ELSE m.blocks[p.name].kind # "tool_use"}

UsageAt(m, k, n) == [m.usage EXCEPT !.candidatesTokenCount = (@ * k) \div (n + 1)]

ChunkAt(m, ps, k) ==
    [type |-> "chunk", parts |-> IF k > Len(ps) THEN <<>> ELSE <<ps[k]>>,
     finish |-> IF k > Len(ps) THEN m.stop ELSE "", usage |-> UsageAt(m, k, Len(ps))]

(* The chunks of a Gemini answer, one for each part and a last one. *)
LEMMA GoogleChunksAre ==
  ASSUME NEW m
  PROVE  GoogleChunks(m) = [k \in 1 .. Len(Parts(m)) + 1 |-> ChunkAt(m, Parts(m), k)]
  BY DEF GoogleChunks, Parts, BlockParts, ChunkAt, UsageAt

(* The parts of a block are parts of the answer. *)
LEMMA BlockPartsType ==
  ASSUME NEW m, Wellformed(m), NEW i \in 1 .. Len(m.blocks)
  PROVE  BlockParts(m, i) \in Seq(PartSet(m))
<1> DEFINE b == m.blocks[i]
           n == IF b.kind = "tool_use" THEN 1 ELSE Len(b.frags)
<1>1. b.frags \in Seq(Nat)
  BY BlockTypes
<1>2. n \in Nat
  BY <1>1
<1>3. ASSUME NEW j \in 1 .. n PROVE [name |-> i, part |-> GooglePart(b, j)] \in PartSet(m)
  <2>1. CASE b.kind = "tool_use"
    <3>1. GooglePart(b, j) = [tool |-> TRUE, frags |-> b.frags]
      BY <2>1 DEF GooglePart
    <3> QED
      BY <1>1, <2>1, <3>1 DEF PartSet
  <2>2. CASE b.kind # "tool_use"
    <3>1. GooglePart(b, j) = [tool |-> FALSE, frags |-> <<b.frags[j]>>]
      BY <2>2 DEF GooglePart
    <3>2. b.frags[j] \in Nat
      BY <1>1, <2>2
    <3>3. <<b.frags[j]>> \in Seq(Nat)
      BY <3>2
    <3> QED
      BY <2>2, <3>1, <3>3 DEF PartSet
  <2> QED
    BY <2>1, <2>2
<1>4. BlockParts(m, i) = [j \in 1 .. n |-> [name |-> i, part |-> GooglePart(b, j)]]
  BY DEF BlockParts
<1> HIDE DEF b, n
<1>5. BlockParts(m, i) \in [1 .. n -> PartSet(m)]
  BY <1>3, <1>4
<1> QED
  BY <1>2, <1>5

(* And so are those of all blocks. *)
LEMMA PartsType ==
  ASSUME NEW m, Wellformed(m)
  PROVE  /\ [i \in 1 .. Len(m.blocks) |-> BlockParts(m, i)] \in Seq(Seq(PartSet(m)))
         /\ Parts(m) \in Seq(PartSet(m))
<1> DEFINE ss == [i \in 1 .. Len(m.blocks) |-> BlockParts(m, i)]
           S == Seq(PartSet(m))
<1>1. \A i \in 1 .. Len(m.blocks) : BlockParts(m, i) \in S
  BY BlockPartsType
<1>2. Len(m.blocks) \in Nat
  BY BlockTypes
<1>3. ss \in Seq(S)
  <2> HIDE DEF S
  <2> QED
    BY <1>1, <1>2
<1> HIDE DEF ss
<1>4. FlattenSeq(ss) \in Seq(PartSet(m))
  BY <1>3, FlattenType
<1> QED
  BY <1>3, <1>4 DEF ss, Parts

(* The chunk of a part, and the last one. *)
OnlyPart(e, p) == e.parts = <<p>> /\ e.finish = ""
PartAt(m, e, k) == OnlyPart(e, Parts(m)[k]) /\ Parts(m)[k] \in PartSet(m)
LastAt(m, e) == e.parts = <<>> /\ e.finish = m.stop

(* The fields of a chunk. *)
LEMMA ChunkFields ==
  ASSUME NEW m, NEW ps, NEW k, NEW e, e = ChunkAt(m, ps, k)
  PROVE  /\ e.usage = UsageAt(m, k, Len(ps))
         /\ ~ (k > Len(ps)) => OnlyPart(e, ps[k])
         /\ k > Len(ps) => e.parts = <<>> /\ e.finish = m.stop
<1> DEFINE u == UsageAt(m, k, Len(ps))
           p == IF k > Len(ps) THEN <<>> ELSE <<ps[k]>>
           f == IF k > Len(ps) THEN m.stop ELSE ""
<1>1. e = [type |-> "chunk", parts |-> p, finish |-> f, usage |-> u]
  BY DEF ChunkAt
<1> HIDE DEF u, p, f
<1>2. e.usage = u /\ e.parts = p /\ e.finish = f
  BY <1>1
<1> QED
  BY <1>2 DEF u, p, f, OnlyPart

(* Which chunk carries a part, and which the reason. *)
LEMMA ChunkShape ==
  ASSUME NEW m, Wellformed(m), NEW n \in Nat, n = Len(Parts(m)), NEW k \in Nat, k + 1 \in 1 .. n + 1,
         NEW e, e = GoogleChunks(m)[k + 1]
  PROVE  /\ e.usage = UsageAt(m, k + 1, n)
         /\ k + 1 =< n => PartAt(m, e, k + 1)
         /\ k + 1 = n + 1 => LastAt(m, e)
<1>1. e = ChunkAt(m, Parts(m), k + 1)
  BY GoogleChunksAre
<1>2. Parts(m) \in Seq(PartSet(m))
  BY PartsType
<1>3. e.usage = UsageAt(m, k + 1, n)
  BY <1>1, ChunkFields
<1>4. ASSUME k + 1 =< n PROVE PartAt(m, e, k + 1)
  <2>1. ~ (k + 1 > Len(Parts(m))) /\ k + 1 \in 1 .. Len(Parts(m))
    BY <1>4
  <2>2. Parts(m)[k + 1] \in PartSet(m)
    BY <1>2, <2>1
  <2>3. OnlyPart(e, Parts(m)[k + 1])
    BY <1>1, <2>1, ChunkFields
  <2> QED
    BY <2>2, <2>3 DEF PartAt
<1>5. ASSUME k + 1 = n + 1 PROVE LastAt(m, e)
  <2>1. k + 1 > Len(Parts(m))
    BY <1>5
  <2> QED
    BY <1>1, <2>1, ChunkFields DEF LastAt
<1> QED
  BY <1>3, <1>4, <1>5

(* There is one chunk more than there are parts. *)
LEMMA ChunksLen ==
  ASSUME NEW m, Wellformed(m)
  PROVE  /\ Len(Parts(m)) \in Nat /\ Len(GoogleChunks(m)) = Len(Parts(m)) + 1
         /\ GoogleChunks(m) \in Seq(EventSet(GoogleChunks(m)))
<1> DEFINE c == GoogleChunks(m)
           n == Len(Parts(m))
<1>1. n \in Nat
  BY PartsType
<1>2. c = [k \in 1 .. n + 1 |-> ChunkAt(m, Parts(m), k)]
  BY GoogleChunksAre
<1> HIDE DEF c, n
<1>3. Len(c) = n + 1
  BY <1>1, <1>2
<1>4. c \in [1 .. n + 1 -> EventSet(c)]
  BY <1>2, <1>3 DEF EventSet
<1>5. c \in Seq(EventSet(c))
  BY <1>1, <1>4
<1> QED
  BY <1>1, <1>3, <1>5 DEF c, n

(* The first chunk carries the role. *)
Speaks(chunks, t, text, tool, finish) ==
    \/ t.sentRole /\ OneChunk(chunks, FALSE, text, tool, finish)
    \/ ~ t.sentRole /\ OneChunk(chunks, TRUE, text, tool, finish)

(* Setting the role of a chunk changes nothing else of it. *)
LEMMA ChunkRole ==
  ASSUME NEW text, NEW tool, NEW finish, NEW c, c = Chunk(FALSE, text, tool, finish)
  PROVE  [c EXCEPT !.role = TRUE] = Chunk(TRUE, text, tool, finish)
<1> DEFINE R == [role : BOOLEAN, text : {text}, tool : {tool}, finish : {finish}]
           d == [c EXCEPT !.role = TRUE]
           f == Chunk(TRUE, text, tool, finish)
<1>1. c \in R /\ f \in R
  BY DEF Chunk
<1>2. d \in R
  BY <1>1
<1>3. d.role = TRUE /\ f.role = TRUE
  BY <1>1 DEF Chunk
<1>4. d.text = f.text /\ d.tool = f.tool /\ d.finish = f.finish
  BY <1>1, <1>2
<1> HIDE DEF d, f
<1>5. d = f
  BY <1>1, <1>2, <1>3, <1>4
<1> QED
  BY <1>5 DEF d, f

(* The first chunk, when there is one only. *)
LEMMA FirstRole ==
  ASSUME NEW c, NEW d, d = [c EXCEPT !.role = TRUE], NEW all, all = <<c>>
  PROVE  [all EXCEPT ![1].role = TRUE] = <<d>>
<1> DEFINE x == [all EXCEPT ![1] = d]
<1>1. all \in Seq({c, d}) /\ Len(all) = 1 /\ all[1] = c
  OBVIOUS
<1>2. [all EXCEPT ![1].role = TRUE] = x
  <2>1. [all[1] EXCEPT !.role = TRUE] = d
    BY <1>1
  <2> QED
    BY <2>1
<1>3. x \in Seq({c, d}) /\ Len(x) = 1 /\ x[1] = d
  BY <1>1
<1>4. <<d>> \in Seq({c, d}) /\ Len(<<d>>) = 1 /\ <<d>>[1] = d
  OBVIOUS
<1> HIDE DEF x
<1>5. x = <<d>>
  BY <1>3, <1>4
<1> QED
  BY <1>2, <1>5

(* Its role is set. *)
LEMMA RoleSet ==
  ASSUME NEW text, NEW tool, NEW finish, NEW all, all = <<Chunk(FALSE, text, tool, finish)>>,
         NEW new, new = [all EXCEPT ![1].role = TRUE]
  PROVE  OneChunk(new, TRUE, text, tool, finish)
<1> DEFINE c == Chunk(FALSE, text, tool, finish)
           d == [c EXCEPT !.role = TRUE]
<1>1. d = Chunk(TRUE, text, tool, finish)
  BY ChunkRole
<1>2. all = <<c>> /\ d = [c EXCEPT !.role = TRUE]
  OBVIOUS
<1> HIDE DEF c, d
<1>3. new = <<d>>
  BY <1>2, FirstRole
<1> QED
  BY <1>1, <1>3 DEF OneChunk

(* A sequence of one element. *)
LEMMA OnlyIndex ==
  ASSUME NEW p, NEW s, s = <<p>>
  PROVE  DOMAIN s = {1} /\ s[1] = p
<1>1. DOMAIN <<p>> = 1 .. 1 /\ <<p>>[1] = p
  OBVIOUS
<1>2. 1 .. 1 = {1}
  OBVIOUS
<1> QED
  BY <1>1, <1>2

PlainChunk(all, text, tool, finish) == OneChunk(all, FALSE, text, tool, finish)
RoleFirst(t, all, chunks) ==
    chunks = IF all = <<>> \/ t.sentRole THEN all ELSE [all EXCEPT ![1].role = TRUE]

(* What Translate makes of the chunks of an event. *)
LEMMA RolePrefixed ==
  ASSUME NEW t, t.sentRole \in BOOLEAN, NEW text, NEW tool, NEW finish,
         NEW all, PlainChunk(all, text, tool, finish), NEW chunks, RoleFirst(t, all, chunks)
  PROVE  all # <<>> /\ Speaks(chunks, t, text, tool, finish)
<1>1. all # <<>>
  BY DEF OneChunk, PlainChunk
<1>2. CASE t.sentRole
  <2>1. chunks = all
    BY <1>2 DEF RoleFirst
  <2> QED
    BY <1>1, <1>2, <2>1, Zenon DEF Speaks, PlainChunk
<1>3. CASE ~ t.sentRole
  <2>1. chunks = [all EXCEPT ![1].role = TRUE]
    BY <1>1, <1>3 DEF RoleFirst
  <2>2. OneChunk(chunks, TRUE, text, tool, finish)
    BY <2>1, RoleSet DEF OneChunk, PlainChunk
  <2> QED
    BY <1>1, <1>3, <2>2, Zenon DEF Speaks
<1> QED
  BY <1>2, <1>3

Result(r, a, b, c, d, x) ==
    r = [t |-> [lastUsage |-> a, sentRole |-> b, toolCalls |-> c, done |-> d], chunks |-> x]

IsTranslator(u) ==
    u \in [lastUsage : {u.lastUsage}, sentRole : {u.sentRole}, toolCalls : {u.toolCalls},
           done : {u.done}]

(* The fields of what Translate returns. *)
LEMMA ResultFields ==
  ASSUME NEW a, NEW b, NEW c, NEW d, NEW x, NEW r,
         Result(r, a, b, c, d, x)
  PROVE  /\ r.t.lastUsage = a /\ r.t.sentRole = b /\ r.t.toolCalls = c /\ r.t.done = d
         /\ r.chunks = x
         /\ IsTranslator(r.t)
<1>1. /\ r.t.lastUsage = a /\ r.t.sentRole = b /\ r.t.toolCalls = c /\ r.t.done = d
      /\ r.chunks = x
      /\ r.t \in [lastUsage : {a}, sentRole : {b}, toolCalls : {c}, done : {d}]
  BY DEF Result
<1>2. IsTranslator(r.t)
  BY <1>1 DEF IsTranslator
<1> QED
  BY <1>1, <1>2

TextPart(p) == IF p.part.tool THEN <<>> ELSE p.part.frags
ToolPart(p, index) ==
    IF p.part.tool THEN [index |-> index, name |-> p.name, args |-> p.part.frags] ELSE NoTool
CallsIn(p) == IF p.part.tool THEN 1 ELSE 0

(* What a part becomes: the translator u after it, and the chunks. *)
PartSpoken(chunks, t, p) == Speaks(chunks, t, TextPart(p), ToolPart(p, t.toolCalls), "")
PartTranslated(t, e, p, u, chunks) ==
    /\ u.lastUsage = e.usage /\ u.sentRole = TRUE /\ u.done = t.done
    /\ IsTranslator(u) /\ u.toolCalls = t.toolCalls + CallsIn(p)
    /\ PartSpoken(chunks, t, p)

(* What Translate makes of a chunk with one part. *)
LEMMA TranslatePart ==
  ASSUME NEW t, t.sentRole \in BOOLEAN, t.done \in BOOLEAN, t.toolCalls \in Nat,
         NEW e, NEW p, OnlyPart(e, p),
         p.part.tool \in BOOLEAN, NEW r, r = GoogleTranslate(t, e)
  PROVE  PartTranslated(t, e, p, r.t, r.chunks)
<1> DEFINE tools == t.toolCalls + Cardinality({i \in DOMAIN e.parts : e.parts[i].part.tool})
           body == [i \in DOMAIN e.parts |-> PartChunk(e.parts[i], t.toolCalls)]
           closing == IF e.finish = "" THEN <<>>
                      ELSE <<Chunk(FALSE, <<>>, NoTool, finishReason(tools, e.finish))>>
           all == body \o closing
           sent2 == IF all = <<>> \/ t.sentRole THEN all ELSE [all EXCEPT ![1].role = TRUE]
<1>1. e.parts = <<p>> /\ e.finish = ""
  BY DEF OnlyPart
<1>2. DOMAIN e.parts = {1} /\ e.parts[1] = p
  BY <1>1, OnlyIndex
<1>3. tools = t.toolCalls + CallsIn(p)
  <2>1. CASE p.part.tool
    <3>1. {i \in DOMAIN e.parts : e.parts[i].part.tool} = {1}
      BY <1>2, <2>1
    <3>2. Cardinality({1}) = 1
      BY FS_Singleton
    <3> QED
      BY <2>1, <3>1, <3>2 DEF CallsIn
  <2>2. CASE ~ p.part.tool
    <3>1. {i \in DOMAIN e.parts : e.parts[i].part.tool} = {}
      BY <1>2, <2>2
    <3>2. Cardinality({}) = 0
      BY FS_EmptySet
    <3> QED
      BY <2>2, <3>1, <3>2 DEF CallsIn
  <2> QED
    BY <2>1, <2>2
<1>4. all = <<Chunk(FALSE, TextPart(p), ToolPart(p, t.toolCalls), "")>>
  <2>1. closing = <<>>
    BY <1>1
  <2>2. PartChunk(p, t.toolCalls) = Chunk(FALSE, TextPart(p), ToolPart(p, t.toolCalls), "")
    BY DEF PartChunk, TextPart, ToolPart
  <2>3. body = <<PartChunk(p, t.toolCalls)>>
    BY <1>2
  <2> HIDE DEF body, closing
  <2>4. body \o closing = <<PartChunk(p, t.toolCalls)>>
    BY <2>1, <2>3
  <2> QED
    BY <2>2, <2>4
<1> DEFINE a == KeptUsage(t.lastUsage, e.usage)
           b == RoleSent(t, all)
           d == t.done \/ e.finish # ""
<1>5. Result(r, a, b, tools, d, sent2)
  BY DEF GoogleTranslate, Result
<1>6. RoleFirst(t, all, sent2)
  BY DEF RoleFirst
<1>7. d = (t.done \/ e.finish # "")
  OBVIOUS
<1>10. PlainChunk(all, TextPart(p), ToolPart(p, t.toolCalls), "")
  BY <1>4 DEF OneChunk, PlainChunk
<1>11. b = RoleSent(t, all) /\ a = KeptUsage(t.lastUsage, e.usage)
  OBVIOUS
<1> HIDE DEF tools, all, sent2, a, b, d
<1>8. /\ r.t.lastUsage = a /\ r.t.sentRole = b
      /\ r.t.toolCalls = tools /\ r.t.done = d /\ r.chunks = sent2 /\ IsTranslator(r.t)
  BY <1>5, ResultFields
<1>9. all # <<>> /\ Speaks(sent2, t, TextPart(p), ToolPart(p, t.toolCalls), "")
  <2> DEFINE finish == ""
  <2>1. PlainChunk(all, TextPart(p), ToolPart(p, t.toolCalls), finish)
    BY <1>10
  <2> HIDE DEF finish
  <2>2. all # <<>> /\ Speaks(sent2, t, TextPart(p), ToolPart(p, t.toolCalls), finish)
    BY <1>6, <2>1, RolePrefixed
  <2> QED
    BY <2>2 DEF finish
<1>12. b = TRUE /\ a = e.usage /\ (t.done \in BOOLEAN => d = t.done)
  <2>1. b = TRUE
    BY <1>9, <1>11, Zenon DEF RoleSent
  <2>2. a = e.usage
    BY <1>11 DEF KeptUsage
  <2>3. t.done \in BOOLEAN => d = t.done
    BY <1>1, <1>7, Zenon
  <2> QED
    BY <2>1, <2>2, <2>3
<1> QED
  BY <1>3, <1>8, <1>9, <1>12, Zenon DEF PartTranslated, PartSpoken

OnlyReason(e) == e.parts = <<>> /\ e.finish # ""

ReasonSpoken(chunks, t, s) == Speaks(chunks, t, <<>>, NoTool, finishReason(t.toolCalls, s))
LastTranslated(t, e, u, chunks) ==
    /\ u.lastUsage = e.usage /\ u.sentRole = TRUE /\ u.done = TRUE
    /\ IsTranslator(u) /\ u.toolCalls = t.toolCalls
    /\ ReasonSpoken(chunks, t, e.finish)

(* What Translate makes of the last chunk. *)
LEMMA TranslateLast ==
  ASSUME NEW t, t.sentRole \in BOOLEAN, t.done \in BOOLEAN, t.toolCalls \in Nat, NEW e,
         OnlyReason(e), NEW r, r = GoogleTranslate(t, e)
  PROVE  LastTranslated(t, e, r.t, r.chunks)
<1> DEFINE tools == t.toolCalls + Cardinality({i \in DOMAIN e.parts : e.parts[i].part.tool})
           body == [i \in DOMAIN e.parts |-> PartChunk(e.parts[i], t.toolCalls)]
           closing == IF e.finish = "" THEN <<>>
                      ELSE <<Chunk(FALSE, <<>>, NoTool, finishReason(tools, e.finish))>>
           all == body \o closing
           sent2 == IF all = <<>> \/ t.sentRole THEN all ELSE [all EXCEPT ![1].role = TRUE]
<1>1. e.parts = <<>> /\ e.finish # ""
  BY DEF OnlyReason
<1>2. DOMAIN e.parts = {}
  <2>1. DOMAIN <<>> = {}
    OBVIOUS
  <2> QED
    BY <1>1, <2>1
<1>3. tools = t.toolCalls
  <2>1. {i \in DOMAIN e.parts : e.parts[i].part.tool} = {}
    BY <1>2
  <2>2. Cardinality({}) = 0
    BY FS_EmptySet
  <2>3. tools = t.toolCalls + 0
    BY <2>1, <2>2, Zenon
  <2> HIDE DEF tools
  <2> QED
    BY <2>3
<1>4. all = <<Chunk(FALSE, <<>>, NoTool, finishReason(t.toolCalls, e.finish))>>
  <2>1. closing = <<Chunk(FALSE, <<>>, NoTool, finishReason(t.toolCalls, e.finish))>>
    BY <1>1, <1>3
  <2>2. body = <<>>
    BY <1>2
  <2> HIDE DEF body, closing
  <2>3. body \o closing = closing
    BY <2>1, <2>2
  <2> QED
    BY <2>1, <2>3
<1> DEFINE a == KeptUsage(t.lastUsage, e.usage)
           b == RoleSent(t, all)
           d == t.done \/ e.finish # ""
           f == finishReason(t.toolCalls, e.finish)
<1>5. Result(r, a, b, tools, d, sent2)
  BY DEF GoogleTranslate, Result
<1>6. RoleFirst(t, all, sent2)
  BY DEF RoleFirst
<1>7. d = (t.done \/ e.finish # "")
  OBVIOUS
<1>10. PlainChunk(all, <<>>, NoTool, f)
  BY <1>4 DEF OneChunk, PlainChunk
<1>11. b = RoleSent(t, all) /\ a = KeptUsage(t.lastUsage, e.usage)
  OBVIOUS
<1> HIDE DEF tools, all, sent2, a, b, d, f
<1>8. /\ r.t.lastUsage = a /\ r.t.sentRole = b
      /\ r.t.toolCalls = tools /\ r.t.done = d /\ r.chunks = sent2 /\ IsTranslator(r.t)
  BY <1>5, ResultFields
<1>9. all # <<>> /\ Speaks(sent2, t, <<>>, NoTool, f)
  <2> DEFINE none == <<>>
  <2>1. PlainChunk(all, none, NoTool, f)
    BY <1>10
  <2> HIDE DEF none
  <2>2. all # <<>> /\ Speaks(sent2, t, none, NoTool, f)
    BY <1>6, <2>1, RolePrefixed
  <2> QED
    BY <2>2 DEF none
<1>12. b = TRUE /\ a = e.usage /\ d = TRUE
  <2>1. b = TRUE
    BY <1>9, <1>11, Zenon DEF RoleSent
  <2>2. a = e.usage
    BY <1>11 DEF KeptUsage
  <2>3. d = TRUE
    BY <1>1, <1>7, Zenon
  <2> QED
    BY <2>1, <2>2, <2>3
<1> QED
  BY <1>3, <1>8, <1>9, <1>12, Zenon DEF f, LastTranslated, ReasonSpoken

(* The client after a chunk of Gemini. *)
Spoken(v, w, t, text, tools, finish) ==
    /\ w \in Views /\ w.roles = v.roles + (IF t.sentRole THEN 0 ELSE 1)
    /\ Splits(w.text, v.text, text) /\ w.tools = tools
    /\ w.finish = (IF finish = "" THEN v.finish ELSE finish) /\ w.lost = v.lost

(* A chunk of Gemini reaches the client or is swallowed. *)
LEMMA SpokenTo ==
  ASSUME NEW v \in Views, NEW t, t.sentRole \in BOOLEAN, NEW text \in Seq(Nat), NEW tool,
         NEW finish \in Reasons, NEW tools \in Seq(Calls), tools = AddTool(v.tools, tool),
         NEW hanging \in BOOLEAN, NEW chunks, Speaks(chunks, t, text, tool, finish),
         NEW w, w = Receive(v, hanging, chunks)
  PROVE  /\ hanging => w \in Views /\ w.roles = v.roles /\ w.lost
         /\ ~ hanging => Spoken(v, w, t, text, tools, finish)
<1>1. ASSUME NEW role \in BOOLEAN, OneChunk(chunks, role, text, tool, finish)
      PROVE  /\ hanging => w \in Views /\ w.roles = v.roles /\ w.lost
             /\ ~ hanging => Received(v, w, role, text, tools, finish)
  BY <1>1, ChunkReceived
<1>2. CASE t.sentRole
  <2>1. OneChunk(chunks, FALSE, text, tool, finish)
    BY <1>2, Zenon DEF Speaks
  <2>2. /\ hanging => w \in Views /\ w.roles = v.roles /\ w.lost
        /\ ~ hanging => Received(v, w, FALSE, text, tools, finish)
    BY <1>1, <2>1, Zenon
  <2>3. ASSUME Received(v, w, FALSE, text, tools, finish)
        PROVE  Spoken(v, w, t, text, tools, finish)
    BY <1>2, <2>3 DEF Received, Spoken, Splits
  <2> QED
    BY <2>2, <2>3, Zenon
<1>3. CASE ~ t.sentRole
  <2>1. OneChunk(chunks, TRUE, text, tool, finish)
    BY <1>3, Zenon DEF Speaks
  <2>2. /\ hanging => w \in Views /\ w.roles = v.roles /\ w.lost
        /\ ~ hanging => Received(v, w, TRUE, text, tools, finish)
    BY <1>1, <2>1, Zenon
  <2>3. ASSUME Received(v, w, TRUE, text, tools, finish)
        PROVE  Spoken(v, w, t, text, tools, finish)
    BY <1>3, <2>3 DEF Received, Spoken, Splits
  <2> QED
    BY <2>2, <2>3, Zenon
<1> QED
  BY <1>2, <1>3

-------------------------------------------------------------------------------
(* What a client holds after k chunks of a Gemini answer. *)

(* A part is a fragment of text or a whole tool call of a block. *)
LEMMA PartTypes ==
  ASSUME NEW m, NEW p \in PartSet(m)
  PROVE  /\ p.name \in 1 .. Len(m.blocks) /\ p.part.tool \in BOOLEAN /\ p.part.frags \in Seq(Nat)
         /\ TextPart(p) \in Seq(Nat) /\ CallsIn(p) \in 0 .. 1
         /\ p.part.tool => /\ HasTools(m) /\ m.blocks[p.name].kind = "tool_use"
                           /\ p.part.frags = m.blocks[p.name].frags
<1>1. /\ p.name \in 1 .. Len(m.blocks) /\ p.part \in [tool : BOOLEAN, frags : Seq(Nat)]
      /\ p.part.tool => /\ m.blocks[p.name].kind = "tool_use"
                        /\ p.part.frags = m.blocks[p.name].frags
  BY DEF PartSet
<1>2. p.part.tool \in BOOLEAN /\ p.part.frags \in Seq(Nat)
  BY <1>1
<1>3. TextPart(p) \in Seq(Nat)
  BY <1>2 DEF TextPart
<1>4. CallsIn(p) \in 0 .. 1
  BY DEF CallsIn
<1>5. p.part.tool => HasTools(m)
  BY <1>1 DEF HasTools
<1> QED
  BY <1>1, <1>2, <1>3, <1>4, <1>5

(* The text of a chunk. *)
LEMMA ChunkText ==
  ASSUME NEW m, Wellformed(m), NEW n \in Nat, n = Len(Parts(m)), NEW k \in Nat, k + 1 \in 1 .. n + 1
  PROVE  /\ k + 1 =< n => GoogleTextOf(m)[k + 1] = TextPart(Parts(m)[k + 1])
         /\ k + 1 = n + 1 => GoogleTextOf(m)[k + 1] = <<>>
         /\ GoogleTextOf(m)[k + 1] \in Seq(Nat)
<1> DEFINE e == GoogleChunks(m)[k + 1]
           x == GoogleTextOf(m)[k + 1]
           p == Parts(m)[k + 1]
<1>0. e = GoogleChunks(m)[k + 1]
  OBVIOUS
<1>1. x = IF e.parts = <<>> THEN <<>>
          ELSE IF e.parts[1].part.tool THEN <<>> ELSE e.parts[1].part.frags
  <2>1. k + 1 \in 1 .. Len(GoogleChunks(m))
    BY ChunksLen
  <2> QED
    BY <2>1 DEF GoogleTextOf
<1> HIDE DEF e, x
<1>2. /\ k + 1 =< n => PartAt(m, e, k + 1)
      /\ k + 1 = n + 1 => LastAt(m, e)
  BY <1>0, ChunkShape
<1>3. ASSUME k + 1 =< n PROVE x = TextPart(p) /\ x \in Seq(Nat)
  <2>1. OnlyPart(e, p) /\ p \in PartSet(m)
    BY <1>2, <1>3 DEF PartAt
  <2> HIDE DEF p
  <2>2. e.parts = <<p>>
    BY <2>1 DEF OnlyPart
  <2>3. e.parts # <<>> /\ e.parts[1] = p
    BY <2>2
  <2>4. x = TextPart(p)
    BY <1>1, <2>3 DEF TextPart
  <2> QED
    BY <2>1, <2>4, PartTypes
<1>4. ASSUME k + 1 = n + 1 PROVE x = <<>> /\ x \in Seq(Nat)
  <2>1. e.parts = <<>>
    BY <1>2, <1>4 DEF LastAt
  <2>2. x = <<>>
    BY <1>1, <2>1
  <2> QED
    BY <2>2
<1>5. k + 1 =< n \/ k + 1 = n + 1
  OBVIOUS
<1> QED
  BY <1>3, <1>4, <1>5 DEF x, p

GText(m, k) == FlattenSeq(SubSeq(GoogleTextOf(m), 1, k))

(* The texts of the chunks, one for each. *)
LEMMA GoogleTexts ==
  ASSUME NEW m, Wellformed(m)
  PROVE  GoogleTextOf(m) \in Seq(Seq(Nat)) /\ Len(GoogleTextOf(m)) = Len(Parts(m)) + 1
<1> DEFINE n == Len(Parts(m))
           N == Len(GoogleChunks(m))
           g == GoogleTextOf(m)
<1>1. n \in Nat /\ N = n + 1
  BY ChunksLen
<1>2. DOMAIN g = 1 .. N /\ g = [q \in 1 .. N |-> g[q]]
  BY DEF GoogleTextOf
<1>7. n = Len(Parts(m))
  OBVIOUS
<1> HIDE DEF g, n, N
<1>3. ASSUME NEW q \in 1 .. N PROVE g[q] \in Seq(Nat)
  <2>1. PICK k \in Nat : k = q - 1
    BY <1>1
  <2>2. k + 1 \in 1 .. n + 1 /\ k + 1 = q
    BY <1>1, <2>1
  <2>3. g[k + 1] \in Seq(Nat)
    BY <1>1, <1>7, <2>2, ChunkText DEF g
  <2> QED
    BY <2>2, <2>3
<1>4. g \in [1 .. N -> Seq(Nat)]
  BY <1>2, <1>3
<1>5. g \in Seq(Seq(Nat))
  BY <1>1, <1>4
<1>6. Len(g) = N
  BY <1>1, <1>2
<1> QED
  BY <1>1, <1>5, <1>6 DEF g, n

(* The text read, after one more chunk. *)
LEMMA GoogleTextGrows ==
  ASSUME NEW m, Wellformed(m), NEW n \in Nat, n = Len(Parts(m)), NEW k \in Nat, k + 1 \in 1 .. n + 1,
         NEW x, x = GoogleTextOf(m)[k + 1]
  PROVE  Splits(GText(m, k + 1), GText(m, k), x) /\ x \in Seq(Nat)
<1> DEFINE g == GoogleTextOf(m)
           S == Seq(Nat)
<1>1. g \in Seq(S) /\ Len(g) = n + 1
  BY GoogleTexts
<1>2. x = g[k + 1] /\ k + 1 =< Len(g)
  BY <1>1
<1> HIDE DEF g, S
<1>3. /\ SubSeq(g, 1, k) \in Seq(S) /\ g[k + 1] \in S
      /\ SubSeq(g, 1, k + 1) = Append(SubSeq(g, 1, k), g[k + 1])
  BY <1>1, <1>2, PrefixGrows
<1> DEFINE a == SubSeq(g, 1, k)
<1>4. a \in Seq(Seq(Nat)) /\ x \in Seq(Nat) /\ SubSeq(g, 1, k + 1) = Append(a, x)
  BY <1>2, <1>3 DEF S
<1> HIDE DEF a
<1>5. FlattenSeq(Append(a, x)) = FlattenSeq(a) \o x
  BY <1>4, FlattenAppend
<1> QED
  BY <1>4, <1>5 DEF Splits, GText, g, a

(* What a client holds after k chunks, in these terms. *)
LEMMA GooglePrefixIs ==
  ASSUME NEW m, NEW k, NEW t, NEW v
  PROVE  GooglePrefix(m, k, t, v) <=>
            /\ v.roles = (IF k = 0 THEN 0 ELSE 1)
            /\ t.sentRole = (k > 0)
            /\ v.text = GText(m, k)
            /\ k > 0 => t.lastUsage = GoogleChunks(m)[k].usage
            /\ v.finish = (IF k < Len(GoogleChunks(m)) THEN ""
                           ELSE finishReason(t.toolCalls, m.stop))
  BY DEF GooglePrefix, GText

GoogleFinish(m, k, calls) ==
    IF k < Len(GoogleChunks(m)) THEN "" ELSE finishReason(calls, m.stop)

(* With nothing garbled: a chunk more. *)
LEMMA GooglePrefixGrows ==
  ASSUME NEW m, Wellformed(m), NEW n \in Nat, n = Len(Parts(m)), NEW k \in Nat, k + 1 \in 1 .. n + 1,
         NEW t, NEW u, NEW v, NEW w, GooglePrefix(m, k, t, v), u.sentRole = TRUE,
         u.lastUsage = GoogleChunks(m)[k + 1].usage,
         w.roles = v.roles + (IF t.sentRole THEN 0 ELSE 1),
         Splits(w.text, v.text, GoogleTextOf(m)[k + 1]),
         w.finish = GoogleFinish(m, k + 1, u.toolCalls)
  PROVE  GooglePrefix(m, k + 1, u, w)
<1>1. /\ v.roles = (IF k = 0 THEN 0 ELSE 1) /\ t.sentRole = (k > 0) /\ v.text = GText(m, k)
  BY GooglePrefixIs
<1>2. Splits(GText(m, k + 1), GText(m, k), GoogleTextOf(m)[k + 1])
  BY GoogleTextGrows
<1>3. w.text = GText(m, k + 1)
  BY <1>1, <1>2 DEF Splits
<1>4. w.roles = 1
  <2>1. CASE k = 0
    <3>1. ~ (k > 0)
      BY <2>1
    <3>2. ~ t.sentRole
      BY <1>1, <3>1
    <3>3. w.roles = 0 + 1
      BY <1>1, <2>1, <3>2
    <3> QED
      BY <3>3
  <2>2. CASE k # 0
    <3>1. k > 0
      BY <2>2
    <3>2. t.sentRole
      BY <1>1, <3>1
    <3>3. w.roles = 1 + 0
      BY <1>1, <2>2, <3>2
    <3> QED
      BY <3>3
  <2> QED
    BY <2>1, <2>2
<1>5. k + 1 # 0 /\ k + 1 > 0
  OBVIOUS
<1>6. w.roles = (IF k + 1 = 0 THEN 0 ELSE 1) /\ u.sentRole = (k + 1 > 0)
  BY <1>4, <1>5
<1>7. w.finish = (IF k + 1 < Len(GoogleChunks(m)) THEN ""
                  ELSE finishReason(u.toolCalls, m.stop))
  BY DEF GoogleFinish
<1> QED
  BY <1>3, <1>6, <1>7, GooglePrefixIs

(* The role is counted once, as sentRole remembers it. *)
LEMMA RoleOnce ==
  ASSUME NEW a \in 0 .. 1, NEW t, a = 1 => t.sentRole,
         NEW b, b = a + (IF t.sentRole THEN 0 ELSE 1)
  PROVE  b \in 0 .. 1
  OBVIOUS

(* What the client holds as a reason after a chunk. *)
GoogleEnds(m, k, v, finish, calls) ==
    (IF finish = "" THEN v.finish ELSE finish) = GoogleFinish(m, k, calls)

(* The invariant, a chunk further. *)
LEMMA GoogleAdvance ==
  ASSUME NEW m, Wellformed(m), NEW n \in Nat, n = Len(Parts(m)), NEW k \in Nat, k + 1 \in 1 .. n + 1,
         NEW t, NEW u \in GoogleTranslators(m), NEW v, NEW w, NEW errs \in Nat,
         GoogleState(m, k, t, v, errs), u.sentRole = TRUE,
         u.lastUsage = GoogleChunks(m)[k + 1].usage, u.done => k + 1 = n + 1,
         ~ HasTools(m) => u.toolCalls = 0,
         NEW hanging \in BOOLEAN, errs = 0 => ~ hanging, NEW tools, NEW finish \in Reasons,
         hanging => w \in Views /\ w.roles = v.roles /\ w.lost,
         ~ hanging => Spoken(v, w, t, GoogleTextOf(m)[k + 1], tools, finish),
         ~ v.lost /\ w.tools = tools => GoogleTools(m, u, w),
         errs = 0 => GoogleEnds(m, k + 1, v, finish, u.toolCalls)
  PROVE  GoogleState(m, k + 1, u, w, errs)
<1>1. /\ v \in Views /\ v.roles \in 0 .. 1 /\ (v.roles = 1 => t.sentRole)
      /\ errs = 0 => ~ v.lost /\ GooglePrefix(m, k, t, v)
  BY DEF GoogleState
<1>2. u.done => k + 1 = Len(GoogleChunks(m))
  BY ChunksLen
<1>3. CASE hanging
  <2>1. w \in Views /\ w.roles \in 0 .. 1 /\ w.lost /\ errs # 0
    BY <1>1, <1>3
  <2> QED
    BY <1>2, <2>1 DEF GoogleState
<1>4. CASE ~ hanging
  <2>1. /\ w \in Views /\ w.roles = v.roles + (IF t.sentRole THEN 0 ELSE 1)
        /\ Splits(w.text, v.text, GoogleTextOf(m)[k + 1]) /\ w.tools = tools
        /\ w.finish = (IF finish = "" THEN v.finish ELSE finish) /\ w.lost = v.lost
    BY <1>4 DEF Spoken
  <2>2. w.roles \in 0 .. 1
    BY <1>1, <2>1, RoleOnce
  <2>3. ~ w.lost => GoogleTools(m, u, w)
    BY <2>1
  <2>4. errs = 0 => ~ w.lost /\ GooglePrefix(m, k + 1, u, w)
    <3> SUFFICES ASSUME errs = 0 PROVE ~ w.lost /\ GooglePrefix(m, k + 1, u, w)
      OBVIOUS
    <3>1. ~ v.lost /\ GooglePrefix(m, k, t, v)
      BY <1>1
    <3>2. w.finish = GoogleFinish(m, k + 1, u.toolCalls)
      BY <2>1 DEF GoogleEnds
    <3>3. GooglePrefix(m, k + 1, u, w)
      BY <2>1, <3>1, <3>2, GooglePrefixGrows
    <3> QED
      BY <2>1, <3>1, <3>3
  <2> QED
    BY <1>2, <2>1, <2>2, <2>3, <2>4 DEF GoogleState
<1> QED
  BY <1>3, <1>4

-------------------------------------------------------------------------------
(* The invariant of a Gemini stream, chunk by chunk. *)

(* A reason is one of OpenAI's, and not empty. *)
LEMMA FinishReasonType ==
  \A c, s : finishReason(c, s) \in Reasons /\ finishReason(c, s) # ""
  BY DEF finishReason, Reasons

(* The type of the translator after a chunk. *)
LEMMA TranslatorType ==
  ASSUME NEW m, NEW u, IsTranslator(u), NEW q \in 1 .. Len(GoogleChunks(m)),
         u.lastUsage = GoogleChunks(m)[q].usage, u.sentRole \in BOOLEAN, u.done \in BOOLEAN,
         u.toolCalls \in Nat
  PROVE  u \in GoogleTranslators(m)
<1> DEFINE L == {NoUsage} \cup {GoogleChunks(m)[x].usage : x \in 1 .. Len(GoogleChunks(m))}
<1>1. u.lastUsage \in L
  OBVIOUS
<1> HIDE DEF L
<1>2. u \in [lastUsage : L, sentRole : BOOLEAN, toolCalls : Nat, done : BOOLEAN]
  BY <1>1 DEF IsTranslator
<1> QED
  BY <1>2 DEF GoogleTranslators, L

(* What the invariant tells of the types. *)
LEMMA GoogleBefore ==
  ASSUME NEW m, NEW k, NEW t, NEW v, NEW errs, GoogleState(m, k, t, v, errs)
  PROVE  /\ t.sentRole \in BOOLEAN /\ t.done \in BOOLEAN /\ t.toolCalls \in Nat
         /\ v \in Views /\ v.tools \in Seq(Calls)
  BY DEF GoogleState, GoogleTranslators, Views

(* The calls of the client after a part. *)
LEMMA ToolPartAdded ==
  ASSUME NEW m, Wellformed(m), NEW t, t.toolCalls \in Nat, NEW v, v.tools \in Seq(Calls),
         NEW p \in PartSet(m), NEW tools, tools = AddTool(v.tools, ToolPart(p, t.toolCalls))
  PROVE  /\ tools \in Seq(Calls)
         /\ \A u, w : GoogleTools(m, t, v) /\ u.toolCalls = t.toolCalls + CallsIn(p)
                        /\ w.tools = tools => GoogleTools(m, u, w)
<1>1. /\ p.name \in 1 .. Len(m.blocks) /\ p.part.tool \in BOOLEAN /\ p.part.frags \in Seq(Nat)
      /\ p.part.tool => /\ m.blocks[p.name].kind = "tool_use"
                        /\ p.part.frags = m.blocks[p.name].frags
  BY PartTypes
<1>2. p.name \in Nat
  <2>1. Len(m.blocks) \in Nat
    BY BlockTypes
  <2> QED
    BY <1>1, <2>1
<1>3. CASE ~ p.part.tool
  <2>1. tools = v.tools
    BY <1>3, AddNoTool DEF ToolPart
  <2>2. CallsIn(p) = 0
    BY <1>3 DEF CallsIn
  <2>3. ASSUME NEW u, NEW w, GoogleTools(m, t, v), u.toolCalls = t.toolCalls + CallsIn(p),
               w.tools = tools
        PROVE  GoogleTools(m, u, w)
    <3>1. u.toolCalls = t.toolCalls
      BY <2>2, <2>3
    <3>2. w.tools = v.tools
      BY <2>1, <2>3
    <3> QED
      BY <2>3, <3>1, <3>2 DEF GoogleTools
  <2> QED
    BY <2>1, <2>3
<1>4. CASE p.part.tool
  <2> DEFINE c == ToolPart(p, t.toolCalls)
             calls == t.toolCalls
  <2>1. c = [index |-> calls, name |-> p.name, args |-> p.part.frags]
    BY <1>4 DEF ToolPart
  <2>2. c \in Calls /\ c.index = calls /\ c.name = p.name /\ c.args = p.part.frags
    BY <1>1, <1>2, <2>1 DEF Calls
  <2>3. tools \in Seq(Calls)
    BY <2>2, AddToolType
  <2>4. CallsIn(p) = 1
    BY <1>4 DEF CallsIn
  <2>5. ASSUME NEW u, NEW w, GoogleTools(m, t, v), u.toolCalls = t.toolCalls + CallsIn(p),
               w.tools = tools
        PROVE  GoogleTools(m, u, w)
    <3> DEFINE old == v.tools
               new == w.tools
    <3>1. /\ Len(old) = calls
          /\ \A i \in 1 .. calls :
                /\ old[i].index = i - 1 /\ old[i].name \in 1 .. Len(m.blocks)
                /\ m.blocks[old[i].name].kind = "tool_use"
                /\ old[i].args = m.blocks[old[i].name].frags
      BY <2>5 DEF GoogleTools
    <3>2. u.toolCalls = calls + 1
      BY <2>4, <2>5
    <3>7. calls \in Nat /\ old \in Seq(Calls)
      OBVIOUS
    <3> HIDE DEF c, calls
    <3>3. new = Append(old, c)
      <4>1. c = [index |-> Len(old), name |-> p.name, args |-> p.part.frags]
        BY <2>1, <3>1
      <4>2. AddTool(old, c) = Append(old, c)
        <5> HIDE DEF old
        <5> QED
          BY <1>1, <1>2, <3>7, <4>1, AddNewTool
      <4>3. new = AddTool(old, c)
        BY <2>5 DEF c
      <4> QED
        BY <4>2, <4>3
    <3> HIDE DEF old, new
    <3>4. /\ Len(new) = calls + 1 /\ new[calls + 1] = c
          /\ \A i \in 1 .. calls : new[i] = old[i]
      BY <2>2, <3>1, <3>3, <3>7
    <3>5. ASSUME NEW i \in 1 .. calls + 1
          PROVE  /\ new[i].index = i - 1 /\ new[i].name \in 1 .. Len(m.blocks)
                 /\ m.blocks[new[i].name].kind = "tool_use"
                 /\ new[i].args = m.blocks[new[i].name].frags
      <4>1. i \in 1 .. calls \/ i = calls + 1
        BY <3>7
      <4>2. CASE i \in 1 .. calls
        BY <3>1, <3>4, <4>2
      <4>3. CASE i = calls + 1
        <5>1. new[i] = c
          BY <3>4, <4>3
        <5>2. calls = i - 1
          BY <3>7, <4>3
        <5> QED
          BY <1>1, <1>4, <2>2, <5>1, <5>2
      <4> QED
        BY <4>1, <4>2, <4>3
    <3>6. \A i \in 1 .. u.toolCalls :
              /\ new[i].index = i - 1 /\ new[i].name \in 1 .. Len(m.blocks)
              /\ m.blocks[new[i].name].kind = "tool_use"
              /\ new[i].args = m.blocks[new[i].name].frags
      BY <3>2, <3>5
    <3> QED
      BY <3>2, <3>4, <3>6 DEF GoogleTools, new
  <2> QED
    BY <2>3, <2>5
<1> QED
  BY <1>1, <1>3, <1>4

(* The translator and the client after chunk k + 1 of n + 1. *)
Progress(m, k, n, u) ==
    /\ u \in GoogleTranslators(m) /\ u.sentRole = TRUE
    /\ u.lastUsage = GoogleChunks(m)[k + 1].usage /\ (u.done => k + 1 = n + 1)
    /\ ~ HasTools(m) => u.toolCalls = 0

Told(v, w, t, hanging, text, tools, finish) ==
    /\ hanging => w \in Views /\ w.roles = v.roles /\ w.lost
    /\ ~ hanging => Spoken(v, w, t, text, tools, finish)

Tells(m, k, t, u, v, w, errs, hanging) ==
    \E tools, finish :
       /\ finish \in Reasons
       /\ Told(v, w, t, hanging, GoogleTextOf(m)[k + 1], tools, finish)
       /\ ~ v.lost /\ w.tools = tools => GoogleTools(m, u, w)
       /\ errs = 0 => GoogleEnds(m, k + 1, v, finish, u.toolCalls)

(* The invariant of a Gemini stream is kept when the translator and the     *)
(* client progress so.                                                      *)
LEMMA GoogleStep ==
  ASSUME NEW m, Wellformed(m), NEW n \in Nat, n = Len(Parts(m)), NEW k \in Nat, k + 1 \in 1 .. n + 1,
         NEW t, NEW u, NEW v, NEW w, NEW errs \in Nat, NEW hanging \in BOOLEAN,
         GoogleState(m, k, t, v, errs), Progress(m, k, n, u), errs = 0 => ~ hanging,
         Tells(m, k, t, u, v, w, errs, hanging)
  PROVE  GoogleState(m, k + 1, u, w, errs)
<1>1. PICK tools, finish :
         /\ finish \in Reasons
         /\ Told(v, w, t, hanging, GoogleTextOf(m)[k + 1], tools, finish)
         /\ ~ v.lost /\ w.tools = tools => GoogleTools(m, u, w)
         /\ errs = 0 => GoogleEnds(m, k + 1, v, finish, u.toolCalls)
  BY DEF Tells
<1>2. /\ u \in GoogleTranslators(m) /\ u.sentRole = TRUE
      /\ u.lastUsage = GoogleChunks(m)[k + 1].usage /\ (u.done => k + 1 = n + 1)
      /\ ~ HasTools(m) => u.toolCalls = 0
  BY DEF Progress
<1>3. /\ hanging => w \in Views /\ w.roles = v.roles /\ w.lost
      /\ ~ hanging => Spoken(v, w, t, GoogleTextOf(m)[k + 1], tools, finish)
  BY <1>1 DEF Told
<1> QED
  BY <1>1, <1>2, <1>3, GoogleAdvance

(* The client progresses so. *)
LEMMA ToldTo ==
  ASSUME NEW v \in Views, NEW t, t.sentRole \in BOOLEAN, NEW text \in Seq(Nat), NEW tool,
         NEW finish \in Reasons, NEW tools \in Seq(Calls), tools = AddTool(v.tools, tool),
         NEW hanging \in BOOLEAN, NEW chunks, Speaks(chunks, t, text, tool, finish)
  PROVE  Told(v, Receive(v, hanging, chunks), t, hanging, text, tools, finish)
<1> DEFINE w == Receive(v, hanging, chunks)
<1>1. w = Receive(v, hanging, chunks)
  OBVIOUS
<1> HIDE DEF w
<1>2. /\ hanging => w \in Views /\ w.roles = v.roles /\ w.lost
      /\ ~ hanging => Spoken(v, w, t, text, tools, finish)
  BY <1>1, SpokenTo
<1> QED
  BY <1>1, <1>2 DEF Told

(* The translator progresses so after a part. *)
LEMMA PartProgress ==
  ASSUME NEW m, Wellformed(m), NEW n \in Nat, n = Len(Parts(m)), NEW k \in Nat, k + 1 \in 1 .. n,
         NEW t, NEW v, NEW errs, GoogleState(m, k, t, v, errs), NEW p \in PartSet(m),
         NEW e, e = GoogleChunks(m)[k + 1], NEW u, NEW chunks, PartTranslated(t, e, p, u, chunks)
  PROVE  Progress(m, k, n, u)
<1>1. /\ u.lastUsage = e.usage /\ u.sentRole = TRUE /\ u.done = t.done
      /\ IsTranslator(u) /\ u.toolCalls = t.toolCalls + CallsIn(p)
  BY DEF PartTranslated
<1>2. t.sentRole \in BOOLEAN /\ t.done \in BOOLEAN /\ t.toolCalls \in Nat
  BY GoogleBefore
<1>3. /\ CallsIn(p) \in 0 .. 1 /\ (p.part.tool => HasTools(m))
  BY PartTypes
<1>4. u.toolCalls \in Nat
  <2>1. CallsIn(p) \in Nat
    BY <1>3
  <2> QED
    BY <1>1, <1>2, <2>1
<1>5. u.sentRole \in BOOLEAN /\ u.done \in BOOLEAN
  BY <1>1, <1>2, Zenon
<1>6. PICK q \in 1 .. Len(GoogleChunks(m)) : q = k + 1
  BY ChunksLen
<1>7. u.lastUsage = GoogleChunks(m)[q].usage
  BY <1>1, <1>6
<1>8. IsTranslator(u)
  BY <1>1
<1>9. u \in GoogleTranslators(m)
  BY <1>4, <1>5, <1>7, <1>8, TranslatorType
<1>10. ~ HasTools(m) => u.toolCalls = 0
  <2>1. ~ HasTools(m) => t.toolCalls = 0
    BY DEF GoogleState
  <2>2. ~ HasTools(m) => CallsIn(p) = 0
    BY <1>3 DEF CallsIn
  <2> QED
    BY <1>1, <2>1, <2>2
<1>11. ~ u.done
  <2>1. t.done => k = n + 1
    BY ChunksLen DEF GoogleState
  <2>2. k # n + 1
    OBVIOUS
  <2> QED
    BY <1>1, <2>1, <2>2
<1> QED
  BY <1>1, <1>9, <1>10, <1>11 DEF Progress

(* The chunks of a part leave the reason open. *)
LEMMA PartOpen ==
  ASSUME NEW m, Wellformed(m), NEW n \in Nat, n = Len(Parts(m)), NEW k \in Nat, k + 1 \in 1 .. n,
         NEW t, NEW v, GooglePrefix(m, k, t, v), NEW calls
  PROVE  GoogleEnds(m, k + 1, v, "", calls)
<1>1. k < Len(GoogleChunks(m)) /\ k + 1 < Len(GoogleChunks(m))
  BY ChunksLen
<1>2. v.finish = ""
  BY <1>1 DEF GooglePrefix
<1> QED
  BY <1>1, <1>2 DEF GoogleEnds, GoogleFinish

(* And the client does. *)
LEMMA PartTells ==
  ASSUME NEW m, Wellformed(m), NEW n \in Nat, n = Len(Parts(m)), NEW k \in Nat, k + 1 \in 1 .. n,
         NEW t, NEW v, NEW errs \in Nat, GoogleState(m, k, t, v, errs),
         NEW p \in PartSet(m), p = Parts(m)[k + 1],
         NEW hanging \in BOOLEAN, NEW e, NEW u, NEW chunks, PartTranslated(t, e, p, u, chunks)
  PROVE  Tells(m, k, t, u, v, Receive(v, hanging, chunks), errs, hanging)
<1> DEFINE text == TextPart(p)
           tool == ToolPart(p, t.toolCalls)
           tools == AddTool(v.tools, tool)
           finish == ""
           w == Receive(v, hanging, chunks)
<1>1. t.sentRole \in BOOLEAN /\ t.toolCalls \in Nat /\ v \in Views /\ v.tools \in Seq(Calls)
  BY GoogleBefore
<1>2. text \in Seq(Nat)
  BY PartTypes
<1>3. u.toolCalls = t.toolCalls + CallsIn(p) /\ Speaks(chunks, t, text, tool, finish)
  BY DEF PartTranslated, PartSpoken
<1>4. tools = AddTool(v.tools, ToolPart(p, t.toolCalls))
  OBVIOUS
<1>5. finish \in Reasons
  BY DEF Reasons
<1>6. text = GoogleTextOf(m)[k + 1]
  BY ChunkText
<1>7. errs = 0 => GoogleEnds(m, k + 1, v, finish, u.toolCalls)
  BY PartOpen DEF GoogleState
<1>8. tools = AddTool(v.tools, tool)
  OBVIOUS
<1> HIDE DEF text, tool, tools, finish, w
<1>9. /\ tools \in Seq(Calls)
      /\ \A x, y : GoogleTools(m, t, v) /\ x.toolCalls = t.toolCalls + CallsIn(p)
                        /\ y.tools = tools => GoogleTools(m, x, y)
  BY <1>1, <1>4, ToolPartAdded
<1>10. ~ v.lost /\ w.tools = tools => GoogleTools(m, u, w)
  BY <1>3, <1>9 DEF GoogleState
<1>11. Told(v, w, t, hanging, text, tools, finish)
  <2>1. Told(v, Receive(v, hanging, chunks), t, hanging, text, tools, finish)
    <3>1. Speaks(chunks, t, text, tool, finish) /\ tools \in Seq(Calls)
      BY <1>3, <1>9
    <3> QED
      BY <1>1, <1>2, <1>5, <1>8, <3>1, ToldTo
  <2> QED
    BY <2>1 DEF w
<1>12. Told(v, w, t, hanging, GoogleTextOf(m)[k + 1], tools, finish)
  BY <1>6, <1>11
<1>13. Tells(m, k, t, u, v, w, errs, hanging)
  BY <1>5, <1>7, <1>10, <1>12, Zenon DEF Tells
<1> QED
  BY <1>13 DEF w

(* The invariant is kept by a chunk with a part. *)
LEMMA GoogleReadPart ==
  ASSUME NEW m, Wellformed(m), NEW n \in Nat, n = Len(Parts(m)), NEW k \in Nat, k + 1 \in 1 .. n,
         NEW t, NEW v, NEW errs \in Nat, GoogleState(m, k, t, v, errs),
         NEW hanging \in BOOLEAN, errs = 0 => ~ hanging,
         NEW e, e = GoogleChunks(m)[k + 1], NEW r, r = GoogleTranslate(t, e)
  PROVE  GoogleState(m, k + 1, r.t, Receive(v, hanging, r.chunks), errs)
<1> DEFINE p == Parts(m)[k + 1]
           w == Receive(v, hanging, r.chunks)
<1>0. k + 1 \in 1 .. n + 1 /\ k + 1 =< n
  OBVIOUS
<1>1. PartAt(m, e, k + 1)
  BY <1>0, ChunkShape
<1>2. OnlyPart(e, p) /\ p \in PartSet(m) /\ p = Parts(m)[k + 1]
  BY <1>1 DEF PartAt
<1> HIDE DEF p, w
<1>3. t.sentRole \in BOOLEAN /\ t.done \in BOOLEAN /\ t.toolCalls \in Nat
  BY GoogleBefore
<1>4. p.part.tool \in BOOLEAN
  BY <1>2, PartTypes
<1>5. PartTranslated(t, e, p, r.t, r.chunks)
  BY <1>2, <1>3, <1>4, TranslatePart
<1>6. Progress(m, k, n, r.t)
  BY <1>2, <1>5, PartProgress
<1>7. Tells(m, k, t, r.t, v, w, errs, hanging)
  BY <1>2, <1>5, PartTells DEF w
<1>8. GoogleState(m, k + 1, r.t, w, errs)
  BY <1>0, <1>6, <1>7, GoogleStep
<1> QED
  BY <1>8 DEF w

Stops(m) == m.stop # ""
AtLast(m, k, n) == n = Len(Parts(m)) /\ k = n

(* The translator progresses so after the last chunk. *)
LEMMA LastProgress ==
  ASSUME NEW m, Wellformed(m), NEW n \in Nat, NEW k \in Nat, AtLast(m, k, n),
         NEW t, NEW v, NEW errs, GoogleState(m, k, t, v, errs),
         NEW e, e = GoogleChunks(m)[k + 1], NEW u, NEW chunks, LastTranslated(t, e, u, chunks)
  PROVE  Progress(m, k, n, u)
<1>1. /\ u.lastUsage = e.usage /\ u.sentRole = TRUE /\ u.done = TRUE
      /\ IsTranslator(u) /\ u.toolCalls = t.toolCalls
  BY DEF LastTranslated
<1>2. t.toolCalls \in Nat
  BY GoogleBefore
<1>4. u.toolCalls \in Nat
  BY <1>1, <1>2
<1>5. u.sentRole \in BOOLEAN /\ u.done \in BOOLEAN
  BY <1>1, Zenon
<1>6. PICK q \in 1 .. Len(GoogleChunks(m)) : q = k + 1
  BY ChunksLen DEF AtLast
<1>7. u.lastUsage = GoogleChunks(m)[q].usage
  BY <1>1, <1>6
<1>8. IsTranslator(u)
  BY <1>1
<1>9. u \in GoogleTranslators(m)
  BY <1>4, <1>5, <1>7, <1>8, TranslatorType
<1>10. ~ HasTools(m) => u.toolCalls = 0
  BY <1>1 DEF GoogleState
<1>11. k + 1 = n + 1
  BY DEF AtLast
<1> QED
  BY <1>1, <1>9, <1>10, <1>11 DEF Progress

(* The last chunk brings the reason. *)
LEMMA LastCloses ==
  ASSUME NEW m, Wellformed(m), NEW n \in Nat, NEW k \in Nat, AtLast(m, k, n), NEW v, NEW calls
  PROVE  GoogleEnds(m, k + 1, v, finishReason(calls, m.stop), calls)
<1> DEFINE finish == finishReason(calls, m.stop)
<1>1. ~ (k + 1 < Len(GoogleChunks(m)))
  BY ChunksLen DEF AtLast
<1>2. finish # ""
  BY FinishReasonType
<1> QED
  BY <1>1, <1>2 DEF GoogleEnds, GoogleFinish

(* It brings no text. *)
LEMMA LastText ==
  ASSUME NEW m, Wellformed(m), NEW n \in Nat, NEW k \in Nat, AtLast(m, k, n)
  PROVE  GoogleTextOf(m)[k + 1] = <<>>
<1>1. n = Len(Parts(m)) /\ k + 1 \in 1 .. n + 1 /\ k + 1 = n + 1
  BY DEF AtLast
<1> QED
  BY <1>1, ChunkText

(* The client progresses so after it. *)
LEMMA LastTells ==
  ASSUME NEW m, Wellformed(m), NEW n \in Nat, NEW k \in Nat, AtLast(m, k, n),
         NEW t, NEW v, NEW errs \in Nat, GoogleState(m, k, t, v, errs),
         NEW hanging \in BOOLEAN, NEW e, e.finish = m.stop, NEW u, NEW chunks,
         LastTranslated(t, e, u, chunks)
  PROVE  Tells(m, k, t, u, v, Receive(v, hanging, chunks), errs, hanging)
<1> DEFINE text == <<>>
           tool == NoTool
           tools == v.tools
           finish == finishReason(t.toolCalls, m.stop)
           w == Receive(v, hanging, chunks)
<1>1. t.sentRole \in BOOLEAN /\ t.toolCalls \in Nat /\ v \in Views /\ v.tools \in Seq(Calls)
  BY GoogleBefore
<1>2. text \in Seq(Nat)
  OBVIOUS
<1>3. u.toolCalls = t.toolCalls /\ Speaks(chunks, t, text, tool, finish)
  BY DEF LastTranslated, ReasonSpoken
<1>4. tools = AddTool(v.tools, tool) /\ tools \in Seq(Calls)
  BY <1>1, AddNoTool
<1>5. finish \in Reasons
  BY FinishReasonType
<1>6. text = GoogleTextOf(m)[k + 1]
  BY LastText
<1>7. GoogleEnds(m, k + 1, v, finish, u.toolCalls)
  BY <1>3, LastCloses
<1>8. w.tools = tools => w.tools = v.tools
  OBVIOUS
<1> HIDE DEF text, tool, tools, finish, w
<1>10. ~ v.lost /\ w.tools = tools => GoogleTools(m, u, w)
  <2> SUFFICES ASSUME ~ v.lost, w.tools = tools PROVE GoogleTools(m, u, w)
    OBVIOUS
  <2>1. GoogleTools(m, t, v) /\ w.tools = v.tools
    BY <1>8 DEF GoogleState
  <2> QED
    BY <1>3, <2>1 DEF GoogleTools
<1>11. Told(v, w, t, hanging, text, tools, finish)
  <2>1. Told(v, Receive(v, hanging, chunks), t, hanging, text, tools, finish)
    BY <1>1, <1>2, <1>3, <1>4, <1>5, ToldTo
  <2> QED
    BY <2>1 DEF w
<1>12. Told(v, w, t, hanging, GoogleTextOf(m)[k + 1], tools, finish)
  BY <1>6, <1>11
<1>13. Tells(m, k, t, u, v, w, errs, hanging)
  BY <1>5, <1>7, <1>10, <1>12, Zenon DEF Tells
<1> QED
  BY <1>13 DEF w

(* The invariant is kept by the last chunk. *)
LEMMA GoogleReadLast ==
  ASSUME NEW m, Wellformed(m), Stops(m), NEW n \in Nat, NEW k \in Nat, AtLast(m, k, n),
         NEW t, NEW v, NEW errs \in Nat, GoogleState(m, k, t, v, errs),
         NEW hanging \in BOOLEAN, errs = 0 => ~ hanging,
         NEW e, e = GoogleChunks(m)[k + 1], NEW r, r = GoogleTranslate(t, e)
  PROVE  GoogleState(m, k + 1, r.t, Receive(v, hanging, r.chunks), errs)
<1> DEFINE w == Receive(v, hanging, r.chunks)
<1>0. k + 1 \in 1 .. n + 1 /\ k + 1 = n + 1 /\ n = Len(Parts(m))
  BY DEF AtLast
<1>1. LastAt(m, e)
  BY <1>0, ChunkShape
<1>2. OnlyReason(e) /\ e.finish = m.stop
  BY <1>1 DEF LastAt, OnlyReason, Stops
<1> HIDE DEF w
<1>3. t.sentRole \in BOOLEAN /\ t.done \in BOOLEAN /\ t.toolCalls \in Nat
  BY GoogleBefore
<1>5. LastTranslated(t, e, r.t, r.chunks)
  BY <1>2, <1>3, TranslateLast
<1>6. Progress(m, k, n, r.t)
  BY <1>5, LastProgress
<1>7. Tells(m, k, t, r.t, v, w, errs, hanging)
  BY <1>2, <1>5, LastTells DEF w
<1>9. k + 1 \in 1 .. n + 1 /\ n = Len(Parts(m))
  BY <1>0
<1>8. GoogleState(m, k + 1, r.t, w, errs)
  BY <1>6, <1>7, <1>9, GoogleStep
<1> QED
  BY <1>8 DEF w

(* The invariant of a Gemini stream is kept by a chunk. *)
LEMMA GoogleRead ==
  ASSUME NEW m, Wellformed(m), Stops(m), NEW k \in Nat, k + 1 \in 1 .. Len(GoogleChunks(m)),
         NEW t, NEW v, NEW errs \in Nat, GoogleState(m, k, t, v, errs),
         NEW hanging \in BOOLEAN, errs = 0 => ~ hanging,
         NEW r, r = GoogleTranslate(t, GoogleChunks(m)[k + 1])
  PROVE  GoogleState(m, k + 1, r.t, Receive(v, hanging, r.chunks), errs)
<1> DEFINE n == Len(Parts(m))
           e == GoogleChunks(m)[k + 1]
<1>1. n \in Nat /\ n = Len(Parts(m)) /\ k + 1 \in 1 .. n + 1
  BY ChunksLen
<1>2. e = GoogleChunks(m)[k + 1] /\ r = GoogleTranslate(t, e)
  OBVIOUS
<1> HIDE DEF n, e
<1>3. CASE k + 1 \in 1 .. n
  BY <1>1, <1>2, <1>3, GoogleReadPart
<1>4. CASE k = n
  <2>1. AtLast(m, k, n)
    BY <1>1, <1>4 DEF AtLast
  <2> QED
    BY <1>1, <1>2, <2>1, GoogleReadLast
<1>5. k + 1 \in 1 .. n \/ k = n
  BY <1>1
<1> QED
  BY <1>3, <1>4, <1>5

(* It is kept past a garbled chunk, which counts as an error. *)
LEMMA GoogleSkip ==
  ASSUME NEW m, Wellformed(m), NEW k \in Nat, k + 1 \in 1 .. Len(GoogleChunks(m)),
         NEW t, NEW v, NEW errs \in Nat, GoogleState(m, k, t, v, errs),
         NEW more \in Nat, more > 0
  PROVE  GoogleState(m, k + 1, t, v, more)
<1>1. Len(GoogleChunks(m)) \in Nat
  BY ChunksLen
<1>2. k # Len(GoogleChunks(m)) /\ more # 0
  BY <1>1
<1> QED
  BY <1>2 DEF GoogleState

(* It is kept by the trailers. *)
LEMMA GoogleEnd ==
  ASSUME NEW m, NEW k, NEW t, NEW v, NEW errs, GoogleState(m, k, t, v, errs),
         NEW trailers \in Seq(Closings), NEW w, w = [v EXCEPT !.trailers = trailers]
  PROVE  GoogleState(m, k, t, w, errs)
<1>1. v \in Views
  BY DEF GoogleState
<1>2. /\ w \in Views /\ w.roles = v.roles /\ w.text = v.text /\ w.tools = v.tools
      /\ w.finish = v.finish /\ w.lost = v.lost
  BY <1>1, TrailersFields
<1>3. GoogleTools(m, t, v) => GoogleTools(m, t, w)
  BY <1>2 DEF GoogleTools
<1>4. GooglePrefix(m, k, t, v) => GooglePrefix(m, k, t, w)
  BY <1>2 DEF GooglePrefix
<1>5. /\ t \in GoogleTranslators(m)
      /\ t.done => k = Len(GoogleChunks(m))
      /\ v.roles \in 0 .. 1 /\ (v.roles = 1 => t.sentRole)
      /\ ~ HasTools(m) => t.toolCalls = 0
      /\ ~ v.lost => GoogleTools(m, t, v)
      /\ errs = 0 => ~ v.lost /\ GooglePrefix(m, k, t, v)
  BY DEF GoogleState
<1> QED
  BY <1>2, <1>3, <1>4, <1>5 DEF GoogleState

(* It holds at the start. *)
LEMMA GoogleFresh ==
  ASSUME NEW m, Wellformed(m)
  PROVE  GoogleState(m, 0, NewGoogleStreamTranslator, EmptyView, 0)
<1> DEFINE t == NewGoogleStreamTranslator
           v == EmptyView
<1>1. t \in GoogleTranslators(m)
  <2> DEFINE L == {NoUsage} \cup {GoogleChunks(m)[x].usage : x \in 1 .. Len(GoogleChunks(m))}
  <2>1. NoUsage \in L
    OBVIOUS
  <2> HIDE DEF L
  <2>2. t \in [lastUsage : L, sentRole : BOOLEAN, toolCalls : Nat, done : BOOLEAN]
    BY <2>1 DEF NewGoogleStreamTranslator
  <2> QED
    BY <2>2 DEF GoogleTranslators, L
<1>2. t.toolCalls = 0 /\ t.sentRole = FALSE /\ ~ t.done
  BY DEF NewGoogleStreamTranslator
<1>3. v \in Views
  <2>1. <<>> \in Seq(Nat) /\ <<>> \in Seq(Calls) /\ <<>> \in Seq(Closings) /\ "" \in Reasons
    BY DEF Reasons
  <2> QED
    BY <2>1 DEF EmptyView, Views
<1>4. v.roles = 0 /\ v.text = <<>> /\ v.tools = <<>> /\ v.finish = "" /\ ~ v.lost
  BY DEF EmptyView
<1> HIDE DEF t, v
<1>5. Len(GoogleChunks(m)) \in Nat /\ Len(GoogleChunks(m)) > 0
  BY ChunksLen
<1>8. GoogleTools(m, t, v)
  <2>1. Len(v.tools) = t.toolCalls
    BY <1>2, <1>4
  <2>2. 1 .. t.toolCalls = {}
    BY <1>2
  <2> QED
    BY <2>1, <2>2 DEF GoogleTools
<1>9. GooglePrefix(m, 0, t, v)
  <2>1. GText(m, 0) = <<>>
    BY PrefixNone, FlattenEmpty, Zenon DEF GText
  <2>5. v.finish = (IF 0 < Len(GoogleChunks(m)) THEN "" ELSE finishReason(t.toolCalls, m.stop))
    BY <1>4, <1>5
  <2>6. v.roles = (IF 0 = 0 THEN 0 ELSE 1) /\ v.text = GText(m, 0)
    BY <1>4, <2>1
  <2>7. t.sentRole = (0 > 0)
    <3>1. (0 > 0) = FALSE
      OBVIOUS
    <3> QED
      BY <1>2, <3>1, Zenon
  <2>8. ASSUME NEW n, n = 0 PROVE GooglePrefix(m, n, t, v)
    <3>1. ~ (n > 0) /\ n < Len(GoogleChunks(m))
      BY <1>5, <2>8
    <3>2. v.roles = (IF n = 0 THEN 0 ELSE 1) /\ t.sentRole = (n > 0) /\ v.text = GText(m, n)
      BY <2>6, <2>7, <2>8
    <3>3. n > 0 => t.lastUsage = GoogleChunks(m)[n].usage
      BY <3>1
    <3>4. v.finish = (IF n < Len(GoogleChunks(m)) THEN "" ELSE finishReason(t.toolCalls, m.stop))
      BY <1>4, <3>1
    <3> QED
      BY <3>2, <3>3, <3>4, GooglePrefixIs, Zenon
  <2> QED
    BY <2>8
<1>10. v.roles \in 0 .. 1 /\ v.roles # 1
  <2>1. 0 \in 0 .. 1
    OBVIOUS
  <2>2. 0 # 1
    OBVIOUS
  <2> QED
    BY <1>4, <2>1, <2>2, Zenon
<1>11. GoogleState(m, 0, t, v, 0)
  BY <1>1, <1>2, <1>3, <1>4, <1>8, <1>9, <1>10 DEF GoogleState
<1> QED
  BY <1>11 DEF t, v

-------------------------------------------------------------------------------
(* The invariant of a stream of either provider. *)

(* What MessagesAssumption says of a message of either provider. *)
LEMMA StopsAll ==
  ASSUME NEW p \in {"anthropic", "google"}, NEW m \in Messages(p)
  PROVE  Wellformed(m) /\ Stops(m) /\ m.usage \in UsageBlocks(p)
  BY AnthropicWellformed DEF Stops

(* A sequence is one over its own elements. *)
LEMMA SelfTyped ==
  ASSUME NEW S, NEW s \in Seq(S)
  PROVE  s \in Seq(EventSet(s))
<1> DEFINE T == EventSet(s)
<1>1. \A i \in 1 .. Len(s) : s[i] \in T
  BY DEF EventSet
<1> HIDE DEF T
<1>2. Len(s) \in Nat /\ s = [i \in 1 .. Len(s) |-> s[i]]
  OBVIOUS
<1>3. s \in Seq(T)
  BY <1>1, <1>2
<1> QED
  BY <1>3 DEF T

(* So is an answer. *)
LEMMA EventsTyped ==
  ASSUME NEW p \in {"anthropic", "google"}, NEW m \in Messages(p),
         NEW events, events = EventsOf(p, m)
  PROVE  events \in Seq(EventSet(events))
<1>1. Wellformed(m)
  BY StopsAll
<1>2. CASE p = "anthropic"
  <2>1. events = AnthropicEvents(m)
    BY <1>2 DEF EventsOf
  <2>2. AnthropicEvents(m) \in Seq(AnthropicEventSet(m))
    BY <1>1, EventsPositions
  <2> QED
    BY <2>1, <2>2, SelfTyped
<1>3. CASE p = "google"
  <2>1. events = GoogleChunks(m)
    BY <1>3 DEF EventsOf
  <2> QED
    BY <1>1, <2>1, ChunksLen
<1> QED
  BY <1>2, <1>3

(* The invariant of a stream, whoever answers, holds at the start. *)
LEMMA StateFresh ==
  ASSUME NEW p \in {"anthropic", "google"}, NEW m \in Messages(p)
  PROVE  State(p, m, 0, NewTranslator(p), EmptyView, 0)
<1>1. Wellformed(m)
  BY StopsAll
<1>2. CASE p = "anthropic"
  <2>1. NewTranslator(p) = NewAnthropicStreamTranslator
    BY <1>2 DEF NewTranslator
  <2> QED
    BY <1>1, <1>2, <2>1, AnthropicFresh, Zenon DEF State
<1>3. CASE p = "google"
  <2>1. NewTranslator(p) = NewGoogleStreamTranslator /\ p # "anthropic"
    BY <1>3 DEF NewTranslator
  <2> QED
    BY <1>1, <2>1, GoogleFresh, Zenon DEF State
<1> QED
  BY <1>2, <1>3

(* It is kept by an event. *)
LEMMA StateRead ==
  ASSUME NEW p \in {"anthropic", "google"}, NEW m \in Messages(p), NEW k \in Nat,
         k + 1 \in 1 .. Len(EventsOf(p, m)), NEW t, NEW v, NEW errs \in Nat,
         NEW hanging \in BOOLEAN, errs = 0 => ~ hanging, State(p, m, k, t, v, errs),
         NEW r, r = Translate(p, t, EventsOf(p, m)[k + 1])
  PROVE  State(p, m, k + 1, r.t, Receive(v, hanging, r.chunks), errs)
<1>1. Wellformed(m) /\ Stops(m) /\ m.usage \in UsageBlocks(p)
  BY StopsAll
<1>2. CASE p = "anthropic"
  <2>1. /\ k + 1 \in 1 .. Len(AnthropicEvents(m)) /\ AnthropicState(m, k, t, v, errs)
        /\ r = AnthropicTranslate(t, AnthropicEvents(m)[k + 1])
        /\ m.usage \in UsageBlocks("anthropic")
    BY <1>1, <1>2 DEF EventsOf, State, Translate
  <2>2. AnthropicState(m, k + 1, r.t, Receive(v, hanging, r.chunks), errs)
    BY <1>1, <2>1, AnthropicRead
  <2> QED
    BY <1>2, <2>2, Zenon DEF State
<1>3. CASE p = "google"
  <2>1. p # "anthropic"
    BY <1>3
  <2>2. /\ k + 1 \in 1 .. Len(GoogleChunks(m)) /\ GoogleState(m, k, t, v, errs)
        /\ r = GoogleTranslate(t, GoogleChunks(m)[k + 1])
    BY <2>1 DEF EventsOf, State, Translate
  <2>3. GoogleState(m, k + 1, r.t, Receive(v, hanging, r.chunks), errs)
    BY <1>1, <2>2, GoogleRead
  <2> QED
    BY <2>1, <2>3, Zenon DEF State
<1> QED
  BY <1>2, <1>3

(* It is kept past a garbled event. *)
LEMMA StateSkip ==
  ASSUME NEW p \in {"anthropic", "google"}, NEW m \in Messages(p), NEW k \in Nat,
         k + 1 \in 1 .. Len(EventsOf(p, m)), NEW t, NEW v, NEW errs \in Nat,
         State(p, m, k, t, v, errs), NEW more \in Nat, more > 0
  PROVE  State(p, m, k + 1, t, v, more)
<1>1. Wellformed(m)
  BY StopsAll
<1>2. CASE p = "anthropic"
  <2>1. k + 1 \in 1 .. Len(AnthropicEvents(m)) /\ AnthropicState(m, k, t, v, errs)
    BY <1>2 DEF EventsOf, State
  <2>2. AnthropicState(m, k + 1, t, v, more)
    BY <1>1, <2>1, AnthropicSkip
  <2> QED
    BY <1>2, <2>2, Zenon DEF State
<1>3. CASE p = "google"
  <2>1. p # "anthropic"
    BY <1>3
  <2>2. k + 1 \in 1 .. Len(GoogleChunks(m)) /\ GoogleState(m, k, t, v, errs)
    BY <2>1 DEF EventsOf, State
  <2>3. GoogleState(m, k + 1, t, v, more)
    BY <1>1, <2>2, GoogleSkip
  <2> QED
    BY <2>1, <2>3, Zenon DEF State
<1> QED
  BY <1>2, <1>3

(* It is kept by the trailers. *)
LEMMA StateEnd ==
  ASSUME NEW p, NEW m, NEW k, NEW t, NEW v, NEW errs,
         State(p, m, k, t, v, errs), NEW trailers \in Seq(Closings)
  PROVE  State(p, m, k, t, [v EXCEPT !.trailers = trailers], errs)
<1> DEFINE w == [v EXCEPT !.trailers = trailers]
<1>1. w = [v EXCEPT !.trailers = trailers]
  OBVIOUS
<1> HIDE DEF w
<1>2. CASE p = "anthropic"
  <2>1. AnthropicState(m, k, t, w, errs)
    BY <1>1, <1>2, AnthropicEnd DEF State
  <2> QED
    BY <1>1, <1>2, <2>1, Zenon DEF State
<1>3. CASE p # "anthropic"
  <2>1. GoogleState(m, k, t, w, errs)
    BY <1>1, <1>3, GoogleEnd DEF State
  <2> QED
    BY <1>1, <1>3, <2>1, Zenon DEF State
<1> QED
  BY <1>2, <1>3

-------------------------------------------------------------------------------
(* The inductive invariant of the specification. *)

(* The invariant, with k events gone and g of a frame left. *)
ReadUpTo(k, g) ==
    /\ Left(Events, k, g, wire)
    /\ Budget(k, g, wire) + errors =< 2 * faults
    /\ translated \in Seq(EventSet(Events))
    /\ errors = 0 => translated = SubSeq(Events, 1, k) /\ ~ dangling
    /\ State(Provider, msg, k, translator, view, errors)

StreamInv ==
    /\ creq \in ClientRequests /\ msg \in Messages(Provider)
    /\ ending \in {"eof", "error"} /\ dangling \in BOOLEAN /\ ended \in BOOLEAN
    /\ faults \in 0 .. MaxFaults /\ errors \in Nat
    /\ sent = NotSent => /\ wire = <<>> /\ translated = <<>> /\ ~ dangling
                         /\ translator = NewTranslator(Provider) /\ view = EmptyView
                         /\ errors = 0 /\ faults = 0
    /\ \E k \in Nat, g \in 0 .. 1 : ReadUpTo(k, g)

(* Before the request is sent there are no lines. *)
LEMMA NothingLeft ==
  ASSUME NEW events, Len(events) \in Nat
  PROVE  Left(events, 0, 0, <<>>) /\ Budget(0, 0, <<>>) = 0
<1>1. Garbled(0, 0, <<>>) = {}
  BY DEF Garbled
<1>2. LinesLeft(events, 0, 0, <<>>)
  BY DEF LinesLeft
<1> QED
  BY <1>1, <1>2, BudgetNone DEF Left

(* When the answer comes all of its lines are left. *)
LEMMA BodyLeft ==
  ASSUME NEW S, NEW events \in Seq(S)
  PROVE  Left(events, 0, 0, LinesOf(events)) /\ Budget(0, 0, LinesOf(events)) = 0
<1>1. LinesLeft(events, 0, 0, LinesOf(events)) /\ Garbled(0, 0, LinesOf(events)) = {}
  BY BodyWhole
<1>2. Len(events) \in Nat
  OBVIOUS
<1> QED
  BY <1>1, <1>2, BudgetNone DEF Left

(* A request goes to one of the two translating adapters. *)
LEMMA ProviderIs ==
  ASSUME creq \in ClientRequests
  PROVE  Provider \in {"anthropic", "google"}
  BY RequestsAssumption DEF Provider

(* The invariant holds initially. *)
LEMMA StreamInit == Init => StreamInv
<1> SUFFICES ASSUME Init PROVE StreamInv
  OBVIOUS
<1>1. creq \in ClientRequests /\ msg \in Messages(Provider) /\ Provider \in {"anthropic", "google"}
  BY ProviderIs DEF Init, Provider
<1>2. Events \in Seq(EventSet(Events))
  BY <1>1, EventsTyped DEF Events
<1>3. Len(Events) \in Nat /\ <<>> \in Seq(EventSet(Events)) /\ SubSeq(Events, 1, 0) = <<>>
  BY <1>2
<1>4. State(Provider, msg, 0, translator, view, 0)
  BY <1>1, StateFresh DEF Init, Provider
<1>5. Left(Events, 0, 0, wire) /\ Budget(0, 0, wire) = 0
  BY <1>3, NothingLeft DEF Init
<1>6. ReadUpTo(0, 0)
  BY <1>3, <1>4, <1>5 DEF Init, ReadUpTo
<1>7. /\ ending \in {"eof", "error"} /\ dangling \in BOOLEAN /\ ended \in BOOLEAN
      /\ faults \in 0 .. MaxFaults /\ errors \in Nat
  <2>1. ending = "eof" /\ dangling = FALSE /\ ended = FALSE /\ faults = 0 /\ errors = 0
    BY DEF Init
  <2>2. 0 \in 0 .. MaxFaults
    BY MaxFaultsAssumption
  <2> QED
    BY <2>1, <2>2
<1>8. sent = NotSent => /\ wire = <<>> /\ translated = <<>> /\ ~ dangling
                        /\ translator = NewTranslator(Provider) /\ view = EmptyView
                        /\ errors = 0 /\ faults = 0
  BY DEF Init, Provider
<1> QED
  BY <1>1, <1>6, <1>7, <1>8 DEF StreamInv

(* A request that was sent or refused is not one that was not sent. *)
LEMMA SendDecides ==
  ASSUME Send PROVE sent' # NotSent /\ sent' # sent /\ ended' \in BOOLEAN
<1>1. sent' = TranslateRequest(creq) /\ sent = NotSent
  BY DEF Send
<1>2. "refused" \in DOMAIN sent' /\ ("why" \in DOMAIN sent' \/ "turns" \in DOMAIN sent')
      /\ sent'.refused \in BOOLEAN
  BY <1>1 DEF TranslateRequest, TranslateAnthropicRequest, TranslateGoogleRequest, Refused
<1>3. "why" \notin DOMAIN NotSent /\ "turns" \notin DOMAIN NotSent
  BY DEF NotSent
<1> QED
  BY <1>1, <1>2, <1>3 DEF Send

(* It is kept by the request. *)
LEMMA StreamSend ==
  ASSUME StreamInv, Send PROVE StreamInv'
<1>1. /\ creq \in ClientRequests /\ msg \in Messages(Provider)
      /\ ending \in {"eof", "error"} /\ dangling \in BOOLEAN
      /\ faults \in 0 .. MaxFaults /\ errors \in Nat
      /\ translated = <<>> /\ ~ dangling
      /\ translator = NewTranslator(Provider) /\ view = EmptyView
      /\ errors = 0 /\ faults = 0
  BY DEF StreamInv, Send
<1>2. Provider \in {"anthropic", "google"}
  BY <1>1, ProviderIs
<1>3. Events \in Seq(EventSet(Events))
  BY <1>1, <1>2, EventsTyped DEF Events
<1>4. Len(Events) \in Nat /\ <<>> \in Seq(EventSet(Events)) /\ SubSeq(Events, 1, 0) = <<>>
  BY <1>3
<1>5. State(Provider, msg, 0, translator, view, 0)
  BY <1>1, <1>2, StateFresh
<1>6. Left(Events, 0, 0, wire') /\ Budget(0, 0, wire') = 0
  <2>1. Left(Events, 0, 0, <<>>) /\ Budget(0, 0, <<>>) = 0
    BY <1>4, NothingLeft
  <2>2. Left(Events, 0, 0, LinesOf(Events)) /\ Budget(0, 0, LinesOf(Events)) = 0
    BY <1>3, BodyLeft
  <2>3. wire' = <<>> \/ wire' = LinesOf(Events)
    BY DEF Send, Events
  <2> QED
    BY <2>1, <2>2, <2>3
<1>7. /\ creq' = creq /\ msg' = msg /\ ending' = ending /\ translator' = translator
      /\ view' = view /\ dangling' = dangling /\ translated' = translated /\ errors' = errors
      /\ faults' = faults /\ Provider' = Provider /\ Events' = Events
  BY DEF Send, Events, Provider
<1>8. ReadUpTo(0, 0)'
  BY <1>1, <1>4, <1>5, <1>6, <1>7 DEF ReadUpTo
<1>9. sent' # NotSent /\ ended' \in BOOLEAN
  BY SendDecides
<1> QED
  BY <1>1, <1>7, <1>8, <1>9 DEF StreamInv

(* It is kept by a fault that damages the body. *)
LEMMA StreamDamaged ==
  ASSUME StreamInv, NEW d, NEW lines, NEW how \in {"eof", "error"}, Fault(lines, how),
         Damaged(wire, lines, d),
         wire \in Seq(LineSet(Events)) => lines \in Seq(LineSet(Events))
  PROVE  StreamInv'
<1>1. PICK k \in Nat, g \in 0 .. 1 : ReadUpTo(k, g)
  BY DEF StreamInv
<1>2. /\ Left(Events, k, g, wire) /\ Budget(k, g, wire) + errors =< 2 * faults
      /\ translated \in Seq(EventSet(Events))
      /\ errors = 0 => translated = SubSeq(Events, 1, k) /\ ~ dangling
      /\ State(Provider, msg, k, translator, view, errors)
  BY <1>1 DEF ReadUpTo
<1>3. wire \in Seq(LineSet(Events)) /\ Len(wire) \in Nat
  BY <1>2 DEF Left, LinesLeft
<1>4. Left(Events, k, g, lines)
  BY <1>2, <1>3, DamagedLeft
<1>5. /\ Budget(k, g, wire) \in Nat /\ Budget(k, g, lines) \in Nat
      /\ Budget(k, g, lines) =< Budget(k, g, wire) + 2
  BY <1>3, DamagedBudget
<1>6. /\ wire # <<>> /\ faults < MaxFaults
      /\ wire' = lines /\ ending' = how /\ faults' = faults + 1
      /\ creq' = creq /\ sent' = sent /\ msg' = msg /\ translator' = translator
      /\ view' = view /\ dangling' = dangling /\ translated' = translated
      /\ errors' = errors /\ ended' = ended /\ Provider' = Provider /\ Events' = Events
  BY DEF Fault, Unread, Provider, Events
<1>7. /\ creq \in ClientRequests /\ msg \in Messages(Provider)
      /\ dangling \in BOOLEAN /\ ended \in BOOLEAN
      /\ faults \in 0 .. MaxFaults /\ errors \in Nat /\ sent # NotSent
  BY <1>6 DEF StreamInv
<1>8. Budget(k, g, lines) + errors =< 2 * (faults + 1)
  BY <1>2, <1>5, <1>7
<1>9. ReadUpTo(k, g)'
  BY <1>2, <1>4, <1>6, <1>8 DEF ReadUpTo
<1>10. faults + 1 \in 0 .. MaxFaults
  BY <1>6, <1>7, MaxFaultsAssumption
<1> QED
  BY <1>6, <1>7, <1>9, <1>10 DEF StreamInv

(* It is kept by each of the faults. *)
LEMMA StreamFault ==
  ASSUME StreamInv, NEW i \in DOMAIN wire,
         (\E huge \in BOOLEAN : Garble(i, huge)) \/ EndEarly(i) \/ Break(i)
  PROVE  StreamInv'
<1>1. PICK k \in Nat, g \in 0 .. 1 : ReadUpTo(k, g)
  BY DEF StreamInv
<1>2. wire \in Seq(LineSet(Events))
  BY <1>1 DEF ReadUpTo, Left, LinesLeft
<1>3. i \in 1 .. Len(wire)
  BY <1>2
<1>4. ending \in {"eof", "error"} /\ "eof" \in {"eof", "error"} /\ "error" \in {"eof", "error"}
  BY DEF StreamInv
<1>5. SubSeq(wire, 1, i) \in Seq(LineSet(Events)) /\ Damaged(wire, SubSeq(wire, 1, i), 0)
  BY <1>2, <1>3, CutDamages
<1>6. ASSUME NEW huge \in BOOLEAN, Garble(i, huge) PROVE StreamInv'
  <2> DEFINE new == [wire EXCEPT ![i].whole = FALSE, ![i].huge = huge]
  <2>1. wire[i].kind = "data" /\ Fault(new, ending)
    BY <1>6 DEF Garble
  <2>2. new \in Seq(LineSet(Events)) /\ Damaged(wire, new, i)
    BY <1>2, <1>3, <2>1, GarbleDamages
  <2> HIDE DEF new
  <2> QED
    BY <1>4, <2>1, <2>2, StreamDamaged
<1>7. ASSUME EndEarly(i) PROVE StreamInv'
  BY <1>4, <1>5, <1>7, StreamDamaged DEF EndEarly
<1>8. ASSUME Break(i) PROVE StreamInv'
  <2>1. CASE Fault(SubSeq(wire, 1, i), "error")
    BY <1>4, <1>5, <2>1, StreamDamaged
  <2>2. CASE wire[i].kind = "data" /\ Fault([SubSeq(wire, 1, i) EXCEPT ![i].whole = FALSE], "error")
    <3> DEFINE new == [SubSeq(wire, 1, i) EXCEPT ![i].whole = FALSE]
    <3>1. new \in Seq(LineSet(Events)) /\ Damaged(wire, new, i)
      BY <1>2, <1>3, <2>2, BreakDamages
    <3> HIDE DEF new
    <3>2. Fault(new, "error")
      BY <2>2 DEF new
    <3> QED
      BY <1>4, <3>1, <3>2, StreamDamaged
  <2> QED
    BY <1>8, <2>1, <2>2 DEF Break
<1> QED
  BY <1>6, <1>7, <1>8

(* The event a frame carries, if its line came whole. *)
LEMMA FrameDataIs ==
  ASSUME NEW frame, NEW d, Data(frame) = {d}
  PROVE  /\ frame[d].whole => FrameData(frame) = {frame[d].event}
         /\ ~ frame[d].whole => FrameData(frame) = {}
  BY DEF FrameData

(* A frame without a data line has no data. *)
LEMMA NoFrameData ==
  ASSUME NEW frame, Data(frame) = {}
  PROVE  FrameData(frame) = {}
  BY DEF FrameData

(* What ReadFrame does with the lines that are left. *)
ReadEvent(e) ==
    LET r == Translate(Provider, translator, e)
    IN  /\ translator' = r.t
        /\ view' = Receive(view, dangling, r.chunks)
        /\ dangling' = (dangling /\ r.chunks = <<>>)
        /\ translated' = Append(translated, e)
        /\ errors' = errors

ReadGarbled(frame) ==
    /\ \E n \in 1 .. 2 : errors' = errors + n
    /\ dangling' = (Last(frame) # Blank)
    /\ UNCHANGED <<translator, view, translated>>

(* ReadFrame skips a frame without data, reports one that is garbled, and   *)
(* translates the next event of the answer otherwise.                       *)
LEMMA ReadFrameCases ==
  ASSUME NEW k \in Nat, NEW g \in 0 .. 1, Left(Events, k, g, wire), ReadFrame
  PROVE  /\ wire # <<>> /\ wire' = Rest(wire)
         /\ Len(wire) < 2 + g => UNCHANGED <<translator, view, dangling, translated, errors>>
         /\ 2 + g =< Len(wire) /\ wire[2 + g].whole => ReadEvent(Events[k + 1])
         /\ 2 + g =< Len(wire) /\ ~ wire[2 + g].whole => ReadGarbled(Frame(wire))
<1> DEFINE frame == Frame(wire)
           data == FrameData(frame)
<1>1. wire # <<>> /\ wire' = Rest(wire)
  BY DEF ReadFrame, Rest
<1>2. \/ /\ Data(frame) = {}
         /\ UNCHANGED <<translator, view, dangling, translated, errors>>
      \/ /\ Data(frame) # {} /\ data = {} /\ ReadGarbled(frame)
      \/ \E e \in data : ReadEvent(e)
  <2>1. \/ /\ Data(frame) = {}
           /\ UNCHANGED <<translator, view, dangling, translated, errors>>
        \/ /\ Data(frame) # {} /\ data = {}
           /\ errors' = errors + (IF \E i \in Data(frame) : frame[i].huge THEN 2 ELSE 1)
           /\ dangling' = (Last(frame) # Blank)
           /\ UNCHANGED <<translator, view, translated>>
        \/ \E e \in data : ReadEvent(e)
    BY DEF ReadFrame, Frame, ReadEvent
  <2> QED
    BY <2>1 DEF ReadGarbled
<1> HIDE DEF frame, data
<1>3. ASSUME Len(wire) < 2 + g PROVE Data(frame) = {}
  BY <1>1, <1>3, FrameWithoutData DEF frame
<1>4. ASSUME 2 + g =< Len(wire)
      PROVE  /\ Data(frame) = {2 + g} /\ SameAt(frame, wire, 2 + g)
             /\ IsData(wire[2 + g], Events[k + 1])
  BY <1>4, FrameWithData DEF frame
<1>5. ASSUME Len(wire) < 2 + g PROVE UNCHANGED <<translator, view, dangling, translated, errors>>
  <2>1. Data(frame) = {} /\ data = {}
    BY <1>3, <1>5, NoFrameData DEF data
  <2> QED
    BY <1>2, <2>1
<1>6. ASSUME 2 + g =< Len(wire), wire[2 + g].whole PROVE ReadEvent(Events[k + 1])
  <2>1. frame[2 + g] = wire[2 + g] /\ wire[2 + g].event = Events[k + 1]
    BY <1>4, <1>6 DEF SameAt, IsData
  <2>2. frame[2 + g].whole /\ frame[2 + g].event = Events[k + 1]
    BY <1>6, <2>1
  <2>3. Data(frame) = {2 + g}
    BY <1>4, <1>6
  <2>4. data = {frame[2 + g].event}
    BY <2>2, <2>3, FrameDataIs DEF data
  <2> QED
    BY <1>2, <2>2, <2>3, <2>4
<1>7. ASSUME 2 + g =< Len(wire), ~ wire[2 + g].whole PROVE ReadGarbled(frame)
  <2>1. frame[2 + g] = wire[2 + g]
    BY <1>4, <1>7 DEF SameAt
  <2>2. ~ frame[2 + g].whole
    BY <1>7, <2>1
  <2>3. Data(frame) = {2 + g}
    BY <1>4, <1>7
  <2>4. data = {}
    BY <2>2, <2>3, FrameDataIs DEF data
  <2> QED
    BY <1>2, <2>3, <2>4
<1> QED
  BY <1>1, <1>5, <1>6, <1>7 DEF frame

(* The invariant is kept by a frame without data. *)
LEMMA StreamReadNone ==
  ASSUME StreamInv, ReadFrame, NEW k \in Nat, NEW g \in 0 .. 1, ReadUpTo(k, g),
         Len(wire) < 2 + g
  PROVE  ReadUpTo(k, g)' /\ dangling' \in BOOLEAN /\ errors' \in Nat
<1>1. /\ Left(Events, k, g, wire) /\ Budget(k, g, wire) + errors =< 2 * faults
      /\ translated \in Seq(EventSet(Events))
      /\ errors = 0 => translated = SubSeq(Events, 1, k) /\ ~ dangling
      /\ State(Provider, msg, k, translator, view, errors)
  BY DEF ReadUpTo
<1>2. Len(wire) \in Nat
  BY <1>1 DEF Left, LinesLeft
<1>3. /\ wire # <<>> /\ wire' = Rest(wire)
      /\ UNCHANGED <<translator, view, dangling, translated, errors>>
  BY <1>1, ReadFrameCases
<1>4. UNCHANGED <<creq, sent, msg, ending, faults, ended>> /\ Provider' = Provider /\ Events' = Events
  BY DEF ReadFrame, Provider, Events
<1>5. Rest(wire) = <<>> /\ Left(Events, k, g, <<>>) /\ Garbled(k, g, <<>>) = {}
  BY <1>1, <1>3, FrameWithoutData
<1>6. Budget(k, g, <<>>) = 0
  BY <1>5, BudgetNone
<1>7. Budget(k, g, wire) \in Nat /\ faults \in Nat /\ errors \in Nat /\ dangling \in BOOLEAN
  <2>1. Cardinality(Garbled(k, g, wire)) \in Nat
    BY <1>2, GarbledFinite
  <2>2. Budget(k, g, wire) \in Nat
    BY <2>1 DEF Budget
  <2> QED
    BY <2>2, MaxFaultsAssumption DEF StreamInv
<1>8. 0 + errors =< 2 * faults
  BY <1>1, <1>7
<1> QED
  BY <1>1, <1>3, <1>4, <1>5, <1>6, <1>7, <1>8 DEF ReadUpTo

(* It is kept by a frame with data, garbled or not. *)
LEMMA StreamReadEvent ==
  ASSUME StreamInv, ReadFrame, NEW k \in Nat, NEW g \in 0 .. 1, ReadUpTo(k, g),
         2 + g =< Len(wire)
  PROVE  (\E h \in 0 .. 1 : ReadUpTo(k + 1, h)') /\ dangling' \in BOOLEAN /\ errors' \in Nat
<1>1. /\ Left(Events, k, g, wire) /\ Budget(k, g, wire) + errors =< 2 * faults
      /\ translated \in Seq(EventSet(Events))
      /\ errors = 0 => translated = SubSeq(Events, 1, k) /\ ~ dangling
      /\ State(Provider, msg, k, translator, view, errors)
  BY DEF ReadUpTo
<1>2. Len(wire) \in Nat
  BY <1>1 DEF Left, LinesLeft
<1>3. /\ wire' = Rest(wire)
      /\ wire[2 + g].whole => ReadEvent(Events[k + 1])
      /\ ~ wire[2 + g].whole => ReadGarbled(Frame(wire))
  BY <1>1, ReadFrameCases
<1>4. UNCHANGED <<creq, sent, msg, ending, faults, ended>> /\ Provider' = Provider /\ Events' = Events
  BY DEF ReadFrame, Provider, Events
<1>5. k + 1 \in 1 .. Len(Events)
  BY <1>1, FrameWithData
<1>6. PICK h \in 0 .. 1 :
               /\ Left(Events, k + 1, h, Rest(wire))
               /\ (Last(Frame(wire)) = Blank) <=> (h = 0)
               /\ Garbled(k + 1, h, Rest(wire)) \subseteq Garbled(k, g, wire) \ {3 * k + 2}
  BY <1>1, FrameWithData
<1>7. ~ wire[2 + g].whole => 3 * k + 2 \in Garbled(k, g, wire)
  BY <1>1, FrameWithData
<1>8. Len(Rest(wire)) \in Nat
  BY <1>6 DEF Left, LinesLeft
<1>9. Fewer(Garbled(k + 1, h, Rest(wire)), Garbled(k, g, wire), 3 * k + 2)
  BY <1>6 DEF Fewer
<1>10. /\ Budget(k, g, wire) \in Nat /\ Budget(k + 1, h, Rest(wire)) \in Nat
       /\ Budget(k + 1, h, Rest(wire)) =< Budget(k, g, wire)
       /\ 3 * k + 2 \in Garbled(k, g, wire)
            => Budget(k + 1, h, Rest(wire)) + 2 =< Budget(k, g, wire)
  <2>1. k + 1 \in Nat
    OBVIOUS
  <2> QED
    BY <1>2, <1>8, <1>9, <2>1, BudgetRead
<1>11. /\ creq \in ClientRequests /\ msg \in Messages(Provider) /\ dangling \in BOOLEAN
       /\ faults \in Nat /\ errors \in Nat /\ Provider \in {"anthropic", "google"}
  BY ProviderIs, MaxFaultsAssumption DEF StreamInv
<1>12. Events \in Seq(EventSet(Events)) /\ Events[k + 1] \in EventSet(Events)
  <2>1. Events \in Seq(EventSet(Events))
    BY <1>11, EventsTyped DEF Events
  <2>2. Events[k + 1] \in EventSet(Events)
    BY <1>5 DEF EventSet
  <2> QED
    BY <2>1, <2>2
<1>13. ASSUME wire[2 + g].whole
       PROVE  ReadUpTo(k + 1, h)' /\ dangling' \in BOOLEAN /\ errors' \in Nat
  <2> DEFINE r == Translate(Provider, translator, Events[k + 1])
  <2>1. /\ translator' = r.t /\ view' = Receive(view, dangling, r.chunks)
        /\ dangling' = (dangling /\ r.chunks = <<>>)
        /\ translated' = Append(translated, Events[k + 1])
        /\ errors' = errors
    BY <1>3, <1>13 DEF ReadEvent
  <2>2. State(Provider, msg, k + 1, r.t, Receive(view, dangling, r.chunks), errors)
    BY <1>1, <1>5, <1>11, StateRead DEF Events
  <2> HIDE DEF r
  <2>3. dangling' \in BOOLEAN /\ errors' \in Nat /\ (errors' = 0 => ~ dangling')
    BY <1>1, <1>11, <2>1
  <2>4. translated' \in Seq(EventSet(Events))
    BY <1>1, <1>12, <2>1
  <2>5. errors' = 0 => translated' = SubSeq(Events, 1, k + 1)
    <3>1. SubSeq(Events, 1, k + 1) = Append(SubSeq(Events, 1, k), Events[k + 1])
      BY <1>5, <1>12, PrefixGrows
    <3> QED
      BY <1>1, <2>1, <3>1
  <2>6. Budget(k + 1, h, wire') + errors' =< 2 * faults
    BY <1>1, <1>3, <1>10, <1>11, <2>1
  <2> QED
    BY <1>3, <1>4, <1>6, <2>1, <2>2, <2>3, <2>4, <2>5, <2>6 DEF ReadUpTo
<1>14. ASSUME ~ wire[2 + g].whole
       PROVE  ReadUpTo(k + 1, h)' /\ dangling' \in BOOLEAN /\ errors' \in Nat
  <2>1. ReadGarbled(Frame(wire))
    BY <1>3, <1>14
  <2>2. PICK n \in 1 .. 2 : errors' = errors + n
    BY <2>1 DEF ReadGarbled
  <2>3. /\ dangling' \in BOOLEAN
        /\ translator' = translator /\ view' = view /\ translated' = translated
    BY <2>1 DEF ReadGarbled
  <2>4. errors' \in Nat /\ errors' > 0
    BY <1>11, <2>2
  <2>5. State(Provider, msg, k + 1, translator, view, errors')
    BY <1>1, <1>5, <1>11, <2>4, StateSkip DEF Events
  <2>6. Budget(k + 1, h, wire') + errors' =< 2 * faults
    <3>1. Budget(k + 1, h, Rest(wire)) + 2 =< Budget(k, g, wire)
      BY <1>7, <1>10, <1>14
    <3> QED
      BY <1>1, <1>3, <1>10, <1>11, <2>2, <3>1
  <2> QED
    BY <1>1, <1>3, <1>4, <1>6, <2>3, <2>4, <2>5, <2>6 DEF ReadUpTo
<1> QED
  BY <1>13, <1>14

(* It is kept by ReadFrame. *)
LEMMA StreamReadFrame ==
  ASSUME StreamInv, ReadFrame PROVE StreamInv'
<1>1. PICK k \in Nat, g \in 0 .. 1 : ReadUpTo(k, g)
  BY DEF StreamInv
<1>2. Len(wire) \in Nat
  BY <1>1 DEF ReadUpTo, Left, LinesLeft
<1>3. (\E n \in Nat, h \in 0 .. 1 : ReadUpTo(n, h)') /\ dangling' \in BOOLEAN /\ errors' \in Nat
  <2>1. CASE Len(wire) < 2 + g
    BY <1>1, <2>1, StreamReadNone
  <2>2. CASE 2 + g =< Len(wire)
    <3>1. k + 1 \in Nat
      OBVIOUS
    <3> QED
      BY <1>1, <2>2, <3>1, StreamReadEvent
  <2> QED
    BY <1>2, <2>1, <2>2
<1>4. /\ UNCHANGED <<creq, sent, msg, ending, faults, ended>> /\ Provider' = Provider
      /\ sent # NotSent
  BY DEF ReadFrame, Provider, StreamInv
<1> QED
  BY <1>3, <1>4 DEF StreamInv

(* The sequences the trailers are made of. *)
LEMMA ShortSeqs ==
  ASSUME NEW S, NEW a \in S, NEW b \in S
  PROVE  /\ <<a, b>> \in Seq(S) /\ <<a>> \o <<b>> \in Seq(S) /\ <<>> \o <<b>> \in Seq(S)
         /\ Tail(<<a, b>>) \in Seq(S) /\ Tail(<<a>> \o <<b>>) \in Seq(S)
         /\ Tail(<<>> \o <<b>>) \in Seq(S)
<1>1. <<a, b>> \in Seq(S) /\ <<a>> \in Seq(S) /\ <<b>> \in Seq(S) /\ <<>> \in Seq(S)
  OBVIOUS
<1>2. /\ <<a>> \o <<b>> \in Seq(S) /\ Len(<<a>> \o <<b>>) = 2
      /\ <<>> \o <<b>> \in Seq(S) /\ Len(<<>> \o <<b>>) = 1
  BY <1>1, ConcatProperties
<1>3. /\ <<a>> \o <<b>> # <<>> /\ <<>> \o <<b>> # <<>>
  BY <1>2
<1>4. \A s \in Seq(S) : s # <<>> => Tail(s) \in Seq(S)
  OBVIOUS
<1> QED
  BY <1>1, <1>2, <1>3, <1>4

(* The trailers are a sequence of closing chunks. *)
LEMMA TrailersType ==
  (IF dangling THEN Tail(Trailers) ELSE Trailers) \in Seq(Closings)
<1>1. Trailers \in {<<"error", "done">>, <<"usage">> \o <<"done">>, <<>> \o <<"done">>}
  BY DEF Trailers
<1>2. Trailers \in Seq(Closings) /\ Tail(Trailers) \in Seq(Closings)
  <2>1. "error" \in Closings /\ "done" \in Closings /\ "usage" \in Closings
    BY DEF Closings
  <2>2. CASE Trailers = <<"error", "done">>
    BY <2>1, <2>2, ShortSeqs, Zenon
  <2>3. CASE Trailers = <<"usage">> \o <<"done">>
    BY <2>1, <2>3, ShortSeqs, Zenon
  <2>4. CASE Trailers = <<>> \o <<"done">>
    BY <2>1, <2>4, ShortSeqs, Zenon
  <2> QED
    BY <1>1, <2>2, <2>3, <2>4
<1> QED
  BY <1>2

(* The invariant is kept by the end of the body. *)
LEMMA StreamEnd ==
  ASSUME StreamInv, End PROVE StreamInv'
<1>1. PICK k \in Nat, g \in 0 .. 1 : ReadUpTo(k, g)
  BY DEF StreamInv
<1>2. /\ Left(Events, k, g, wire) /\ Budget(k, g, wire) + errors =< 2 * faults
      /\ translated \in Seq(EventSet(Events))
      /\ errors = 0 => translated = SubSeq(Events, 1, k) /\ ~ dangling
      /\ State(Provider, msg, k, translator, view, errors)
  BY <1>1 DEF ReadUpTo
<1> DEFINE tr == IF dangling THEN Tail(Trailers) ELSE Trailers
<1>3. /\ sent # NotSent /\ ended' = TRUE /\ view' = [view EXCEPT !.trailers = tr]
      /\ dangling' = FALSE /\ Provider' = Provider /\ Events' = Events
      /\ UNCHANGED <<creq, sent, msg, wire, ending, translator, translated, errors, faults>>
  BY DEF End, Provider, Events
<1>4. tr \in Seq(Closings)
  BY TrailersType
<1> HIDE DEF tr
<1>5. State(Provider, msg, k, translator, view', errors)
  BY <1>2, <1>3, <1>4, StateEnd
<1>6. ReadUpTo(k, g)'
  BY <1>2, <1>3, <1>5 DEF ReadUpTo
<1> QED
  BY <1>3, <1>6 DEF StreamInv

(* It is kept by every step. *)
LEMMA StreamStep == StreamInv /\ [Next]_vars => StreamInv'
<1> SUFFICES ASSUME StreamInv, [Next]_vars PROVE StreamInv'
  OBVIOUS
<1>1. CASE Send
  BY <1>1, StreamSend
<1>2. CASE \E i \in DOMAIN wire :
              (\E huge \in BOOLEAN : Garble(i, huge)) \/ EndEarly(i) \/ Break(i)
  BY <1>2, StreamFault
<1>3. CASE ReadFrame
  BY <1>3, StreamReadFrame
<1>4. CASE End
  BY <1>4, StreamEnd
<1>5. CASE UNCHANGED vars
  BY <1>5 DEF vars, StreamInv, ReadUpTo, Events, Provider
<1> QED
  BY <1>1, <1>2, <1>3, <1>4, <1>5 DEF Next

(* The inductive invariant of a stream holds throughout, for every message, *)
(* every number of faults and every place they strike: FrameReader, the     *)
(* translators and the client stay in step with the answer.                 *)
THEOREM StreamInvariant == Spec => []StreamInv
  BY StreamInit, StreamStep, PTL DEF Spec

-------------------------------------------------------------------------------
(* What follows from it: framing and types. *)

(* Appending an element, or putting it before the rest. *)
LEMMA AppendConcat ==
  ASSUME NEW S, NEW s \in Seq(S), NEW e \in S, NEW u \in Seq(S)
  PROVE  Append(s, e) \o u = s \o (<<e>> \o u)
<1>1. Append(s, e) = s \o <<e>> /\ <<e>> \in Seq(S)
  BY AppendIsConcat
<1> QED
  BY <1>1, ConcatAssociative

(* Reading a frame moves its event from the intact ones to the translated   *)
(* ones.                                                                    *)
LEMMA FramingStep ==
  ASSUME StreamInv, ReadFrame
  PROVE  translated' \o Intact(wire') = translated \o Intact(wire)
<1>1. PICK k \in Nat, g \in 0 .. 1 : ReadUpTo(k, g)
  BY DEF StreamInv
<1>2. Left(Events, k, g, wire) /\ translated \in Seq(EventSet(Events))
  BY <1>1 DEF ReadUpTo
<1>3. Len(wire) \in Nat
  BY <1>2 DEF Left, LinesLeft
<1>4. /\ wire # <<>> /\ wire' = Rest(wire)
      /\ Len(wire) < 2 + g => UNCHANGED <<translator, view, dangling, translated, errors>>
      /\ 2 + g =< Len(wire) /\ wire[2 + g].whole => ReadEvent(Events[k + 1])
      /\ 2 + g =< Len(wire) /\ ~ wire[2 + g].whole => ReadGarbled(Frame(wire))
  BY <1>2, ReadFrameCases
<1>5. CASE Len(wire) < 2 + g
  <2>1. Rest(wire) = <<>>
    BY <1>2, <1>4, <1>5, FrameWithoutData
  <2>2. Intact(wire) = <<>> /\ Intact(<<>>) = <<>>
    BY <1>2, <1>4, <1>5, IntactNone
  <2> QED
    BY <1>4, <1>5, <2>1, <2>2
<1>6. CASE 2 + g =< Len(wire)
  <2>1. k + 1 \in 1 .. Len(Events)
    BY <1>2, <1>6, FrameWithData
  <2>2. Events[k + 1] \in EventSet(Events)
    BY <2>1 DEF EventSet
  <2>3. Intact(Rest(wire)) \in Seq(EventSet(Events))
    BY <1>2, <1>6, IntactRead
  <2>4. CASE wire[2 + g].whole
    <3>1. Intact(wire) = <<Events[k + 1]>> \o Intact(Rest(wire))
      BY <1>2, <1>6, <2>4, IntactRead
    <3>2. translated' = Append(translated, Events[k + 1])
      BY <1>4, <1>6, <2>4 DEF ReadEvent
    <3>3. Append(translated, Events[k + 1]) \o Intact(Rest(wire))
            = translated \o (<<Events[k + 1]>> \o Intact(Rest(wire)))
      BY <1>2, <2>2, <2>3, AppendConcat
    <3> QED
      BY <1>4, <3>1, <3>2, <3>3
  <2>5. CASE ~ wire[2 + g].whole
    <3>1. Intact(wire) = Intact(Rest(wire))
      BY <1>2, <1>6, <2>5, IntactRead
    <3>2. translated' = translated
      BY <1>4, <1>6, <2>5 DEF ReadGarbled
    <3> QED
      BY <1>4, <3>1, <3>2
  <2> QED
    BY <2>4, <2>5
<1> QED
  BY <1>3, <1>5, <1>6

(* FrameReader.Next loses, repeats and reorders no event whose line came    *)
(* whole, for every answer, with every cut, garbled or oversized line.      *)
THEOREM FramingKeeps == Spec => FramingKeepsEvents
<1> DEFINE Keeps == translated' \o Intact(wire') = translated \o Intact(wire)
<1>1. StreamInv /\ [Next]_vars => [faults' = faults /\ sent' = sent => Keeps]_vars
  <2> SUFFICES ASSUME StreamInv, Next, faults' = faults, sent' = sent PROVE Keeps
    OBVIOUS
  <2>1. ~ Send
    BY SendDecides
  <2>2. ASSUME NEW i \in DOMAIN wire PROVE /\ \A huge \in BOOLEAN : ~ Garble(i, huge)
                                           /\ ~ EndEarly(i) /\ ~ Break(i)
    <3>1. faults \in Nat
      BY MaxFaultsAssumption DEF StreamInv
    <3>2. faults + 1 # faults
      BY <3>1
    <3> QED
      BY <3>2 DEF Garble, EndEarly, Break, Fault
  <2>3. CASE ReadFrame
    BY <2>3, FramingStep
  <2>4. CASE End
    BY <2>4 DEF End
  <2> QED
    BY <2>1, <2>2, <2>3, <2>4 DEF Next
<1> QED
  BY <1>1, StreamInvariant, PTL DEF Spec, FramingKeepsEvents

(* The client has been told the role at most once. *)
LEMMA StateRoles ==
  ASSUME NEW p, NEW m, NEW k, NEW t, NEW v, NEW errs, State(p, m, k, t, v, errs)
  PROVE  v.roles \in 0 .. 1
  BY DEF State, AnthropicState, GoogleState

(* The state keeps its shape, errors are at most two for each fault         *)
(* (renderFrame and the oversized line count one each), and the role goes   *)
(* out at most once.                                                        *)
THEOREM TranslationTypes == Spec => []TypeOK
<1>1. StreamInv => TypeOK
  <2> SUFFICES ASSUME StreamInv PROVE TypeOK
    OBVIOUS
  <2>1. PICK k \in Nat, g \in 0 .. 1 : ReadUpTo(k, g)
    BY DEF StreamInv
  <2>2. /\ Left(Events, k, g, wire) /\ Budget(k, g, wire) + errors =< 2 * faults
        /\ State(Provider, msg, k, translator, view, errors)
    BY <2>1 DEF ReadUpTo
  <2>3. Len(wire) \in Nat
    BY <2>2 DEF Left, LinesLeft
  <2>4. Budget(k, g, wire) \in Nat
    <3>1. Cardinality(Garbled(k, g, wire)) \in Nat
      BY <2>3, GarbledFinite
    <3> QED
      BY <3>1 DEF Budget
  <2>5. faults \in 0 .. MaxFaults /\ errors \in Nat
    BY DEF StreamInv
  <2>6. errors \in 0 .. 2 * MaxFaults
    BY <2>2, <2>4, <2>5, MaxFaultsAssumption
  <2>7. view.roles \in 0 .. 1
    BY <2>2, StateRoles
  <2> QED
    BY <2>5, <2>6, <2>7 DEF StreamInv, TypeOK
<1> QED
  BY <1>1, StreamInvariant, PTL

-------------------------------------------------------------------------------
(* The tool calls. *)

(* What ToolCallsWellFormed says of call i of a client. *)
CallWellFormed(m, tools, i) ==
    LET t == tools[i]
    IN  /\ t.index = i - 1
        /\ t.name \in DOMAIN m.blocks /\ m.blocks[t.name].kind = "tool_use"
        /\ \A j \in DOMAIN t.args :
              /\ \E k \in DOMAIN m.blocks[t.name].frags :
                    m.blocks[t.name].frags[k] = t.args[j]
              /\ j > 1 => t.args[j - 1] < t.args[j]

(* The blocks of a message are numbered from 1. *)
LEMMA BlocksDomain ==
  ASSUME NEW m, Wellformed(m)
  PROVE  DOMAIN m.blocks = 1 .. Len(m.blocks)
<1> DEFINE B == [kind : STRING, frags : Seq(Nat)]
           s == m.blocks
<1>1. s \in Seq(B)
  BY DEF Wellformed
<1> HIDE DEF B, s
<1>2. DOMAIN s = 1 .. Len(s)
  BY <1>1
<1> QED
  BY <1>2 DEF s

(* The calls of a client of Anthropic that lost no chunk. *)
LEMMA AnthropicCalls ==
  ASSUME NEW m, Wellformed(m), NEW k, NEW t, NEW v, NEW errs, AnthropicState(m, k, t, v, errs),
         ~ v.lost, NEW i \in DOMAIN v.tools
  PROVE  CallWellFormed(m, v.tools, i)
<1>1. /\ t \in AnthropicTranslators(m) /\ v \in Views /\ AnthropicTable(m, k, t)
      /\ AnthropicTools(m, k, t, v)
  BY DEF AnthropicState
<1>2. v.tools \in Seq(Calls) /\ Len(v.tools) = t.nextTool
  BY <1>1 DEF Views, AnthropicTools
<1>3. i \in 1 .. t.nextTool
  BY <1>2
<1>4. /\ v.tools[i].index = i - 1 /\ v.tools[i].name = t.toolIndex[i][1]
      /\ OwnArgs(m, k, v.tools[i].args, t.toolIndex[i][1])
  BY <1>1, <1>3 DEF AnthropicTools
<1>5. Len(t.toolIndex) = t.nextTool /\ m.blocks[t.toolIndex[i][1]].kind = "tool_use"
  BY <1>1, <1>3 DEF AnthropicTable
<1>6. t.toolIndex[i] \in (1 .. Len(m.blocks)) \X Nat
  <2>1. t.toolIndex \in Seq((1 .. Len(m.blocks)) \X Nat)
    BY <1>1 DEF AnthropicTranslators
  <2> DEFINE P == (1 .. Len(m.blocks)) \X Nat
  <2> HIDE DEF P
  <2>2. t.toolIndex[i] \in P
    <3>1. t.toolIndex \in Seq(P)
      BY <2>1 DEF P
    <3> QED
      BY <1>3, <1>5, <3>1
  <2> QED
    BY <2>2 DEF P
<1> DEFINE b == t.toolIndex[i][1]
           c == v.tools[i]
<1>7. b \in 1 .. Len(m.blocks)
  BY <1>6
<1>8. /\ c.index = i - 1 /\ c.name = b /\ OwnArgs(m, k, c.args, b)
      /\ m.blocks[b].kind = "tool_use" /\ c \in Calls
  BY <1>2, <1>3, <1>4, <1>5
<1>9. /\ DOMAIN m.blocks = 1 .. Len(m.blocks) /\ m.blocks[b].frags \in Seq(Nat)
  BY <1>7, BlocksDomain, BlockTypes
<1> HIDE DEF b
<1>10. c.args \in Seq(Nat)
  <2> HIDE DEF c
  <2> QED
    BY <1>8 DEF Calls
<1>11. ASSUME NEW j \in DOMAIN c.args
       PROVE  /\ \E l \in DOMAIN m.blocks[b].frags : m.blocks[b].frags[l] = c.args[j]
              /\ j > 1 => c.args[j - 1] < c.args[j]
  <2>1. j \in 1 .. Len(c.args) /\ DOMAIN m.blocks[b].frags = 1 .. Len(m.blocks[b].frags)
    BY <1>9, <1>10
  <2> HIDE DEF c
  <2>2. OwnArgs(m, k, c.args, b)
    BY <1>8
  <2> QED
    BY <2>1, <2>2 DEF OwnArgs
<1>12. CallWellFormed(m, v.tools, i)
  BY <1>7, <1>8, <1>9, <1>11 DEF CallWellFormed
<1> QED
  BY <1>12

(* The calls of a client of Gemini that lost no chunk. *)
LEMMA GoogleCalls ==
  ASSUME NEW m, Wellformed(m), NEW k, NEW t, NEW v, NEW errs, GoogleState(m, k, t, v, errs),
         ~ v.lost, NEW i \in DOMAIN v.tools
  PROVE  CallWellFormed(m, v.tools, i)
<1>1. t \in GoogleTranslators(m) /\ v \in Views /\ GoogleTools(m, t, v)
  BY DEF GoogleState
<1>2. v.tools \in Seq(Calls) /\ Len(v.tools) = t.toolCalls
  BY <1>1 DEF Views, GoogleTools
<1>3. i \in 1 .. t.toolCalls
  BY <1>2
<1> DEFINE c == v.tools[i]
           b == c.name
           f == m.blocks[b].frags
<1>4. /\ c.index = i - 1 /\ b \in 1 .. Len(m.blocks) /\ m.blocks[b].kind = "tool_use"
      /\ c.args = f
  BY <1>1, <1>3 DEF GoogleTools
<1>5. /\ DOMAIN m.blocks = 1 .. Len(m.blocks) /\ f \in Seq(Nat)
  BY <1>4, BlocksDomain, BlockTypes
<1>6. \A j, l \in 1 .. Len(f) : j < l => f[j] < f[l]
  BY <1>4 DEF Wellformed
<1> HIDE DEF f
<1>7. ASSUME NEW j \in DOMAIN f
      PROVE  /\ \E l \in DOMAIN f : f[l] = f[j]
             /\ j > 1 => f[j - 1] < f[j]
  <2>1. j \in 1 .. Len(f)
    BY <1>5
  <2>2. ASSUME j > 1 PROVE f[j - 1] < f[j]
    <3>1. j - 1 \in 1 .. Len(f) /\ j - 1 < j
      BY <1>5, <2>1, <2>2
    <3> QED
      BY <1>6, <2>1, <3>1
  <2> QED
    BY <2>1, <2>2
<1> QED
  BY <1>4, <1>5, <1>7 DEF CallWellFormed, f

(* The tool calls of a client that lost no chunk have dense indexes, the    *)
(* name of their block, and fragments of their own block in order, for      *)
(* every message and all faults: neither translator mixes two calls.        *)
THEOREM CallsWellFormed == Spec => []ToolCallsWellFormed
<1>1. StreamInv => ToolCallsWellFormed
  <2> SUFFICES ASSUME StreamInv, ~ view.lost
               PROVE  \A i \in DOMAIN view.tools : CallWellFormed(msg, view.tools, i)
    BY DEF ToolCallsWellFormed, CallWellFormed
  <2>1. PICK k \in Nat, g \in 0 .. 1 : ReadUpTo(k, g)
    BY DEF StreamInv
  <2>2. /\ State(Provider, msg, k, translator, view, errors)
        /\ Provider \in {"anthropic", "google"} /\ msg \in Messages(Provider)
    BY <2>1, ProviderIs DEF ReadUpTo, StreamInv
  <2>3. Wellformed(msg)
    BY <2>2, StopsAll
  <2>4. CASE Provider = "anthropic"
    BY <2>2, <2>3, <2>4, AnthropicCalls DEF State
  <2>5. CASE Provider # "anthropic"
    BY <2>2, <2>3, <2>5, GoogleCalls DEF State
  <2> QED
    BY <2>4, <2>5
<1> QED
  BY <1>1, StreamInvariant, PTL

-------------------------------------------------------------------------------
(* The meter. *)

(* The tokens a stream is billed for. *)
BillableKinds == {k \in AllKinds : Billable(k)}
Counted(f) == f \in [AllKinds -> Nat]

(* The billed total, class by class. *)
LEMMA BilledIs ==
  ASSUME NEW f, Counted(f)
  PROVE  Total(BillableKinds, f) =
           f["input"] + f["output"] + f["cached_read"] + f["cache_write_5m"]
             + f["cache_write_1h"] + f["audio_input"] + f["audio_output"]
<1> DEFINE S1 == {"input"}
           S2 == S1 \cup {"output"}
           S3 == S2 \cup {"cached_read"}
           S4 == S3 \cup {"cache_write_5m"}
           S5 == S4 \cup {"cache_write_1h"}
           S6 == S5 \cup {"audio_input"}
           S7 == S6 \cup {"audio_output"}
<1>1. S7 = BillableKinds
  BY DEF BillableKinds, AllKinds, Billable
<1>2. /\ "output" \notin S1 /\ "cached_read" \notin S2 /\ "cache_write_5m" \notin S3
      /\ "cache_write_1h" \notin S4 /\ "audio_input" \notin S5 /\ "audio_output" \notin S6
  OBVIOUS
<1>3. \A k \in S7 : f[k] \in Nat
  BY DEF Counted, AllKinds
<1>4. /\ f["input"] \in Nat /\ f["output"] \in Nat /\ f["cached_read"] \in Nat
      /\ f["cache_write_5m"] \in Nat /\ f["cache_write_1h"] \in Nat
      /\ f["audio_input"] \in Nat /\ f["audio_output"] \in Nat
  BY <1>3
<1>5. S1 \subseteq S7 /\ S2 \subseteq S7 /\ S3 \subseteq S7 /\ S4 \subseteq S7
      /\ S5 \subseteq S7 /\ S6 \subseteq S7
  OBVIOUS
<1>6. /\ IsFiniteSet(S1) /\ IsFiniteSet(S2) /\ IsFiniteSet(S3) /\ IsFiniteSet(S4)
      /\ IsFiniteSet(S5) /\ IsFiniteSet(S6) /\ IsFiniteSet(S7)
  <2>1. IsFiniteSet(S1)
    BY FS_Singleton
  <2> HIDE DEF S1
  <2>2. IsFiniteSet(S2)
    BY <2>1, FS_AddElement
  <2> HIDE DEF S2
  <2>3. IsFiniteSet(S3)
    BY <2>2, FS_AddElement
  <2> HIDE DEF S3
  <2>4. IsFiniteSet(S4)
    BY <2>3, FS_AddElement
  <2> HIDE DEF S4
  <2>5. IsFiniteSet(S5)
    BY <2>4, FS_AddElement
  <2> HIDE DEF S5
  <2>6. IsFiniteSet(S6)
    BY <2>5, FS_AddElement
  <2> HIDE DEF S6
  <2>7. IsFiniteSet(S7)
    BY <2>6, FS_AddElement
  <2> QED
    BY <2>1, <2>2, <2>3, <2>4, <2>5, <2>6, <2>7
<1>11. Total(S1, f) = f["input"]
  BY <1>4, TotalSingleton
<1> HIDE DEF S1
<1>12. Total(S2, f) = Total(S1, f) + f["output"]
  BY <1>2, <1>3, <1>5, <1>6, TotalAdd
<1> HIDE DEF S2
<1>13. Total(S3, f) = Total(S2, f) + f["cached_read"]
  BY <1>2, <1>3, <1>5, <1>6, TotalAdd
<1> HIDE DEF S3
<1>14. Total(S4, f) = Total(S3, f) + f["cache_write_5m"]
  BY <1>2, <1>3, <1>5, <1>6, TotalAdd
<1> HIDE DEF S4
<1>15. Total(S5, f) = Total(S4, f) + f["cache_write_1h"]
  BY <1>2, <1>3, <1>5, <1>6, TotalAdd
<1> HIDE DEF S5
<1>16. Total(S6, f) = Total(S5, f) + f["audio_input"]
  BY <1>2, <1>3, <1>5, <1>6, TotalAdd
<1> HIDE DEF S6
<1>17. Total(S7, f) = Total(S6, f) + f["audio_output"]
  BY <1>2, <1>3, <1>6, TotalAdd
<1> HIDE DEF S7
<1> QED
  BY <1>1, <1>4, <1>11, <1>12, <1>13, <1>14, <1>15, <1>16, <1>17

(* Division rounds down. *)
LEMMA DivisionBelow ==
  ASSUME NEW a \in Nat, NEW d \in Nat, d > 0
  PROVE  a \div d \in Nat /\ d * (a \div d) =< a /\ a < d * (a \div d) + d
  OBVIOUS

(* A share of a count is at most the count. *)
LEMMA ShareBelow ==
  ASSUME NEW c \in Nat, NEW q \in Nat, NEW d \in Nat, d > 0, q =< d
  PROVE  (c * q) \div d \in Nat /\ (c * q) \div d =< c
<1> DEFINE x == (c * q) \div d
<1>1. c * q \in Nat /\ c * q =< c * d
  OBVIOUS
<1>2. x \in Nat /\ d * x =< c * q
  BY <1>1, DivisionBelow
<1> HIDE DEF x
<1>3. d * x =< c * d /\ c * d = d * c
  BY <1>1, <1>2
<1>4. ASSUME x > c PROVE FALSE
  <2>1. x >= c + 1
    BY <1>2, <1>4
  <2>2. d * x >= d * (c + 1)
    BY <1>2, <2>1
  <2>3. d * (c + 1) = d * c + d
    OBVIOUS
  <2> QED
    BY <1>2, <1>3, <2>2, <2>3
<1> QED
  BY <1>2, <1>4 DEF x

(* The whole share is the count. *)
LEMMA WholeShare ==
  ASSUME NEW c \in Nat, NEW d \in Nat, d > 0
  PROVE  (c * d) \div d = c
  OBVIOUS

(* Clamped counts are not negative. *)
LEMMA ClampedCounts ==
  ASSUME NEW raw \in [AllKinds -> Int], NEW d, NEW c, c = clampNegative(raw, d).counts
  PROVE  Counted(c) /\ \A k \in AllKinds : c[k] = AtLeastZero(raw[k])
<1> DEFINE n == [k \in DOMAIN raw |-> IF raw[k] < 0 THEN 0 ELSE raw[k]]
           x == d \/ \E k \in DOMAIN raw : raw[k] < 0
<1>1. n \in [AllKinds -> Nat] /\ \A k \in AllKinds : n[k] = AtLeastZero(raw[k])
  BY DEF AtLeastZero
<1>2. clampNegative(raw, d) = [counts |-> n, degraded |-> x]
  BY DEF clampNegative, Normalised
<1> HIDE DEF n, x
<1>3. c = n
  BY <1>2
<1> QED
  BY <1>1, <1>3 DEF Counted

(* The counts of the three meters, class by class. *)
Classes(c, input, cached, w5, w1, output) ==
    /\ Counted(c)
    /\ c["input"] = input /\ c["cached_read"] = cached /\ c["cache_write_5m"] = w5
    /\ c["cache_write_1h"] = w1 /\ c["output"] = output
    /\ c["audio_input"] = 0 /\ c["audio_output"] = 0

(* The billed total of such counts. *)
LEMMA ClassesSum ==
  ASSUME NEW c, NEW input, NEW cached, NEW w5, NEW w1, NEW output,
         Classes(c, input, cached, w5, w1, output)
  PROVE  /\ input \in Nat /\ cached \in Nat /\ w5 \in Nat /\ w1 \in Nat /\ output \in Nat
         /\ Total(BillableKinds, c) = input + cached + w5 + w1 + output
<1>1. /\ c["input"] = input /\ c["cached_read"] = cached /\ c["cache_write_5m"] = w5
      /\ c["cache_write_1h"] = w1 /\ c["output"] = output
      /\ c["audio_input"] = 0 /\ c["audio_output"] = 0 /\ Counted(c)
  BY DEF Classes
<1>2. /\ c["input"] \in Nat /\ c["cached_read"] \in Nat /\ c["cache_write_5m"] \in Nat
      /\ c["cache_write_1h"] \in Nat /\ c["output"] \in Nat
  BY <1>1 DEF Counted, AllKinds
<1>3. Total(BillableKinds, c) =
           c["input"] + c["output"] + c["cached_read"] + c["cache_write_5m"]
             + c["cache_write_1h"] + c["audio_input"] + c["audio_output"]
  BY <1>1, BilledIs
<1> QED
  BY <1>1, <1>2, <1>3

(* The classes of the Anthropic stream meter. *)
LEMMA AnthropicStreamClasses ==
  ASSUME NEW u \in UsageBlocks("anthropic"), NEW c, c = AnthropicStreamCounts(u)
  PROVE  Classes(c, AtLeastZero(u.inputTokens), AtLeastZero(u.cacheReadTokens),
                 AtLeastZero(u.cacheCreationTokens), 0, AtLeastZero(u.outputTokens))
<1>1. /\ u.inputTokens \in Int /\ u.cacheReadTokens \in Int /\ u.cacheCreationTokens \in Int
      /\ u.outputTokens \in Int
  BY DEF UsageBlocks
<1>2. /\ AtLeastZero(u.inputTokens) \in Nat /\ AtLeastZero(u.cacheReadTokens) \in Nat
      /\ AtLeastZero(u.cacheCreationTokens) \in Nat /\ AtLeastZero(u.outputTokens) \in Nat
  BY <1>1 DEF AtLeastZero
<1> QED
  BY <1>2 DEF AnthropicStreamCounts, NoCounts, AllKinds, Classes, Counted

(* The classes of a block of Anthropic's, read in one piece. *)
Kept(u) ==
    /\ u.cacheCreation # NoDetails
    /\ \/ u.cacheCreationTokens = 0
       \/ u.cacheCreation.ephemeral5m + u.cacheCreation.ephemeral1h = u.cacheCreationTokens
Write5m(u) ==
    IF Kept(u) THEN u.cacheCreation.ephemeral5m
    ELSE IF u.cacheCreation # NoDetails \/ u.cacheCreationTokens > 0 THEN u.cacheCreationTokens
    ELSE 0
Write1h(u) == IF Kept(u) THEN u.cacheCreation.ephemeral1h ELSE 0

(* The cache writes of the two lifetimes add up to the total. *)
LEMMA WritesAddUp ==
  ASSUME NEW u \in UsageBlocks("anthropic"),
         u.cacheCreation # NoDetails
            => u.cacheCreation \in [ephemeral5m : Nat, ephemeral1h : Nat]
  PROVE  /\ Write5m(u) \in Int /\ Write1h(u) \in Int
         /\ AtLeastZero(Write5m(u)) + AtLeastZero(Write1h(u)) = AtLeastZero(u.cacheCreationTokens)
<1>1. /\ u.cacheCreationTokens \in Int
      /\ u.cacheCreation # NoDetails /\ u.cacheCreationTokens = 0
            => u.cacheCreation.ephemeral5m + u.cacheCreation.ephemeral1h = 0
  BY DEF UsageBlocks
<1>2. CASE u.cacheCreation # NoDetails
  <2>1. u.cacheCreation.ephemeral5m \in Nat /\ u.cacheCreation.ephemeral1h \in Nat
    BY <1>2
  <2> QED
    BY <1>1, <1>2, <2>1 DEF Kept, Write5m, Write1h, AtLeastZero
<1>3. CASE u.cacheCreation = NoDetails
  BY <1>1, <1>3 DEF Kept, Write5m, Write1h, AtLeastZero
<1> QED
  BY <1>2, <1>3

(* The classes of the Anthropic meter of a whole response. *)
LEMMA AnthropicWholeClasses ==
  ASSUME NEW u \in UsageBlocks("anthropic"), Write5m(u) \in Int, Write1h(u) \in Int,
         NEW c, c = NormaliseAnthropic(u).counts
  PROVE  Classes(c, AtLeastZero(u.inputTokens), AtLeastZero(u.cacheReadTokens),
                 AtLeastZero(Write5m(u)), AtLeastZero(Write1h(u)), AtLeastZero(u.outputTokens))
<1> DEFINE split     == u.cacheCreation.ephemeral5m + u.cacheCreation.ephemeral1h
           hasSplit  == u.cacheCreation # NoDetails
           mismatch  == hasSplit /\ u.cacheCreationTokens # 0 /\ split # u.cacheCreationTokens
           unsplit   == ~ hasSplit /\ u.cacheCreationTokens > 0
           keepSplit == hasSplit /\ ~ mismatch
           w5 == IF keepSplit THEN u.cacheCreation.ephemeral5m
                 ELSE IF mismatch \/ unsplit THEN u.cacheCreationTokens ELSE 0
           w1 == IF keepSplit THEN u.cacheCreation.ephemeral1h ELSE 0
           raw == [NoCounts EXCEPT !["input"] = u.inputTokens,
                                   !["cached_read"] = u.cacheReadTokens,
                                   !["output"] = u.outputTokens,
                                   !["cache_write_5m"] = w5, !["cache_write_1h"] = w1]
           d == mismatch \/ unsplit
<1>1. NormaliseAnthropic(u) = clampNegative(raw, d)
  BY DEF NormaliseAnthropic
<1>2. w5 = Write5m(u) /\ w1 = Write1h(u)
  <2>1. keepSplit <=> Kept(u)
    BY DEF Kept
  <2>2. ~ keepSplit => ((mismatch \/ unsplit) <=> (hasSplit \/ u.cacheCreationTokens > 0))
    OBVIOUS
  <2> HIDE DEF keepSplit, mismatch, unsplit
  <2> QED
    BY <2>1, <2>2 DEF Write5m, Write1h
<1>3. u.inputTokens \in Int /\ u.cacheReadTokens \in Int /\ u.outputTokens \in Int
  BY DEF UsageBlocks
<1>4. w5 \in Int /\ w1 \in Int
  BY <1>2
<1> HIDE DEF w5, w1, d
<1>5. /\ raw \in [AllKinds -> Int] /\ raw["input"] = u.inputTokens
      /\ raw["cached_read"] = u.cacheReadTokens /\ raw["cache_write_5m"] = w5
      /\ raw["cache_write_1h"] = w1 /\ raw["output"] = u.outputTokens
      /\ raw["audio_input"] = 0 /\ raw["audio_output"] = 0
  BY <1>3, <1>4 DEF NoCounts, AllKinds
<1> HIDE DEF raw
<1>6. Counted(c) /\ \A k \in AllKinds : c[k] = AtLeastZero(raw[k])
  BY <1>1, <1>5, ClampedCounts
<1>7. AtLeastZero(0) = 0
  BY DEF AtLeastZero
<1> QED
  BY <1>2, <1>5, <1>6, <1>7 DEF Classes, AllKinds

(* The classes of the Gemini meter. *)
LEMMA GoogleClasses ==
  ASSUME NEW u \in UsageBlocks("google"), NEW c, c = NormaliseGoogle(u).counts
  PROVE  Classes(c, AtLeastZero(u.promptTokenCount - u.cachedContentTokenCount),
                 AtLeastZero(u.cachedContentTokenCount), 0, 0,
                 AtLeastZero(u.candidatesTokenCount + u.thoughtsTokenCount))
<1> DEFINE plain == u.promptTokenCount - u.cachedContentTokenCount
           out == u.candidatesTokenCount + u.thoughtsTokenCount
           raw == [NoCounts EXCEPT !["input"] = AtLeastZero(plain),
                                   !["cached_read"] = u.cachedContentTokenCount,
                                   !["output"] = out, !["reasoning"] = u.thoughtsTokenCount]
           d == plain < 0
<1>1. NormaliseGoogle(u) = clampNegative(raw, d)
  BY DEF NormaliseGoogle
<1>3. /\ u.promptTokenCount \in Int /\ u.cachedContentTokenCount \in Int
      /\ u.candidatesTokenCount \in Int /\ u.thoughtsTokenCount \in Int
  BY DEF UsageBlocks
<1>4. plain \in Int /\ out \in Int
  BY <1>3
<1> HIDE DEF plain, out, d
<1>2. AtLeastZero(plain) \in Nat
  BY <1>4 DEF AtLeastZero
<1>5. /\ raw \in [AllKinds -> Int] /\ raw["input"] = AtLeastZero(plain)
      /\ raw["cached_read"] = u.cachedContentTokenCount /\ raw["cache_write_5m"] = 0
      /\ raw["cache_write_1h"] = 0 /\ raw["output"] = out
      /\ raw["audio_input"] = 0 /\ raw["audio_output"] = 0
  BY <1>2, <1>3, <1>4 DEF NoCounts, AllKinds
<1> HIDE DEF raw
<1>6. Counted(c) /\ \A k \in AllKinds : c[k] = AtLeastZero(raw[k])
  BY <1>1, <1>5, ClampedCounts
<1>7. AtLeastZero(0) = 0 /\ AtLeastZero(AtLeastZero(plain)) = AtLeastZero(plain)
  BY <1>4 DEF AtLeastZero
<1> QED
  BY <1>5, <1>6, <1>7 DEF Classes, AllKinds, plain, out

(* The invariant of an Anthropic stream bounds its bill by that of the      *)
(* response, and at a clean end they are the same.                          *)
LEMMA AnthropicMeterAgrees ==
  ASSUME NEW m, Wellformed(m), NEW u \in UsageBlocks("anthropic"), u = m.usage,
         u.cacheCreation # NoDetails
            => u.cacheCreation \in [ephemeral5m : Nat, ephemeral1h : Nat],
         NEW k \in Nat, NEW t, NEW v, NEW errs \in Nat, AnthropicState(m, k, t, v, errs),
         NEW c, c = t.counts, NEW whole, whole = NormaliseAnthropic(u).counts
  PROVE  /\ Total(BillableKinds, c) =< Total(BillableKinds, whole)
         /\ t.done /\ errs = 0 => Total(BillableKinds, c) = Total(BillableKinds, whole)
         /\ Total(BillableKinds, c)
              = c["input"] + c["cached_read"] + c["cache_write_5m"] + c["output"]
<1> DEFINE all == AnthropicStreamCounts(u)
           last == Len(AnthropicEvents(m))
           i == AtLeastZero(u.inputTokens)
           r == AtLeastZero(u.cacheReadTokens)
           w == AtLeastZero(u.cacheCreationTokens)
           o == AtLeastZero(u.outputTokens)
           w5 == AtLeastZero(Write5m(u))
           w1 == AtLeastZero(Write1h(u))
<1>1. /\ t \in AnthropicTranslators(m) /\ (t.done => k = last)
      /\ AnthropicMeter(m, k, t, errs)
  BY DEF AnthropicState
<1>2. last \in Nat /\ last >= 4
  BY EventsPositions
<1>3. c \in [AllKinds -> Nat]
  BY <1>1 DEF AnthropicTranslators
<1>4. /\ \/ \A q \in AllKinds \ {"output"} : c[q] = all[q]
         \/ (errs = 0 => k = 0) /\ \A q \in AllKinds \ {"output"} : c[q] = 0
      /\ \/ c["output"] = all["output"]
         \/ (errs = 0 => k < last - 1) /\ c["output"] = 0
  BY <1>1 DEF AnthropicMeter
<1>5. Classes(all, i, r, w, 0, o)
  BY AnthropicStreamClasses
<1>6. Write5m(u) \in Int /\ Write1h(u) \in Int /\ w5 + w1 = w
  BY WritesAddUp
<1>7. Classes(whole, i, r, w5, w1, o)
  BY <1>6, AnthropicWholeClasses
<1> HIDE DEF i, r, w, o, w5, w1, all, last
<1>8. /\ i \in Nat /\ r \in Nat /\ w \in Nat /\ o \in Nat
  BY <1>5, ClassesSum
<1>9. w5 \in Nat /\ w1 \in Nat /\ Total(BillableKinds, whole) = i + r + w5 + w1 + o
  BY <1>7, ClassesSum
<1>10. Total(BillableKinds, whole) = i + r + w + o
  BY <1>6, <1>8, <1>9
<1>11. \/ Classes(c, i, r, w, 0, c["output"])
       \/ (errs = 0 => k = 0) /\ Classes(c, 0, 0, 0, 0, c["output"])
  <2>1. /\ all["input"] = i /\ all["cached_read"] = r /\ all["cache_write_5m"] = w
        /\ all["cache_write_1h"] = 0 /\ all["audio_input"] = 0 /\ all["audio_output"] = 0
    BY <1>5 DEF Classes
  <2>2. {"input", "cached_read", "cache_write_5m", "cache_write_1h", "audio_input",
         "audio_output"} \subseteq AllKinds \ {"output"}
    BY DEF AllKinds
  <2>3. CASE \A q \in AllKinds \ {"output"} : c[q] = all[q]
    BY <1>3, <2>1, <2>2, <2>3 DEF Classes, Counted
  <2>4. CASE (errs = 0 => k = 0) /\ \A q \in AllKinds \ {"output"} : c[q] = 0
    BY <1>3, <2>2, <2>4 DEF Classes, Counted
  <2> QED
    BY <1>4, <2>3, <2>4
<1>12. c["output"] = o \/ ((errs = 0 => k < last - 1) /\ c["output"] = 0)
  BY <1>4, <1>5 DEF Classes
<1>13. c["output"] \in Nat
  BY <1>3 DEF AllKinds
<1>14. CASE Classes(c, i, r, w, 0, c["output"])
  <2>1. /\ Total(BillableKinds, c) = i + r + w + 0 + c["output"]
        /\ c["input"] = i /\ c["cached_read"] = r /\ c["cache_write_5m"] = w
    BY <1>14, ClassesSum DEF Classes
  <2>2. Total(BillableKinds, c) = i + r + w + c["output"] /\ c["output"] =< o
    BY <1>8, <1>12, <1>13, <2>1
  <2>3. t.done /\ errs = 0 => c["output"] = o
    BY <1>1, <1>2, <1>12
  <2> QED
    BY <1>8, <1>10, <1>13, <2>1, <2>2, <2>3
<1>15. CASE (errs = 0 => k = 0) /\ Classes(c, 0, 0, 0, 0, c["output"])
  <2>1. /\ Total(BillableKinds, c) = 0 + 0 + 0 + 0 + c["output"]
        /\ c["input"] = 0 /\ c["cached_read"] = 0 /\ c["cache_write_5m"] = 0
    <3> DEFINE z == 0
    <3>1. Classes(c, z, z, z, z, c["output"])
      BY <1>15
    <3> HIDE DEF z
    <3>2. Total(BillableKinds, c) = z + z + z + z + c["output"]
      BY <3>1, ClassesSum
    <3>3. c["input"] = z /\ c["cached_read"] = z /\ c["cache_write_5m"] = z
      BY <3>1 DEF Classes
    <3> QED
      BY <3>2, <3>3 DEF z
  <2>2. Total(BillableKinds, c) = c["output"] /\ c["output"] =< o
    BY <1>8, <1>12, <1>13, <2>1
  <2>3. ~ (t.done /\ errs = 0)
    BY <1>1, <1>2, <1>15
  <2> QED
    BY <1>8, <1>10, <1>13, <2>1, <2>2, <2>3
<1> QED
  BY <1>11, <1>14, <1>15

(* The running totals of a chunk are those of the answer, but for the       *)
(* candidates' share.                                                       *)
Running(x, u) ==
    /\ x \in UsageBlocks("google") /\ x.promptTokenCount = u.promptTokenCount
    /\ x.cachedContentTokenCount = u.cachedContentTokenCount
    /\ x.thoughtsTokenCount = u.thoughtsTokenCount
    /\ x.candidatesTokenCount \in Nat /\ x.candidatesTokenCount =< u.candidatesTokenCount

(* The running totals of a chunk, and those of the last one. *)
LEMMA UsageRuns ==
  ASSUME NEW m, NEW u \in UsageBlocks("google"), u = m.usage, u.candidatesTokenCount \in Nat,
         NEW n \in Nat, NEW q \in 1 .. n + 1, NEW x, x = UsageAt(m, q, n)
  PROVE  /\ Running(x, u)
         /\ q = n + 1 => x.candidatesTokenCount = u.candidatesTokenCount
<1> DEFINE c == u.candidatesTokenCount
           y == (c * q) \div (n + 1)
<1>1. n + 1 \in Nat /\ n + 1 > 0 /\ q \in Nat /\ q =< n + 1 /\ c \in Nat
  OBVIOUS
<1>2. y \in Nat /\ y =< c /\ (q = n + 1 => y = c)
  <2>1. PICK d \in Nat : d = n + 1
    BY <1>1
  <2>2. d > 0 /\ q =< d
    BY <1>1, <2>1
  <2> HIDE DEF c
  <2>3. (c * q) \div d \in Nat /\ (c * q) \div d =< c
    BY <1>1, <2>2, ShareBelow
  <2>4. q = d => (c * q) \div d = c
    BY <1>1, <2>2, WholeShare
  <2> QED
    BY <2>1, <2>3, <2>4
<1>3. x = [u EXCEPT !.candidatesTokenCount = y]
  BY DEF UsageAt
<1>4. u \in [promptTokenCount : Int, cachedContentTokenCount : Int,
             candidatesTokenCount : Int, thoughtsTokenCount : Int]
  BY DEF UsageBlocks
<1> HIDE DEF y
<1>5. /\ x \in [promptTokenCount : Int, cachedContentTokenCount : Int,
                candidatesTokenCount : Int, thoughtsTokenCount : Int]
      /\ x.promptTokenCount = u.promptTokenCount
      /\ x.cachedContentTokenCount = u.cachedContentTokenCount
      /\ x.thoughtsTokenCount = u.thoughtsTokenCount
      /\ x.candidatesTokenCount = y
  BY <1>2, <1>3, <1>4
<1>6. x \in UsageBlocks("google")
  BY <1>5 DEF UsageBlocks
<1> QED
  BY <1>2, <1>5, <1>6 DEF Running

(* Totals that are not restated in full never bill more. *)
LEMMA RunningBill ==
  ASSUME NEW u \in UsageBlocks("google"), NEW x, Running(x, u),
         NEW c, c = NormaliseGoogle(x).counts, NEW whole, whole = NormaliseGoogle(u).counts
  PROVE  /\ Total(BillableKinds, c) =< Total(BillableKinds, whole)
         /\ x.candidatesTokenCount = u.candidatesTokenCount
              => Total(BillableKinds, c) = Total(BillableKinds, whole)
         /\ Total(BillableKinds, c) = c["input"] + c["cached_read"] + c["output"]
<1> DEFINE i == AtLeastZero(u.promptTokenCount - u.cachedContentTokenCount)
           r == AtLeastZero(u.cachedContentTokenCount)
           a == x.candidatesTokenCount
           b == u.candidatesTokenCount
           h == u.thoughtsTokenCount
           o == AtLeastZero(a + h)
           p == AtLeastZero(b + h)
           z == 0
<1>1. /\ x \in UsageBlocks("google") /\ x.promptTokenCount = u.promptTokenCount
      /\ x.cachedContentTokenCount = u.cachedContentTokenCount
      /\ x.thoughtsTokenCount = u.thoughtsTokenCount /\ a \in Nat /\ a =< b
  BY DEF Running
<1>2. Classes(c, i, r, z, z, o)
  BY <1>1, GoogleClasses
<1>3. Classes(whole, i, r, z, z, p)
  BY GoogleClasses
<1>4. b \in Int /\ h \in Int
  BY DEF UsageBlocks
<1>5. o =< p /\ (a = b => o = p)
  BY <1>1, <1>4 DEF AtLeastZero
<1>6. z = 0
  OBVIOUS
<1> HIDE DEF i, r, o, p, a, b, h, z
<1>7. /\ i \in Nat /\ r \in Nat /\ z \in Nat /\ o \in Nat
      /\ Total(BillableKinds, c) = i + r + z + z + o
  BY <1>2, ClassesSum
<1>8. p \in Nat /\ Total(BillableKinds, whole) = i + r + z + z + p
  BY <1>3, ClassesSum
<1>9. c["input"] = i /\ c["cached_read"] = r /\ c["output"] = o
  BY <1>2 DEF Classes
<1> QED
  BY <1>5, <1>6, <1>7, <1>8, <1>9 DEF a, b

(* The usage a chunk states. *)
LEMMA ChunkUsage ==
  ASSUME NEW m, Wellformed(m), NEW n \in Nat, n = Len(Parts(m)), NEW q \in 1 .. n + 1
  PROVE  GoogleChunks(m)[q].usage = UsageAt(m, q, n)
<1>1. PICK k \in Nat : k + 1 = q
  <2>1. q - 1 \in Nat /\ (q - 1) + 1 = q
    OBVIOUS
  <2> QED
    BY <2>1
<1>2. k + 1 \in 1 .. n + 1
  BY <1>1
<1>3. GoogleChunks(m)[k + 1].usage = UsageAt(m, k + 1, n)
  BY <1>2, ChunkShape
<1> QED
  BY <1>1, <1>3

(* No counts, no bill. *)
LEMMA NothingBilled ==
  ASSUME NEW c, c = NoCounts
  PROVE  /\ Total(BillableKinds, c) = 0 /\ c["input"] = 0 /\ c["cached_read"] = 0 /\ c["output"] = 0
<1> DEFINE z == 0
<1>1. Classes(c, z, z, z, z, z) /\ z = 0
  BY DEF NoCounts, Classes, Counted, AllKinds
<1> HIDE DEF z
<1>2. Total(BillableKinds, c) = z + z + z + z + z
  BY <1>1, ClassesSum
<1>3. c["input"] = z /\ c["cached_read"] = z /\ c["output"] = z
  BY <1>1 DEF Classes
<1> QED
  BY <1>1, <1>2, <1>3

(* The same for Gemini. *)
LEMMA GoogleMeterAgrees ==
  ASSUME NEW m, Wellformed(m), NEW u \in UsageBlocks("google"), u = m.usage,
         u.candidatesTokenCount \in Nat, NEW k \in Nat, NEW t, NEW v, NEW errs \in Nat,
         GoogleState(m, k, t, v, errs), NEW c,
         c = IF t.lastUsage = NoUsage THEN NoCounts ELSE NormaliseGoogle(t.lastUsage).counts,
         NEW whole, whole = NormaliseGoogle(u).counts
  PROVE  /\ Total(BillableKinds, c) =< Total(BillableKinds, whole)
         /\ t.done /\ errs = 0 => Total(BillableKinds, c) = Total(BillableKinds, whole)
         /\ Total(BillableKinds, c) = c["input"] + c["cached_read"] + c["output"]
<1> DEFINE n == Len(Parts(m))
           x == t.lastUsage
<1>1. n \in Nat /\ n = Len(Parts(m)) /\ Len(GoogleChunks(m)) = n + 1
  BY ChunksLen
<1> HIDE DEF n
<1>2. x \in {NoUsage} \cup {GoogleChunks(m)[q].usage : q \in 1 .. n + 1}
  BY <1>1 DEF GoogleState, GoogleTranslators
<1>3. t.done /\ errs = 0 => x = UsageAt(m, n + 1, n)
  <2> SUFFICES ASSUME t.done, errs = 0 PROVE x = UsageAt(m, n + 1, n)
    OBVIOUS
  <2>1. k = n + 1 /\ GooglePrefix(m, k, t, v)
    BY <1>1 DEF GoogleState
  <2>2. k > 0 /\ k \in 1 .. n + 1
    BY <1>1, <2>1
  <2>3. x = GoogleChunks(m)[k].usage
    BY <2>1, <2>2 DEF GooglePrefix
  <2>4. GoogleChunks(m)[k].usage = UsageAt(m, k, n)
    BY <1>1, <2>2, ChunkUsage
  <2> QED
    BY <2>1, <2>3, <2>4
<1>4. n + 1 \in 1 .. n + 1
  BY <1>1
<1>5. /\ Running(UsageAt(m, n + 1, n), u)
      /\ UsageAt(m, n + 1, n).candidatesTokenCount = u.candidatesTokenCount
  BY <1>1, <1>4, UsageRuns
<1> HIDE DEF x
<1>6. CASE x = NoUsage
  <2>1. UsageAt(m, n + 1, n) # NoUsage
    BY <1>5, NoUsageAssumption DEF Running
  <2>2. ~ (t.done /\ errs = 0)
    BY <1>3, <1>6, <2>1
  <2>3. c = NoCounts
    BY <1>6 DEF x
  <2>4. Total(BillableKinds, c) = 0 /\ c["input"] = 0 /\ c["cached_read"] = 0 /\ c["output"] = 0
    BY <2>3, NothingBilled
  <2>5. Total(BillableKinds, whole) \in Nat
    <3> DEFINE i == AtLeastZero(u.promptTokenCount - u.cachedContentTokenCount)
               r == AtLeastZero(u.cachedContentTokenCount)
               o == AtLeastZero(u.candidatesTokenCount + u.thoughtsTokenCount)
               z == 0
    <3>1. Classes(whole, i, r, z, z, o)
      BY GoogleClasses
    <3> HIDE DEF i, r, o, z
    <3>2. /\ i \in Nat /\ r \in Nat /\ z \in Nat /\ o \in Nat
          /\ Total(BillableKinds, whole) = i + r + z + z + o
      BY <3>1, ClassesSum
    <3> QED
      BY <3>2
  <2> QED
    BY <2>2, <2>4, <2>5
<1>7. CASE x # NoUsage
  <2>1. PICK q \in 1 .. n + 1 : x = GoogleChunks(m)[q].usage
    BY <1>2, <1>7
  <2>2. x = UsageAt(m, q, n)
    BY <1>1, <2>1, ChunkUsage
  <2>3. Running(x, u)
    BY <1>1, <2>2, UsageRuns
  <2>4. c = NormaliseGoogle(x).counts
    BY <1>7 DEF x
  <2>5. t.done /\ errs = 0 => x.candidatesTokenCount = u.candidatesTokenCount
    BY <1>3, <1>5
  <2>6. /\ Total(BillableKinds, c) =< Total(BillableKinds, whole)
        /\ x.candidatesTokenCount = u.candidatesTokenCount
             => Total(BillableKinds, c) = Total(BillableKinds, whole)
        /\ Total(BillableKinds, c) = c["input"] + c["cached_read"] + c["output"]
    BY <2>3, <2>4, RunningBill
  <2> QED
    BY <2>5, <2>6
<1> QED
  BY <1>6, <1>7

(* The stream translators never count more than the adapters' Complete      *)
(* would on the same usage block, count the same at a clean end, and tell   *)
(* the client what is billed, for all counts, blocks and faults.            *)
THEOREM StreamIsMetered == Spec => []StreamMeterAgrees
<1>1. StreamInv => StreamMeterAgrees
  <2> SUFFICES ASSUME StreamInv PROVE StreamMeterAgrees
    OBVIOUS
  <2> DEFINE c == StreamUsage
             p == Provider
             u == msg.usage
             whole == Normalise(p, u).counts
             told == UsageChunk.prompt + UsageChunk.completion
  <2>1. PICK k \in Nat, g \in 0 .. 1 : ReadUpTo(k, g)
    BY DEF StreamInv
  <2>2. /\ State(p, msg, k, translator, view, errors) /\ errors \in Nat
        /\ p \in {"anthropic", "google"} /\ msg \in Messages(p)
    BY <2>1, ProviderIs DEF ReadUpTo, StreamInv
  <2>3. /\ Wellformed(msg) /\ u \in UsageBlocks(p)
        /\ p = "anthropic" /\ u.cacheCreation # NoDetails
             => u.cacheCreation \in [ephemeral5m : Nat, ephemeral1h : Nat]
        /\ p = "google" => u.candidatesTokenCount \in Nat
    BY <2>2, AnthropicWellformed
  <2>4. CASE p = "anthropic"
    <3>1. c = translator.counts /\ whole = NormaliseAnthropic(u).counts
      BY <2>4 DEF StreamUsage, Normalise
    <3>2. AnthropicState(msg, k, translator, view, errors) /\ u \in UsageBlocks("anthropic")
      BY <2>2, <2>3, <2>4 DEF State
    <3>5. /\ UsageChunk.prompt = c["input"] + c["cached_read"] + c["cache_write_5m"]
          /\ UsageChunk.completion = c["output"]
      <4> HIDE DEF c
      <4> QED
        BY <2>4 DEF UsageChunk, c
    <3>6. u = msg.usage
      OBVIOUS
    <3> HIDE DEF c, u, whole, p
    <3>3. /\ Total(BillableKinds, c) =< Total(BillableKinds, whole)
          /\ translator.done /\ errors = 0
               => Total(BillableKinds, c) = Total(BillableKinds, whole)
          /\ Total(BillableKinds, c)
               = c["input"] + c["cached_read"] + c["cache_write_5m"] + c["output"]
      BY <2>2, <2>3, <2>4, <3>1, <3>2, <3>6, AnthropicMeterAgrees
    <3>4. told = Total(BillableKinds, c)
      BY <3>3, <3>5
    <3> QED
      BY <3>3, <3>4 DEF StreamMeterAgrees, BillableKinds, ClosedCleanly, c, u, whole, p
  <2>5. CASE p = "google"
    <3>0. p # "anthropic" /\ p # "openai"
      BY <2>5
    <3>1. /\ c = IF translator.lastUsage = NoUsage THEN NoCounts
                 ELSE NormaliseGoogle(translator.lastUsage).counts
          /\ whole = NormaliseGoogle(u).counts
      BY <2>5, <3>0 DEF StreamUsage, Normalise
    <3>2. GoogleState(msg, k, translator, view, errors) /\ u \in UsageBlocks("google")
      BY <2>2, <2>3, <2>5, <3>0 DEF State
    <3>5. /\ UsageChunk.prompt = c["input"] + c["cached_read"]
          /\ UsageChunk.completion = c["output"]
      <4> HIDE DEF c
      <4> QED
        BY <3>0 DEF UsageChunk, c
    <3>6. u = msg.usage /\ u.candidatesTokenCount \in Nat
      BY <2>3, <2>5
    <3> HIDE DEF c, u, whole, p
    <3>3. /\ Total(BillableKinds, c) =< Total(BillableKinds, whole)
          /\ translator.done /\ errors = 0
               => Total(BillableKinds, c) = Total(BillableKinds, whole)
          /\ Total(BillableKinds, c) = c["input"] + c["cached_read"] + c["output"]
      BY <2>2, <2>3, <3>1, <3>2, <3>6, GoogleMeterAgrees
    <3>4. told = Total(BillableKinds, c)
      BY <3>3, <3>5
    <3> QED
      BY <3>3, <3>4 DEF StreamMeterAgrees, BillableKinds, ClosedCleanly, c, u, whole, p
  <2> QED
    BY <2>2, <2>4, <2>5
<1> QED
  BY <1>1, StreamInvariant, PTL

-------------------------------------------------------------------------------
(* The response: an Anthropic answer read as a whole. *)

(* What is read off a whole answer is read off its blocks. *)
Frameless(m, h) ==
    /\ h[MessageStart(m)] = <<>> /\ h[PlainEvent("ping")] = <<>>
    /\ h[MessageDelta(m)] = <<>> /\ h[PlainEvent("message_stop")] = <<>>

(* Two elements that carry nothing. *)
LEMMA PairNone ==
  ASSUME NEW S, NEW R, NEW h \in [S -> Seq(R)], NEW a \in S, NEW b \in S,
         h[a] = <<>>, h[b] = <<>>
  PROVE  <<a, b>> \in Seq(S) /\ Mapped(h, <<a, b>>) = <<>>
<1> DEFINE s == <<a, b>>
<1>1. s \in Seq(S) /\ Len(s) = 2 /\ s[1] = a /\ s[2] = b
  OBVIOUS
<1> HIDE DEF s
<1>2. \A i \in 1 .. Len(s) : h[s[i]] = <<>>
  <2>1. \A i \in 1 .. 2 : i = 1 \/ i = 2
    OBVIOUS
  <2> QED
    BY <1>1, <2>1
<1>3. Mapped(h, s) = <<>>
  BY <1>1, <1>2, MappedNone
<1> QED
  BY <1>1, <1>3 DEF s

Silent(h, s) == Mapped(h, s) = <<>>
Between(w, s, t, u) == w = (s \o t) \o u

(* What is read between two silent parts. *)
LEMMA MiddleMapped ==
  ASSUME NEW S, NEW R, NEW h \in [S -> Seq(R)], NEW s \in Seq(S), NEW t \in Seq(S),
         NEW u \in Seq(S), NEW w, Between(w, s, t, u), Silent(h, s), Silent(h, u)
  PROVE  Mapped(h, w) = Mapped(h, t)
<1>1. PICK v : v = s \o t
  OBVIOUS
<1>2. v \in Seq(S)
  BY <1>1
<1>3. Mapped(h, t) \in Seq(R)
  BY MapType
<1>4. Splits(v, s, t) /\ Splits(w, v, u)
  BY <1>1, Zenon DEF Between, Splits
<1>5. Splits(Mapped(h, v), Mapped(h, s), Mapped(h, t))
  BY <1>4, MappedSplits
<1>6. Splits(Mapped(h, w), Mapped(h, v), Mapped(h, u))
  BY <1>2, <1>4, MappedSplits
<1>7. <<>> \o Mapped(h, t) = Mapped(h, t) /\ Mapped(h, t) \o <<>> = Mapped(h, t)
  BY <1>3, ConcatEmptySeq
<1> QED
  BY <1>5, <1>6, <1>7, Zenon DEF Silent, Splits

(* What the frame of an answer does not carry is read block by block. *)
LEMMA WholeMapped ==
  ASSUME NEW m, Wellformed(m), NEW R, NEW h \in [AnthropicEventSet(m) -> Seq(R)], Frameless(m, h),
         NEW F, F = [i \in 1 .. Len(m.blocks) |-> Mapped(h, BlockEvents(m.blocks[i], i))]
  PROVE  Mapped(h, AnthropicEvents(m)) = FlattenSeq(F)
<1> DEFINE S == AnthropicEventSet(m)
           U == BlockEventSet(m, Len(m.blocks))
           B == Len(m.blocks)
           ss == Blocks(m, B)
           a == MessageStart(m)
           b == PlainEvent("ping")
           c == MessageDelta(m)
           d == PlainEvent("message_stop")
           o == <<a, b>>
           z == <<c, d>>
           f == FlattenSeq(ss)
<1>1. ss \in Seq(Seq(U)) /\ f \in Seq(U)
  BY BlocksAll DEF BlocksOK
<1>2. U \subseteq S /\ a \in S /\ b \in S /\ c \in S /\ d \in S
  BY DEF AnthropicEventSet, MessageStart, MessageDelta
<1>3. AnthropicEvents(m) = o \o f \o z
  BY EventsParts DEF Opening, Closing, Body
<1>4. h[a] = <<>> /\ h[b] = <<>> /\ h[c] = <<>> /\ h[d] = <<>>
  BY DEF Frameless
<1>5. B \in Nat
  BY BlockTypes
<1>6. Len(ss) = B /\ \A i \in 1 .. B : ss[i] = BlockEvents(m.blocks[i], i)
  BY <1>5 DEF Blocks
<1>7. h \in [S -> Seq(R)]
  OBVIOUS
<1> HIDE DEF S, U, B, ss, a, b, c, d
<1>8. o \in Seq(S) /\ Mapped(h, o) = <<>> /\ z \in Seq(S) /\ Mapped(h, z) = <<>>
  BY <1>2, <1>4, <1>7, PairNone
<1>9. ss \in Seq(Seq(S))
  BY <1>1, <1>2, SeqSeqMono
<1>10. f \in Seq(S)
  BY <1>1, <1>2, SeqMono
<1>11. Mapped(h, f) = FlattenSeq([i \in 1 .. Len(ss) |-> Mapped(h, ss[i])])
  BY <1>7, <1>9, MappedFlatten
<1>12. [i \in 1 .. Len(ss) |-> Mapped(h, ss[i])] = F
  BY <1>6 DEF B
<1> HIDE DEF o, z, f
<1>13. Mapped(h, AnthropicEvents(m)) = Mapped(h, f)
  <2>1. Between(AnthropicEvents(m), o, f, z) /\ Silent(h, o) /\ Silent(h, z)
    BY <1>3, <1>8 DEF Between, Silent
  <2>2. o \in Seq(S) /\ z \in Seq(S)
    BY <1>8
  <2> QED
    BY <1>7, <1>10, <2>1, <2>2, MiddleMapped
<1> QED
  BY <1>11, <1>12, <1>13, Zenon DEF f

(* Three ways a block is read: not at all, by its fragments, by its name. *)
LEMMA BlockInSet ==
  ASSUME NEW m, Wellformed(m), NEW i \in 1 .. Len(m.blocks)
  PROVE  /\ OwnEvents(m, i) \subseteq AnthropicEventSet(m)
         /\ StartOf(m, i) \in AnthropicEventSet(m)
         /\ PlainEvent("content_block_stop") \in AnthropicEventSet(m)
         /\ \A j \in 1 .. Len(m.blocks[i].frags) : DeltaOf(m, i, j) \in AnthropicEventSet(m)
<1>1. ASSUME NEW d \in OwnEvents(m, i) PROVE d \in AnthropicEventSet(m)
  <2>1. d = StartOf(m, i) \/ d \in DeltasOf(m, i) \/ d = PlainEvent("content_block_stop")
    BY DEF OwnEvents
  <2>2. d \in BlockEventSet(m, Len(m.blocks))
    BY <2>1, BlockEventSetIs
  <2> QED
    BY <2>2 DEF AnthropicEventSet
<1>2. /\ StartOf(m, i) \in OwnEvents(m, i) /\ PlainEvent("content_block_stop") \in OwnEvents(m, i)
      /\ \A j \in 1 .. Len(m.blocks[i].frags) : DeltaOf(m, i, j) \in OwnEvents(m, i)
  BY DEF OwnEvents, DeltasOf
<1> QED
  BY <1>1, <1>2

(* A block whose events carry nothing. *)
LEMMA BlockUnread ==
  ASSUME NEW m, Wellformed(m), NEW i \in 1 .. Len(m.blocks),
         NEW R, NEW h \in [AnthropicEventSet(m) -> Seq(R)],
         \A e \in OwnEvents(m, i) : h[e] = <<>>
  PROVE  Mapped(h, BlockEvents(m.blocks[i], i)) = <<>>
<1> DEFINE S == AnthropicEventSet(m)
           O == OwnEvents(m, i)
           be == BlockEvents(m.blocks[i], i)
           L == Len(m.blocks[i].frags)
<1>1. L \in Nat
  BY BlockTypes
<1>2. be \in Seq(O)
  BY <1>1, BlockShape
<1>3. O \subseteq S
  BY BlockInSet
<1>4. h \in [S -> Seq(R)] /\ \A e \in O : h[e] = <<>>
  OBVIOUS
<1> HIDE DEF S, O, be
<1>5. be \in Seq(S) /\ \A n \in 1 .. Len(be) : h[be[n]] = <<>>
  BY <1>2, <1>3, <1>4, SeqMono
<1>6. Mapped(h, be) = <<>>
  BY <1>4, <1>5, MappedNone
<1> QED
  BY <1>6 DEF be

(* A block that is read by its start. *)
LEMMA BlockNamed ==
  ASSUME NEW m, Wellformed(m), NEW i \in 1 .. Len(m.blocks),
         NEW R, NEW h \in [AnthropicEventSet(m) -> Seq(R)],
         h[PlainEvent("content_block_stop")] = <<>>,
         \A j \in 1 .. Len(m.blocks[i].frags) : h[DeltaOf(m, i, j)] = <<>>
  PROVE  Mapped(h, BlockEvents(m.blocks[i], i)) = h[StartOf(m, i)]
<1> DEFINE S == AnthropicEventSet(m)
           O == OwnEvents(m, i)
           be == BlockEvents(m.blocks[i], i)
           L == Len(m.blocks[i].frags)
           ss == [n \in 1 .. Len(be) |-> h[be[n]]]
<1>1. L \in Nat
  BY BlockTypes
<1>2. /\ be \in Seq(O) /\ Len(be) = L + 2
      /\ be[1] = StartOf(m, i) /\ be[L + 2] = PlainEvent("content_block_stop")
      /\ \A j \in 1 .. L : be[j + 1] = DeltaOf(m, i, j)
  BY <1>1, BlockShape
<1>3. O \subseteq S
  BY BlockInSet
<1>4. h \in [S -> Seq(R)] /\ \A j \in 1 .. L : h[DeltaOf(m, i, j)] = <<>>
  OBVIOUS
<1> HIDE DEF S, O, be, L
<1>5. be \in Seq(S)
  BY <1>2, <1>3, SeqMono
<1>6. ss \in Seq(Seq(R))
  BY <1>4, <1>5, MapType
<1>7. Len(ss) = L + 2 /\ 1 \in 1 .. Len(ss) /\ ss[1] = h[StartOf(m, i)]
  BY <1>1, <1>2
<1>8. ASSUME NEW n \in 1 .. Len(ss), n # 1 PROVE ss[n] = <<>>
  <2>1. n \in 1 .. Len(be) /\ ss[n] = h[be[n]]
    BY <1>2, <1>7
  <2>2. CASE n = L + 2
    BY <1>2, <2>1, <2>2
  <2>3. CASE n # L + 2
    <3>1. PICK j \in 1 .. L : j + 1 = n
      <4>1. n - 1 \in 1 .. L /\ (n - 1) + 1 = n
        BY <1>1, <1>7, <1>8, <2>3
      <4> QED
        BY <4>1
    <3>2. be[n] = DeltaOf(m, i, j)
      BY <1>2, <3>1
    <3> QED
      BY <1>4, <2>1, <3>2
  <2> QED
    BY <2>2, <2>3
<1> HIDE DEF ss
<1>9. FlattenSeq(ss) = ss[1]
  BY <1>6, <1>7, <1>8, FlattenOnly
<1> QED
  BY <1>7, <1>9 DEF Mapped, ss, be

(* One element that carries nothing. *)
LEMMA OneSilent ==
  ASSUME NEW S, NEW R, NEW h \in [S -> Seq(R)], NEW a \in S, h[a] = <<>>
  PROVE  <<a>> \in Seq(S) /\ Silent(h, <<a>>)
<1> DEFINE s == <<a>>
<1>1. s \in Seq(S) /\ Len(s) = 1 /\ s[1] = a
  OBVIOUS
<1> HIDE DEF s
<1>2. \A i \in 1 .. Len(s) : h[s[i]] = <<>>
  <2>1. \A i \in 1 .. 1 : i = 1
    OBVIOUS
  <2> QED
    BY <1>1, <2>1
<1>3. Mapped(h, s) = <<>>
  BY <1>1, <1>2, MappedNone
<1> QED
  BY <1>1, <1>3 DEF s, Silent

ReadByFragment(m, i, h) ==
    /\ h[StartOf(m, i)] = <<>> /\ h[PlainEvent("content_block_stop")] = <<>>
    /\ \A j \in 1 .. Len(m.blocks[i].frags) : h[DeltaOf(m, i, j)] = <<m.blocks[i].frags[j]>>

(* A block that is read by its deltas gives its fragments. *)
LEMMA BlockRead ==
  ASSUME NEW m, Wellformed(m), NEW i \in 1 .. Len(m.blocks),
         NEW R, NEW h \in [AnthropicEventSet(m) -> Seq(R)], ReadByFragment(m, i, h)
  PROVE  Mapped(h, BlockEvents(m.blocks[i], i)) = m.blocks[i].frags
<1> DEFINE S == AnthropicEventSet(m)
           be == BlockEvents(m.blocks[i], i)
           fr == m.blocks[i].frags
           L == Len(m.blocks[i].frags)
           D == [j \in 1 .. L |-> DeltaOf(m, i, j)]
           a == StartOf(m, i)
           z == PlainEvent("content_block_stop")
<1>1. fr \in Seq(Nat) /\ L \in Nat /\ L = Len(fr)
  BY BlockTypes
<1>2. a \in S /\ z \in S /\ \A j \in 1 .. L : DeltaOf(m, i, j) \in S
  BY BlockInSet
<1>3. be = (<<a>> \o D) \o <<z>>
  BY DEF BlockEvents, StartOf, DeltaOf
<1>4. h[a] = <<>> /\ h[z] = <<>> /\ (\A j \in 1 .. L : h[DeltaOf(m, i, j)] = <<fr[j]>>)
      /\ h \in [S -> Seq(R)]
  BY DEF ReadByFragment
<1> HIDE DEF S, be, fr, L, a, z
<1>5. D \in Seq(S) /\ Len(D) = L /\ \A j \in 1 .. L : D[j] = DeltaOf(m, i, j)
  BY <1>1, <1>2
<1> HIDE DEF D
<1>6. [j \in 1 .. Len(D) |-> h[D[j]]] = [j \in 1 .. Len(fr) |-> <<fr[j]>>]
  BY <1>1, <1>4, <1>5
<1>7. FlattenSeq([j \in 1 .. Len(fr) |-> <<fr[j]>>]) = fr
  BY <1>1, FlattenSingles
<1>8. Mapped(h, D) = fr
  BY <1>6, <1>7, Zenon DEF Mapped
<1> DEFINE s == <<a>>
           u == <<z>>
<1>9. s \in Seq(S) /\ Silent(h, s)
  BY <1>2, <1>4, OneSilent
<1>10. u \in Seq(S) /\ Silent(h, u)
  BY <1>2, <1>4, OneSilent
<1>11. Between(be, s, D, u) /\ h \in [S -> Seq(R)]
  BY <1>3, <1>4 DEF Between
<1> HIDE DEF s, u
<1>12. D \in Seq(S)
  BY <1>5
<1>13. Mapped(h, be) = Mapped(h, D)
  BY <1>9, <1>10, <1>11, <1>12, MiddleMapped
<1> QED
  BY <1>8, <1>13 DEF be, fr

(* The three readings of an answer. *)
TextsOf(m) == [i \in 1 .. Len(m.blocks) |->
                 IF m.blocks[i].kind = "text" THEN m.blocks[i].frags ELSE <<>>]
CallsOf(m) == [i \in 1 .. Len(m.blocks) |->
                 IF m.blocks[i].kind = "tool_use" THEN <<i>> ELSE <<>>]

(* The frame of an answer carries neither text nor calls. *)
LEMMA FramePieces ==
  ASSUME NEW m
  PROVE  /\ Frameless(m, TextOf(m)) /\ Frameless(m, CallOf(m))
         /\ \A b : Frameless(m, ArgsOf(m, b))
<1> DEFINE S == AnthropicEventSet(m)
<1>1. /\ MessageStart(m) \in S /\ PlainEvent("ping") \in S /\ MessageDelta(m) \in S
      /\ PlainEvent("message_stop") \in S
  BY DEF AnthropicEventSet, MessageStart, MessageDelta
<1>2. /\ MessageStart(m).type = "message_start" /\ PlainEvent("ping").type = "ping"
      /\ MessageDelta(m).type = "message_delta"
      /\ PlainEvent("message_stop").type = "message_stop"
  BY DEF MessageStart, MessageDelta, PlainEvent
<1>3. ASSUME NEW e \in S, e.type \notin {"content_block_start", "content_block_delta"}
      PROVE  TextOf(m)[e] = <<>> /\ CallOf(m)[e] = <<>> /\ \A b : ArgsOf(m, b)[e] = <<>>
  BY <1>3, PiecesOf
<1> HIDE DEF S
<1>4. ASSUME NEW e \in {MessageStart(m), PlainEvent("ping"), MessageDelta(m),
                        PlainEvent("message_stop")}
      PROVE  TextOf(m)[e] = <<>> /\ CallOf(m)[e] = <<>> /\ \A b : ArgsOf(m, b)[e] = <<>>
  <2>1. e \in S /\ e.type \notin {"content_block_start", "content_block_delta"}
    BY <1>1, <1>2, <1>4
  <2> QED
    BY <1>3, <2>1
<1> QED
  BY <1>4, Zenon DEF Frameless

(* The events of a block, by their type. *)
LEMMA OwnFields ==
  ASSUME NEW m, NEW i, NEW e \in OwnEvents(m, i)
  PROVE  \/ e.type = "content_block_start" /\ e.index = i /\ e.kind = m.blocks[i].kind
         \/ e.type = "content_block_delta" /\ e.index = i /\ e.kind = m.blocks[i].kind
         \/ e.type = "content_block_stop"
<1>1. e = StartOf(m, i) \/ e \in DeltasOf(m, i) \/ e = PlainEvent("content_block_stop")
  BY DEF OwnEvents
<1> QED
  BY <1>1, EventFields, DeltaFields

(* A text block is read by its deltas, and so are the arguments of a call. *)
LEMMA FragmentPieces ==
  ASSUME NEW m, Wellformed(m), NEW i \in 1 .. Len(m.blocks)
  PROVE  /\ m.blocks[i].kind = "text" => ReadByFragment(m, i, TextOf(m))
         /\ m.blocks[i].kind = "tool_use" => ReadByFragment(m, i, ArgsOf(m, i))
<1> DEFINE S == AnthropicEventSet(m)
           a == StartOf(m, i)
           z == PlainEvent("content_block_stop")
           L == Len(m.blocks[i].frags)
<1>1. a \in S /\ z \in S /\ \A j \in 1 .. L : DeltaOf(m, i, j) \in S
  BY BlockInSet
<1>2. a.type = "content_block_start" /\ z.type = "content_block_stop"
  BY EventFields
<1>3. TextOf(m)[a] = <<>> /\ ArgsOf(m, i)[a] = <<>>
  BY <1>1, <1>2, PiecesOf
<1>4. TextOf(m)[z] = <<>> /\ ArgsOf(m, i)[z] = <<>>
  BY <1>1, <1>2, PiecesOf
<1>5. ASSUME NEW j \in 1 .. L
      PROVE  /\ m.blocks[i].kind = "text"
                  => TextOf(m)[DeltaOf(m, i, j)] = <<m.blocks[i].frags[j]>>
             /\ m.blocks[i].kind = "tool_use"
                  => ArgsOf(m, i)[DeltaOf(m, i, j)] = <<m.blocks[i].frags[j]>>
  <2> DEFINE d == DeltaOf(m, i, j)
  <2>1. /\ d.type = "content_block_delta" /\ d.index = i /\ d.kind = m.blocks[i].kind
        /\ d.frag = m.blocks[i].frags[j] /\ d \in S
    BY <1>1, EventFields
  <2> HIDE DEF d
  <2>2. /\ d.kind = "text" => TextOf(m)[d] = <<d.frag>>
        /\ d.kind = "tool_use" => ArgsOf(m, i)[d] = <<d.frag>>
    BY <2>1, PiecesOf
  <2> QED
    BY <2>1, <2>2 DEF d
<1> QED
  BY <1>3, <1>4, <1>5 DEF ReadByFragment

(* A block gives nothing to a reading that is not for its kind or its       *)
(* number.                                                                  *)
LEMMA UnreadPieces ==
  ASSUME NEW m, Wellformed(m), NEW i \in 1 .. Len(m.blocks), NEW e \in OwnEvents(m, i)
  PROVE  /\ m.blocks[i].kind # "text" => TextOf(m)[e] = <<>>
         /\ m.blocks[i].kind # "tool_use" => CallOf(m)[e] = <<>>
         /\ \A b : b # i => ArgsOf(m, b)[e] = <<>>
<1>1. e \in AnthropicEventSet(m)
  BY BlockInSet
<1>2. \/ e.type = "content_block_start" /\ e.index = i /\ e.kind = m.blocks[i].kind
      \/ e.type = "content_block_delta" /\ e.index = i /\ e.kind = m.blocks[i].kind
      \/ e.type = "content_block_stop"
  BY OwnFields
<1> QED
  BY <1>1, <1>2, PiecesOf

(* The text of all the events is that of the text blocks. *)
LEMMA WholeText ==
  ASSUME NEW m, Wellformed(m)
  PROVE  Mapped(TextOf(m), AnthropicEvents(m)) = FlattenSeq(TextsOf(m))
<1> DEFINE h == TextOf(m)
           B == Len(m.blocks)
           F == [i \in 1 .. B |-> Mapped(h, BlockEvents(m.blocks[i], i))]
<1>1. h \in [AnthropicEventSet(m) -> Seq(Nat)] /\ Frameless(m, h)
  BY PiecesType, FramePieces
<1>2. ASSUME NEW i \in 1 .. B
      PROVE  Mapped(h, BlockEvents(m.blocks[i], i))
               = IF m.blocks[i].kind = "text" THEN m.blocks[i].frags ELSE <<>>
  <2>1. CASE m.blocks[i].kind = "text"
    <3>1. ReadByFragment(m, i, h)
      BY <2>1, FragmentPieces
    <3> HIDE DEF h
    <3>2. Mapped(h, BlockEvents(m.blocks[i], i)) = m.blocks[i].frags
      BY <1>1, <3>1, BlockRead
    <3> QED
      BY <2>1, <3>2
  <2>2. CASE m.blocks[i].kind # "text"
    <3>1. \A e \in OwnEvents(m, i) : h[e] = <<>>
      BY <2>2, UnreadPieces
    <3> HIDE DEF h
    <3>2. Mapped(h, BlockEvents(m.blocks[i], i)) = <<>>
      BY <1>1, <3>1, BlockUnread
    <3> QED
      BY <2>2, <3>2
  <2> QED
    BY <2>1, <2>2
<1>3. F = TextsOf(m)
  BY <1>2 DEF TextsOf
<1>4. F = [i \in 1 .. Len(m.blocks) |-> Mapped(h, BlockEvents(m.blocks[i], i))]
  OBVIOUS
<1> HIDE DEF h, F
<1>5. Mapped(h, AnthropicEvents(m)) = FlattenSeq(F)
  BY <1>1, <1>4, WholeMapped
<1> QED
  BY <1>3, <1>5 DEF h

(* The calls of all the events are the tool_use blocks. *)
LEMMA WholeCalls ==
  ASSUME NEW m, Wellformed(m)
  PROVE  Mapped(CallOf(m), AnthropicEvents(m)) = FlattenSeq(CallsOf(m))
<1> DEFINE h == CallOf(m)
           B == Len(m.blocks)
           F == [i \in 1 .. B |-> Mapped(h, BlockEvents(m.blocks[i], i))]
<1>1. h \in [AnthropicEventSet(m) -> Seq(1 .. Len(m.blocks))] /\ Frameless(m, h)
  BY PiecesType, FramePieces
<1>2. ASSUME NEW i \in 1 .. B
      PROVE  Mapped(h, BlockEvents(m.blocks[i], i))
               = IF m.blocks[i].kind = "tool_use" THEN <<i>> ELSE <<>>
  <2>1. CASE m.blocks[i].kind = "tool_use"
    <3> DEFINE a == StartOf(m, i)
               z == PlainEvent("content_block_stop")
    <3>1. /\ a \in AnthropicEventSet(m) /\ z \in AnthropicEventSet(m)
          /\ \A j \in 1 .. Len(m.blocks[i].frags) : DeltaOf(m, i, j) \in AnthropicEventSet(m)
      BY BlockInSet
    <3>2. /\ a.type = "content_block_start" /\ a.kind = "tool_use" /\ a.index = i
          /\ z.type = "content_block_stop"
          /\ \A j : DeltaOf(m, i, j).type = "content_block_delta"
      BY <2>1, EventFields
    <3>3. h[a] = <<i>>
      <4>1. h[a] = <<a.index>>
        BY <3>1, <3>2, PiecesOf
      <4> QED
        BY <3>2, <4>1
    <3>4. h[z] = <<>>
      BY <3>1, <3>2, PiecesOf
    <3>5. \A j \in 1 .. Len(m.blocks[i].frags) : h[DeltaOf(m, i, j)] = <<>>
      BY <3>1, <3>2, PiecesOf
    <3> HIDE DEF h, a
    <3>6. h[PlainEvent("content_block_stop")] = <<>>
      BY <3>4
    <3> HIDE DEF z
    <3>7. Mapped(h, BlockEvents(m.blocks[i], i)) = h[StartOf(m, i)]
      BY <1>1, <3>5, <3>6, BlockNamed
    <3> QED
      BY <2>1, <3>3, <3>7 DEF a
  <2>2. CASE m.blocks[i].kind # "tool_use"
    <3>1. \A e \in OwnEvents(m, i) : h[e] = <<>>
      BY <2>2, UnreadPieces
    <3> HIDE DEF h
    <3>2. Mapped(h, BlockEvents(m.blocks[i], i)) = <<>>
      BY <1>1, <3>1, BlockUnread
    <3> QED
      BY <2>2, <3>2
  <2> QED
    BY <2>1, <2>2
<1>3. F = CallsOf(m)
  BY <1>2 DEF CallsOf
<1>4. F = [i \in 1 .. Len(m.blocks) |-> Mapped(h, BlockEvents(m.blocks[i], i))]
  OBVIOUS
<1> HIDE DEF h, F
<1>5. Mapped(h, AnthropicEvents(m)) = FlattenSeq(F)
  BY <1>1, <1>4, WholeMapped
<1> QED
  BY <1>3, <1>5 DEF h

(* The arguments of all the events for a tool_use block are its fragments. *)
LEMMA WholeArgs ==
  ASSUME NEW m, Wellformed(m), NEW b \in 1 .. Len(m.blocks), m.blocks[b].kind = "tool_use"
  PROVE  Mapped(ArgsOf(m, b), AnthropicEvents(m)) = m.blocks[b].frags
<1> DEFINE h == ArgsOf(m, b)
           B == Len(m.blocks)
           F == [i \in 1 .. B |-> Mapped(h, BlockEvents(m.blocks[i], i))]
<1>1. h \in [AnthropicEventSet(m) -> Seq(Nat)] /\ Frameless(m, h)
  BY PiecesType, FramePieces
<1>2. Mapped(h, BlockEvents(m.blocks[b], b)) = m.blocks[b].frags
  <2>1. ReadByFragment(m, b, h)
    BY FragmentPieces
  <2> HIDE DEF h
  <2> QED
    BY <1>1, <2>1, BlockRead
<1>3. ASSUME NEW i \in 1 .. B, i # b
      PROVE  Mapped(h, BlockEvents(m.blocks[i], i)) = <<>>
  <2>1. \A e \in OwnEvents(m, i) : h[e] = <<>>
    BY <1>3, UnreadPieces
  <2> HIDE DEF h
  <2> QED
    BY <1>1, <2>1, BlockUnread
<1>4. F = [i \in 1 .. Len(m.blocks) |-> Mapped(h, BlockEvents(m.blocks[i], i))]
  OBVIOUS
<1>5. B \in Nat /\ \A i \in 1 .. B : m.blocks[i].frags \in Seq(Nat)
  BY BlockTypes
<1>6. F \in Seq(Seq(Nat)) /\ Len(F) = B /\ F[b] = m.blocks[b].frags
      /\ \A i \in 1 .. Len(F) : i # b => F[i] = <<>>
  <2>1. \A i \in 1 .. B : Mapped(h, BlockEvents(m.blocks[i], i)) \in Seq(Nat)
    <3>1. <<>> \in Seq(Nat)
      OBVIOUS
    <3> HIDE DEF h, B
    <3> QED
      BY <1>2, <1>3, <1>5, <3>1
  <2> HIDE DEF h
  <2> QED
    BY <1>2, <1>3, <1>5, <2>1
<1> HIDE DEF h, F
<1>7. Mapped(h, AnthropicEvents(m)) = FlattenSeq(F)
  BY <1>1, <1>4, WholeMapped
<1>8. FlattenSeq(F) = F[b]
  <2>1. b \in 1 .. Len(F) /\ F \in Seq(Seq(Nat)) /\ \A i \in 1 .. Len(F) : i # b => F[i] = <<>>
    BY <1>6
  <2> QED
    BY <2>1, FlattenOnly
<1> QED
  BY <1>6, <1>7, <1>8 DEF h

(* What a client has assembled. *)
Assembled(v) == [roles |-> v.roles, text |-> v.text, tools |-> v.tools, finish |-> v.finish]

(* Calls are equal when their fields are. *)
LEMMA CallsEqual ==
  ASSUME NEW tools \in Seq(Calls), NEW calls, Len(tools) = Len(calls), NEW f,
         \A i \in 1 .. Len(tools) : /\ tools[i].index = i - 1 /\ tools[i].name = calls[i]
                                    /\ tools[i].args = f[i]
  PROVE  tools = [i \in 1 .. Len(calls) |-> [index |-> i - 1, name |-> calls[i], args |-> f[i]]]
<1>1. ASSUME NEW i \in 1 .. Len(tools)
      PROVE  tools[i] = [index |-> i - 1, name |-> calls[i], args |-> f[i]]
  <2> DEFINE c == tools[i]
  <2>1. c \in Calls
    OBVIOUS
  <2>2. c.index = i - 1 /\ c.name = calls[i] /\ c.args = f[i]
    OBVIOUS
  <2> HIDE DEF c
  <2>3. c = [index |-> c.index, name |-> c.name, args |-> c.args]
    BY <2>1 DEF Calls
  <2>4. c = [index |-> i - 1, name |-> calls[i], args |-> f[i]]
    BY <2>2, <2>3
  <2> QED
    BY <2>4 DEF c
<1>2. tools = [i \in 1 .. Len(tools) |-> tools[i]]
  OBVIOUS
<1> QED
  BY <1>1, <1>2

(* What a client holds after all the events of an Anthropic answer. *)
LEMMA AnthropicWhole ==
  ASSUME NEW m, Wellformed(m), NEW k, k = Len(AnthropicEvents(m)), NEW t, NEW v,
         t \in AnthropicTranslators(m), v \in Views, AnthropicTable(m, k, t),
         AnthropicTools(m, k, t, v), AnthropicPrefix(m, k, t, v)
  PROVE  /\ v.roles = 1 /\ v.text = FlattenSeq(TextsOf(m))
         /\ v.finish = anthropicFinishReason(m.stop)
         /\ v.tools \in Seq(Calls) /\ Len(v.tools) = Len(FlattenSeq(CallsOf(m)))
         /\ \A i \in 1 .. Len(v.tools) :
               /\ v.tools[i].index = i - 1 /\ v.tools[i].name = FlattenSeq(CallsOf(m))[i]
               /\ v.tools[i].args = m.blocks[FlattenSeq(CallsOf(m))[i]].frags
<1> DEFINE E == AnthropicEvents(m)
           calls == FlattenSeq(CallsOf(m))
<1>1. k \in Nat /\ k >= 4
  BY EventsPositions
<1>2. ReadTo(m, k) = E
  <2>1. E \in Seq(AnthropicEventSet(m)) /\ k = Len(E)
    BY EventsPositions
  <2> DEFINE S == AnthropicEventSet(m)
  <2> HIDE DEF E, S
  <2>2. SubSeq(E, 1, Len(E)) = E
    <3>1. E \in Seq(S)
      BY <2>1 DEF S
    <3> QED
      BY <3>1, PrefixAll
  <2> QED
    BY <2>1, <2>2 DEF ReadTo, E
<1>3. /\ v.roles = (IF k = 0 THEN 0 ELSE 1)
      /\ v.text = Text(m, k)
      /\ Column(t) = Called(m, k)
      /\ \A i \in 1 .. t.nextTool : v.tools[i].args = Args(m, t.toolIndex[i][1], k)
      /\ v.finish = (IF k < Len(E) - 1 THEN "" ELSE anthropicFinishReason(m.stop))
  BY PrefixIs
<1>4. v.roles = 1 /\ v.finish = anthropicFinishReason(m.stop)
  <2>1. k # 0 /\ ~ (k < Len(E) - 1)
    BY <1>1
  <2>2. v.roles = (IF k = 0 THEN 0 ELSE 1)
    BY <1>3
  <2>3. v.finish = (IF k < Len(E) - 1 THEN "" ELSE anthropicFinishReason(m.stop))
    BY <1>3
  <2> QED
    BY ONLY <2>1, <2>2, <2>3
<1>5. v.text = FlattenSeq(TextsOf(m))
  BY <1>2, <1>3, WholeText DEF Text
<1>6. Column(t) = calls
  BY <1>2, <1>3, WholeCalls DEF Called
<1>7. t.nextTool \in Nat /\ v.tools \in Seq(Calls)
  BY DEF AnthropicTranslators, Views
<1>8. Len(v.tools) = t.nextTool
  BY DEF AnthropicTools
<1>9. Len(calls) = t.nextTool /\ \A i \in 1 .. t.nextTool : calls[i] = t.toolIndex[i][1]
  <2> HIDE DEF calls
  <2> QED
    BY <1>6, <1>7 DEF Column
<1>10. ASSUME NEW i \in 1 .. t.nextTool
       PROVE  /\ v.tools[i].index = i - 1 /\ v.tools[i].name = calls[i]
              /\ v.tools[i].args = m.blocks[calls[i]].frags
  <2> DEFINE b == t.toolIndex[i][1]
  <2>1. v.tools[i].index = i - 1 /\ v.tools[i].name = b
    BY DEF AnthropicTools
  <2>2. Len(t.toolIndex) = t.nextTool /\ m.blocks[b].kind = "tool_use"
    BY DEF AnthropicTable
  <2>3. b \in 1 .. Len(m.blocks)
    <3> DEFINE P == (1 .. Len(m.blocks)) \X Nat
    <3>1. t.toolIndex \in Seq(P)
      BY DEF AnthropicTranslators
    <3> HIDE DEF P
    <3>2. t.toolIndex[i] \in P
      BY <2>2, <3>1
    <3> QED
      BY <3>2 DEF P
  <2>4. v.tools[i].args = Mapped(ArgsOf(m, b), E)
    BY <1>2, <1>3 DEF Args
  <2>5. calls[i] = b
    BY <1>9
  <2> HIDE DEF b, calls
  <2>6. Mapped(ArgsOf(m, b), AnthropicEvents(m)) = m.blocks[b].frags
    BY <2>2, <2>3, WholeArgs
  <2> QED
    BY <2>1, <2>4, <2>5, <2>6
<1> HIDE DEF calls
<1>11. Len(v.tools) = Len(calls)
  BY <1>8, <1>9
<1> QED
  BY <1>4, <1>5, <1>7, <1>8, <1>10, <1>11 DEF calls

(* It is what TranslateAnthropicResponse makes of the message. *)
LEMMA AnthropicIsResponse ==
  ASSUME NEW m, Wellformed(m), NEW k, NEW t, NEW v, NEW errs, AnthropicState(m, k, t, v, errs),
         t.done, errs = 0
  PROVE  Assembled(v) = AnthropicResponse(m)
<1> DEFINE calls == FlattenSeq(CallsOf(m))
           f == [i \in 1 .. Len(calls) |-> m.blocks[calls[i]].frags]
           T == [i \in 1 .. Len(calls) |->
                    [index |-> i - 1, name |-> calls[i], args |-> m.blocks[calls[i]].frags]]
           F == anthropicFinishReason(m.stop)
<1>1. /\ t \in AnthropicTranslators(m) /\ v \in Views /\ k = Len(AnthropicEvents(m))
      /\ AnthropicTable(m, k, t) /\ AnthropicTools(m, k, t, v) /\ AnthropicPrefix(m, k, t, v)
  BY DEF AnthropicState
<1>2. /\ v.roles = 1 /\ v.text = FlattenSeq(TextsOf(m)) /\ v.finish = F
      /\ v.tools \in Seq(Calls) /\ Len(v.tools) = Len(calls)
      /\ \A i \in 1 .. Len(v.tools) :
            /\ v.tools[i].index = i - 1 /\ v.tools[i].name = calls[i]
            /\ v.tools[i].args = m.blocks[calls[i]].frags
  BY <1>1, AnthropicWhole
<1>3. AnthropicResponse(m) = [roles |-> 1, text |-> FlattenSeq(TextsOf(m)), tools |-> T,
                              finish |-> F]
  BY DEF AnthropicResponse, TextsOf, CallsOf, anthropicFinishReason
<1> HIDE DEF calls, F
<1>4. \A i \in 1 .. Len(v.tools) : f[i] = m.blocks[calls[i]].frags
  BY <1>2
<1>5. T = [i \in 1 .. Len(calls) |-> [index |-> i - 1, name |-> calls[i], args |-> f[i]]]
  BY <1>2, <1>4
<1> HIDE DEF f, T
<1>6. v.tools = T
  <2> DEFINE tools == v.tools
  <2>1. tools \in Seq(Calls) /\ Len(tools) = Len(calls)
    BY <1>2
  <2>2. \A i \in 1 .. Len(tools) : /\ tools[i].index = i - 1 /\ tools[i].name = calls[i]
                                   /\ tools[i].args = f[i]
    BY <1>2, <1>4
  <2> HIDE DEF tools
  <2>3. tools = [i \in 1 .. Len(calls) |-> [index |-> i - 1, name |-> calls[i], args |-> f[i]]]
    BY <2>1, <2>2, CallsEqual, SMTT(30)
  <2> QED
    BY <1>5, <2>3 DEF tools
<1> QED
  BY <1>2, <1>3, <1>6, Zenon DEF Assembled

-------------------------------------------------------------------------------
(* The response: a Gemini answer read as a whole. *)

(* The text a Gemini answer carries, block by block. *)
AnswerTexts(m) == [i \in 1 .. Len(m.blocks) |->
                     IF m.blocks[i].kind = "tool_use" THEN <<>> ELSE m.blocks[i].frags]
PartTexts(m) == [p \in PartSet(m) |-> TextPart(p)]

(* The text of a part. *)
LEMMA PartTextsType ==
  ASSUME NEW m
  PROVE  PartTexts(m) \in [PartSet(m) -> Seq(Nat)]
<1>1. \A p \in PartSet(m) : TextPart(p) \in Seq(Nat)
  BY PartTypes
<1> QED
  BY <1>1 DEF PartTexts

(* The parts of a text block carry its fragments. *)
LEMMA BlockPartsText ==
  ASSUME NEW m, Wellformed(m), NEW i \in 1 .. Len(m.blocks), m.blocks[i].kind # "tool_use"
  PROVE  Mapped(PartTexts(m), BlockParts(m, i)) = m.blocks[i].frags
<1> DEFINE h == PartTexts(m)
           s == BlockParts(m, i)
           fr == m.blocks[i].frags
           P == PartSet(m)
<1>1. fr \in Seq(Nat)
  BY BlockTypes
<1>2. s \in Seq(P)
  BY BlockPartsType
<1>3. Len(s) = Len(fr) /\ \A j \in 1 .. Len(fr) :
        s[j] = [name |-> i, part |-> [tool |-> FALSE, frags |-> <<fr[j]>>]]
  BY <1>1 DEF BlockParts, GooglePart
<1>4. ASSUME NEW j \in 1 .. Len(fr) PROVE h[s[j]] = <<fr[j]>>
  <2> DEFINE p == s[j]
  <2> HIDE DEF s, P
  <2>1. p \in P
    <3> HIDE DEF fr
    <3> QED
      BY <1>1, <1>2, <1>3
  <2> DEFINE w == <<fr[j]>>
             y == [tool |-> FALSE, frags |-> w]
  <2>5. p = [name |-> i, part |-> y]
    BY <1>3
  <2>6. y.frags = w /\ ~ y.tool
    OBVIOUS
  <2> HIDE DEF p, y, w
  <2>7. p.part = y
    BY <2>5
  <2>2. ~ p.part.tool /\ p.part.frags = w
    BY <2>6, <2>7
  <2>3. h[p] = TextPart(p)
    BY <2>1 DEF PartTexts, P
  <2>4. TextPart(p) = w
    BY <2>2 DEF TextPart
  <2> QED
    BY <2>3, <2>4 DEF p, w
<1> HIDE DEF h, s, fr, P
<1>5. [j \in 1 .. Len(s) |-> h[s[j]]] = [j \in 1 .. Len(fr) |-> <<fr[j]>>]
  BY <1>3, <1>4
<1>6. FlattenSeq([j \in 1 .. Len(fr) |-> <<fr[j]>>]) = fr
  BY <1>1, FlattenSingles
<1>7. Mapped(h, s) = fr
  BY <1>5, <1>6, Zenon DEF Mapped
<1> QED
  BY <1>7 DEF h, s, fr

(* The parts of an answer without tool calls carry the text of its blocks. *)
LEMMA BlockPartsMapped ==
  ASSUME NEW m, Wellformed(m), ~ HasTools(m)
  PROVE  Mapped(PartTexts(m), Parts(m)) = FlattenSeq(AnswerTexts(m))
<1> DEFINE h == PartTexts(m)
           P == PartSet(m)
           B == Len(m.blocks)
           ss == [i \in 1 .. B |-> BlockParts(m, i)]
           M == [i \in 1 .. Len(ss) |-> Mapped(h, ss[i])]
<1>1. B \in Nat /\ \A i \in 1 .. B : BlockParts(m, i) \in Seq(P)
  BY BlockTypes, BlockPartsType
<1>2. \A i \in 1 .. B : Mapped(h, BlockParts(m, i)) = m.blocks[i].frags
  BY BlockPartsText DEF HasTools
<1>3. h \in [P -> Seq(Nat)] /\ Parts(m) = FlattenSeq(ss)
  BY PartTextsType DEF Parts
<1>4. \A i \in 1 .. B : m.blocks[i].kind # "tool_use"
  BY DEF HasTools
<1> HIDE DEF h, P, B
<1>5. ss \in Seq(Seq(P)) /\ Len(ss) = B /\ \A i \in 1 .. B : ss[i] = BlockParts(m, i)
  BY <1>1
<1>6. M = AnswerTexts(m)
  <2> DEFINE W == [i \in 1 .. B |-> IF m.blocks[i].kind = "tool_use" THEN <<>>
                                                                  ELSE m.blocks[i].frags]
  <2> HIDE DEF ss
  <2>1. M = [i \in 1 .. B |-> m.blocks[i].frags]
    BY <1>2, <1>5
  <2>2. W = [i \in 1 .. B |-> m.blocks[i].frags]
    BY <1>4
  <2> QED
    BY <2>1, <2>2 DEF AnswerTexts, B
<1> HIDE DEF ss
<1>7. Mapped(h, FlattenSeq(ss)) = FlattenSeq(M)
  <2> DEFINE R == Nat
  <2>1. h \in [P -> Seq(R)] /\ ss \in Seq(Seq(P))
    BY <1>3, <1>5
  <2> HIDE DEF R
  <2> QED
    BY <2>1, MappedFlatten
<1> HIDE DEF M
<1> QED
  BY <1>3, <1>6, <1>7, Zenon DEF h

(* And so do its chunks. *)
LEMMA GoogleTextWhole ==
  ASSUME NEW m, Wellformed(m), ~ HasTools(m)
  PROVE  FlattenSeq(GoogleTextOf(m)) = FlattenSeq(AnswerTexts(m))
<1> DEFINE g == GoogleTextOf(m)
           n == Len(Parts(m))
           h == PartTexts(m)
           P == PartSet(m)
           M == [q \in 1 .. n |-> h[Parts(m)[q]]]
<1>1. g \in Seq(Seq(Nat)) /\ Len(g) = n + 1 /\ n \in Nat /\ n = Len(Parts(m))
  BY GoogleTexts, ChunksLen
<1>2. Parts(m) \in Seq(P) /\ h \in [P -> Seq(Nat)]
  BY PartsType, PartTextsType
<1>3. \A p \in P : h[p] = TextPart(p)
  BY DEF PartTexts
<1> HIDE DEF h, P, n
<1>4. M \in Seq(Seq(Nat)) /\ Len(M) = n
  BY <1>1, <1>2
<1>5. g[n + 1] = <<>>
  BY <1>1, ChunkText
<1>6. ASSUME NEW q \in 1 .. n PROVE g[q] = M[q]
  <2>1. PICK k \in Nat : k + 1 = q
    <3>1. q - 1 \in Nat /\ (q - 1) + 1 = q
      BY <1>1
    <3> QED
      BY <3>1
  <2>2. k + 1 \in 1 .. n + 1 /\ k + 1 =< n
    BY <1>1, <2>1
  <2>3. g[k + 1] = TextPart(Parts(m)[k + 1])
    BY <1>1, <2>2, ChunkText
  <2>4. Parts(m)[q] \in P
    BY <1>1, <1>2
  <2> QED
    BY <1>3, <2>1, <2>3, <2>4
<1> DEFINE z == <<>>
<1>7. z \in Seq(Nat) /\ g[n + 1] = z
  BY <1>5
<1> HIDE DEF M, g, z
<1>8. g = Append(M, z)
  BY <1>1, <1>4, <1>6, <1>7
<1>9. FlattenSeq(Append(M, z)) = FlattenSeq(M) \o z
  BY <1>4, <1>7, FlattenAppend
<1>10. FlattenSeq(M) \in Seq(Nat)
  BY <1>4, FlattenType
<1>11. FlattenSeq(M) \o z = FlattenSeq(M)
  BY <1>10, ConcatEmptySeq DEF z
<1>12. FlattenSeq(M) = FlattenSeq(AnswerTexts(m))
  <2>1. Mapped(h, Parts(m)) = FlattenSeq(AnswerTexts(m))
    BY BlockPartsMapped DEF h
  <2> QED
    BY <1>1, <2>1 DEF Mapped, M
<1>13. FlattenSeq(g) = FlattenSeq(AnswerTexts(m))
  BY <1>8, <1>9, <1>11, <1>12, Zenon
<1> QED
  BY <1>13 DEF g

(* What a client holds after all the chunks of a Gemini answer without tool *)
(* calls is what TranslateGoogleResponse makes of it, for the reasons both  *)
(* paths map alike.                                                         *)
LEMMA GoogleIsResponse ==
  ASSUME NEW m, Wellformed(m), NEW k, NEW t, NEW v, NEW errs, GoogleState(m, k, t, v, errs),
         t.done, errs = 0, \A i \in DOMAIN m.blocks : m.blocks[i].kind # "tool_use",
         m.stop \in {"STOP", "MAX_TOKENS", "SAFETY", "RECITATION"}
  PROVE  Assembled(v) = GoogleResponse(m)
<1> DEFINE n == Len(Parts(m))
           g == GoogleTextOf(m)
           F == finishReason(0, m.stop)
           x == FlattenSeq(AnswerTexts(m))
           z == <<>>
<1>1. ~ HasTools(m)
  BY BlocksDomain DEF HasTools
<1>2. /\ v \in Views /\ k = Len(GoogleChunks(m)) /\ t.toolCalls = 0
      /\ GoogleTools(m, t, v) /\ GooglePrefix(m, k, t, v)
  BY <1>1 DEF GoogleState
<1>3. n \in Nat /\ k = n + 1 /\ g \in Seq(Seq(Nat)) /\ Len(g) = n + 1
  BY <1>2, ChunksLen, GoogleTexts
<1> HIDE DEF n
<1>4. v.roles = 1 /\ v.finish = F
  <2>1. k # 0 /\ ~ (k < Len(GoogleChunks(m)))
    BY <1>2, <1>3
  <2>2. v.roles = (IF k = 0 THEN 0 ELSE 1)
    BY <1>2 DEF GooglePrefix
  <2>3. v.finish = (IF k < Len(GoogleChunks(m)) THEN "" ELSE F)
    BY <1>2 DEF GooglePrefix
  <2> HIDE DEF F
  <2> QED
    BY ONLY <2>1, <2>2, <2>3
<1>5. v.text = x
  <2>1. v.text = FlattenSeq(SubSeq(g, 1, Len(g)))
    BY <1>2, <1>3 DEF GooglePrefix
  <2>2. SubSeq(g, 1, Len(g)) = g
    <3> HIDE DEF g
    <3> QED
      BY <1>3, PrefixAll
  <2>3. FlattenSeq(g) = x
    BY <1>1, GoogleTextWhole
  <2> HIDE DEF x, g
  <2> QED
    BY <2>1, <2>2, <2>3
<1>6. v.tools = z
  <2>1. v.tools \in Seq(Calls) /\ Len(v.tools) = 0
    BY <1>2 DEF Views, GoogleTools
  <2> QED
    BY <2>1
<1>7. F = CASE m.stop = "MAX_TOKENS" -> "length"
            [] m.stop \in {"SAFETY", "RECITATION"} -> "content_filter"
            [] OTHER -> "stop"
  <2>1. CASE m.stop = "STOP"
    BY <2>1 DEF finishReason
  <2>2. CASE m.stop = "MAX_TOKENS"
    BY <2>2 DEF finishReason
  <2>3. CASE m.stop = "SAFETY"
    BY <2>3 DEF finishReason
  <2>4. CASE m.stop = "RECITATION"
    BY <2>4 DEF finishReason
  <2> QED
    BY <2>1, <2>2, <2>3, <2>4
<1> HIDE DEF F
<1>8. GoogleResponse(m) = [roles |-> 1, text |-> x, tools |-> z, finish |-> F]
  BY <1>7 DEF GoogleResponse, AnswerTexts
<1> HIDE DEF x, z
<1> QED
  BY <1>4, <1>5, <1>6, <1>8, Zenon DEF Assembled

(* A stream that was read to its clean end without an error gives the       *)
(* client the text, the tool calls and the reason of                        *)
(* TranslateAnthropicResponse and TranslateGoogleResponse, for every        *)
(* message of any length.                                                   *)
THEOREM StreamIsResponse == Spec => []StreamIsTheResponse
<1>1. StreamInv => StreamIsTheResponse
  <2> SUFFICES ASSUME StreamInv, ended, ClosedCleanly, errors = 0,
                      \/ Provider = "anthropic"
                      \/ /\ \A i \in DOMAIN msg.blocks : msg.blocks[i].kind # "tool_use"
                         /\ msg.stop \in {"STOP", "MAX_TOKENS", "SAFETY", "RECITATION"}
               PROVE  Assembled(view) = Response(Provider, msg)
    BY DEF StreamIsTheResponse, Assembled
  <2>1. PICK k \in Nat, g \in 0 .. 1 : ReadUpTo(k, g)
    BY DEF StreamInv
  <2>2. /\ State(Provider, msg, k, translator, view, errors)
        /\ Provider \in {"anthropic", "google"} /\ msg \in Messages(Provider)
    BY <2>1, ProviderIs DEF ReadUpTo, StreamInv
  <2>3. Wellformed(msg)
    BY <2>2, StopsAll
  <2>4. translator.done
    BY DEF ClosedCleanly
  <2>5. CASE Provider = "anthropic"
    <3>1. AnthropicState(msg, k, translator, view, errors)
      BY <2>2, <2>5 DEF State
    <3>2. Assembled(view) = AnthropicResponse(msg)
      BY <2>3, <2>4, <3>1, AnthropicIsResponse
    <3> QED
      BY <2>5, <3>2 DEF Response
  <2>6. CASE Provider # "anthropic"
    <3>1. GoogleState(msg, k, translator, view, errors)
      BY <2>2, <2>6 DEF State
    <3>2. Assembled(view) = GoogleResponse(msg)
      BY <2>3, <2>4, <2>6, <3>1, GoogleIsResponse
    <3> QED
      BY <2>6, <3>2 DEF Response
  <2> QED
    BY <2>5, <2>6
<1> QED
  BY <1>1, StreamInvariant, PTL

===============================================================================
