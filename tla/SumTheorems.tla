------------------------------ MODULE SumTheorems ------------------------------
(***************************************************************************)
(* What a ledger needs to know of Total: that it is a natural number, that *)
(* it depends only on the amounts in its set, and that it is additive over *)
(* disjoint sets.                                                          *)
(***************************************************************************)
EXTENDS Sums, FiniteSetTheorems, TLAPS

(* One element owns as many units as its amount. *)
LEMMA UnitsOfCount ==
    ASSUME NEW r, NEW f, f[r] \in Nat
    PROVE  /\ IsFiniteSet(UnitsOf(r, f))
           /\ Cardinality(UnitsOf(r, f)) = f[r]
<1>1. IsFiniteSet({r}) /\ Cardinality({r}) = 1
  BY FS_Singleton
<1>2. IsFiniteSet(1 .. f[r]) /\ Cardinality(1 .. f[r]) = f[r]
  BY FS_Interval
<1>3. /\ IsFiniteSet({r} \X (1 .. f[r]))
      /\ Cardinality({r} \X (1 .. f[r])) = Cardinality({r}) * Cardinality(1 .. f[r])
  BY <1>1, <1>2, FS_Product
<1> QED
  BY <1>1, <1>2, <1>3 DEF UnitsOf

(* A finite set owns finitely many units. *)
LEMMA UnitsFinite ==
    ASSUME NEW S, IsFiniteSet(S), NEW f, \A r \in S : f[r] \in Nat
    PROVE  IsFiniteSet(Units(S, f))
<1> DEFINE M == {UnitsOf(r, f) : r \in S}
           g == [r \in S |-> UnitsOf(r, f)]
<1>1. g \in Surjection(S, M)
  BY DEF Surjection
<1>2. IsFiniteSet(M)
  BY <1>1, FS_Surjection
<1>3. \A T \in M : IsFiniteSet(T)
  BY UnitsOfCount
<1> QED
  BY <1>2, <1>3, FS_UNION DEF Units

(* A sum of natural amounts is a natural number. *)
LEMMA TotalNat ==
    ASSUME NEW S, IsFiniteSet(S), NEW f, \A r \in S : f[r] \in Nat
    PROVE  Total(S, f) \in Nat
BY UnitsFinite, FS_CardinalityType DEF Total

(* The sum over nothing is zero. *)
LEMMA TotalEmpty ==
    ASSUME NEW f
    PROVE  Total({}, f) = 0
<1>1. Units({}, f) = {}
  BY DEF Units
<1> QED
  BY <1>1, FS_EmptySet DEF Total

(* The sum over one element is its amount. *)
LEMMA TotalSingleton ==
    ASSUME NEW r, NEW f, f[r] \in Nat
    PROVE  Total({r}, f) = f[r]
<1>1. Units({r}, f) = UnitsOf(r, f)
  BY DEF Units
<1> QED
  BY <1>1, UnitsOfCount DEF Total

(* The sum depends only on the amounts of the elements summed over. *)
LEMMA TotalSame ==
    ASSUME NEW S, NEW f, NEW g, \A r \in S : f[r] = g[r]
    PROVE  Total(S, f) = Total(S, g)
<1>1. \A r \in S : UnitsOf(r, f) = UnitsOf(r, g)
  BY DEF UnitsOf
<1>2. Units(S, f) = Units(S, g)
  BY <1>1 DEF Units
<1> QED
  BY <1>2 DEF Total

(* Sums over disjoint sets add up. *)
LEMMA TotalUnion ==
    ASSUME NEW S, IsFiniteSet(S), NEW T, IsFiniteSet(T), S \cap T = {},
           NEW f, \A r \in S \cup T : f[r] \in Nat
    PROVE  Total(S \cup T, f) = Total(S, f) + Total(T, f)
<1>1. IsFiniteSet(Units(S, f)) /\ IsFiniteSet(Units(T, f))
  BY UnitsFinite
<1>2. Units(S \cup T, f) = Units(S, f) \cup Units(T, f)
  BY DEF Units
<1>3. Units(S, f) \cap Units(T, f) = {}
  <2> SUFFICES ASSUME NEW u \in Units(S, f), u \in Units(T, f)
               PROVE  FALSE
    OBVIOUS
  <2>1. PICK r \in S : u \in UnitsOf(r, f)
    BY DEF Units
  <2>2. PICK q \in T : u \in UnitsOf(q, f)
    BY DEF Units
  <2> QED
    BY <2>1, <2>2 DEF UnitsOf
<1>4. Cardinality(Units(S, f) \cap Units(T, f)) = 0
  BY <1>3, FS_EmptySet
<1>5. Cardinality(Units(S, f)) \in Nat /\ Cardinality(Units(T, f)) \in Nat
  BY <1>1, FS_CardinalityType
<1>6. Cardinality(Units(S, f) \cup Units(T, f))
         = Cardinality(Units(S, f)) + Cardinality(Units(T, f))
             - Cardinality(Units(S, f) \cap Units(T, f))
  BY <1>1, FS_Union
<1>7. Cardinality(Units(S, f) \cup Units(T, f))
         = Cardinality(Units(S, f)) + Cardinality(Units(T, f))
  BY <1>4, <1>5, <1>6
<1> QED
  BY <1>2, <1>7 DEF Total

(* A new element adds its amount. *)
LEMMA TotalAdd ==
    ASSUME NEW S, IsFiniteSet(S), NEW r, r \notin S,
           NEW f, \A q \in S \cup {r} : f[q] \in Nat
    PROVE  Total(S \cup {r}, f) = Total(S, f) + f[r]
<1>1. IsFiniteSet({r})
  BY FS_Singleton
<1>2. Total({r}, f) = f[r]
  BY TotalSingleton
<1>3. S \cap {r} = {}
  OBVIOUS
<1> QED
  BY <1>1, <1>2, <1>3, TotalUnion

(* Taking a subset away takes its sum away, and that sum is no larger. *)
LEMMA TotalDiff ==
    ASSUME NEW S, IsFiniteSet(S), NEW T \in SUBSET S,
           NEW f, \A r \in S : f[r] \in Nat
    PROVE  /\ Total(S \ T, f) = Total(S, f) - Total(T, f)
           /\ Total(T, f) <= Total(S, f)
<1>1. IsFiniteSet(T) /\ IsFiniteSet(S \ T)
  BY FS_Subset, FS_Difference
<1>2. (S \ T) \cup T = S /\ (S \ T) \cap T = {}
  OBVIOUS
<1>3. Total(S, f) = Total(S \ T, f) + Total(T, f)
  BY <1>1, <1>2, TotalUnion
<1>4. Total(S \ T, f) \in Nat /\ Total(T, f) \in Nat
  BY <1>1, TotalNat
<1> QED
  BY <1>3, <1>4

(* Taking one element away takes its amount away. *)
LEMMA TotalRemove ==
    ASSUME NEW S, IsFiniteSet(S), NEW r \in S,
           NEW f, \A q \in S : f[q] \in Nat
    PROVE  /\ Total(S \ {r}, f) = Total(S, f) - f[r]
           /\ f[r] <= Total(S, f)
<1>1. {r} \in SUBSET S
  OBVIOUS
<1>2. Total({r}, f) = f[r]
  BY TotalSingleton
<1> QED
  BY <1>1, <1>2, TotalDiff

(* The sum of nothing but zeroes is zero. *)
LEMMA TotalZero ==
    ASSUME NEW S, NEW f, \A r \in S : f[r] = 0
    PROVE  Total(S, f) = 0
<1>1. Units(S, f) = {}
  BY DEF Units, UnitsOf
<1> QED
  BY <1>1, FS_EmptySet DEF Total

(* Rows matched one to one with rows of the same amount have the same sum. *)
LEMMA TotalBijection ==
    ASSUME NEW S, IsFiniteSet(S), NEW T, NEW h \in Bijection(S, T),
           NEW f, NEW g, \A r \in S : f[r] \in Nat /\ f[r] = g[h[r]]
    PROVE  Total(S, f) = Total(T, g)
<1> DEFINE U == Units(S, f)
           V == Units(T, g)
           m == [z \in U |-> <<h[z[1]], z[2]>>]
<1>1. /\ h \in [S -> T]
      /\ \A x, y \in S : h[x] = h[y] => x = y
      /\ \A t \in T : \E x \in S : h[x] = t
  BY DEF Bijection, Injection, Surjection, IsInjective
<1>2. \A z : z \in U <=> \E r \in S : \E i \in 1 .. f[r] : z = <<r, i>>
  BY DEF Units, UnitsOf
<1>3. \A z : z \in V <=> \E t \in T : \E i \in 1 .. g[t] : z = <<t, i>>
  BY DEF Units, UnitsOf
<1> HIDE DEF U, V
<1>4. m \in [U -> V]
  <2>1. ASSUME NEW z \in U PROVE <<h[z[1]], z[2]>> \in V
    <3>1. PICK r \in S : \E i \in 1 .. f[r] : z = <<r, i>>
      BY <1>2
    <3>2. PICK i \in 1 .. f[r] : z = <<r, i>>
      BY <3>1
    <3>3. h[r] \in T /\ i \in 1 .. g[h[r]]
      BY <1>1
    <3> QED
      BY <1>3, <3>2, <3>3
  <2> QED
    BY <2>1
<1>5. ASSUME NEW y \in U, NEW z \in U, m[y] = m[z] PROVE y = z
  <2>1. PICK r \in S : \E i \in 1 .. f[r] : y = <<r, i>>
    BY <1>2
  <2>2. PICK q \in S : \E j \in 1 .. f[q] : z = <<q, j>>
    BY <1>2
  <2>3. PICK i, j : y = <<r, i>> /\ z = <<q, j>>
    BY <2>1, <2>2
  <2>4. <<h[r], i>> = <<h[q], j>>
    BY <1>5, <2>3
  <2> QED
    BY <1>1, <2>3, <2>4
<1>6. ASSUME NEW v \in V PROVE \E z \in U : m[z] = v
  <2>1. PICK t \in T : \E i \in 1 .. g[t] : v = <<t, i>>
    BY <1>3
  <2>2. PICK i \in 1 .. g[t] : v = <<t, i>>
    BY <2>1
  <2>3. PICK r \in S : h[r] = t
    BY <1>1
  <2>4. <<r, i>> \in U
    BY <1>2, <2>2, <2>3
  <2> QED
    BY <2>2, <2>3, <2>4
<1>7. m \in Bijection(U, V)
  <2> HIDE DEF m
  <2> QED
    BY <1>4, <1>5, <1>6 DEF Bijection, Injection, Surjection, IsInjective
<1>8. IsFiniteSet(U)
  BY UnitsFinite DEF U
<1>9. ExistsBijection(U, V)
  BY <1>7 DEF ExistsBijection
<1> QED
  BY <1>8, <1>9, FS_Bijection DEF Total, U, V
===============================================================================
