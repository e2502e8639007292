-------------------------- MODULE FiniteSetFacts --------------------------
(***************************************************************************)
(* Facts on finite sets that the theorems of several modules rest on.      *)
(***************************************************************************)
EXTENDS Integers, FiniteSets, FiniteSetsExt, FiniteSetTheorems, TLAPS

\* A finite non-empty set of integers has a largest element.
LEMMA FiniteSetHasMax ==
    ASSUME NEW S, S \subseteq Int, IsFiniteSet(S), S # {}
    PROVE  Max(S) \in S /\ \A y \in S : Max(S) >= y
<1> DEFINE Covers == {U \in SUBSET S : U # {} /\ \A x \in S : \E u \in U : u >= x}
<1>1. PICK U \in Covers : \A V \in Covers : ~(<<V, U>> \in StrictSubsetOrdering(S))
    <2>1. IsWellFoundedOn(StrictSubsetOrdering(S), SUBSET S)
        BY FS_StrictSubsetOrderingWellFounded, FS_FiniteSubsetsOfFinite
    <2>2. S \in Covers
        OBVIOUS
    <2> QED BY <2>1, <2>2, WFMin
<1>2. PICK u \in U : TRUE
    OBVIOUS
<1>3. U = {u}
    <2> SUFFICES ASSUME NEW v \in U, v # u PROVE FALSE
        OBVIOUS
    <2> DEFINE V == IF u >= v THEN U \ {v} ELSE U \ {u}
    <2>1. V \in SUBSET S /\ V # {} /\ V \subseteq U /\ V # U
        OBVIOUS
    <2>2. ASSUME NEW x \in S PROVE \E w \in V : w >= x
        <3>1. PICK w \in U : w >= x
            OBVIOUS
        <3>2. u \in Int /\ v \in Int /\ w \in Int /\ x \in Int
            OBVIOUS
        <3> QED BY <3>1, <3>2
    <2>3. <<V, U>> \in StrictSubsetOrdering(S)
        BY <2>1 DEF StrictSubsetOrdering
    <2> QED BY <1>1, <2>1, <2>2, <2>3
<1>4. u \in S /\ \A y \in S : u >= y
    BY <1>3
<1> QED BY <1>4 DEF Max

\* The values of a function on a finite set are finitely many.
LEMMA FiniteImage ==
    ASSUME NEW S, IsFiniteSet(S), NEW f, DOMAIN f = S, f \in [S -> {f[x] : x \in S}]
    PROVE  IsFiniteSet({f[x] : x \in S})
<1>1. f \in Surjection(S, {f[x] : x \in S})
    BY DEF Surjection
<1> QED BY <1>1, FS_Surjection

\* Of finitely many spans one starts first.
LEMMA FirstStart ==
    ASSUME NEW S, IsFiniteSet(S), S # {}, \A s \in S : s.start \in Nat
    PROVE  \E s \in S : \A t \in S : s.start <= t.start
<1> DEFINE f == [s \in S |-> 0 - s.start]
           starts == {f[s] : s \in S}
<1>1. IsFiniteSet(starts)
    <2>1. DOMAIN f = S /\ f \in [S -> {f[s] : s \in S}]
        OBVIOUS
    <2> HIDE DEF f
    <2> QED BY <2>1, FiniteImage
<1>2. starts \subseteq Int /\ starts # {}
    OBVIOUS
<1>3. PICK m \in starts : \A n \in starts : m >= n
    <2> HIDE DEF starts
    <2> QED BY <1>1, <1>2, FiniteSetHasMax
<1>4. PICK s \in S : m = f[s]
    OBVIOUS
<1>5. ASSUME NEW t \in S PROVE s.start <= t.start
    <2>1. f[t] \in starts
        OBVIOUS
    <2>2. f[s] >= f[t]
        BY <1>3, <1>4, <2>1
    <2> QED BY <2>2
<1> QED BY <1>5

\* The number of starts of a pattern among finitely many spans, and whether there is one.
LEMMA StartsOfPattern ==
    ASSUME NEW S, IsFiniteSet(S), NEW p
    PROVE  LET starts == {s.start : s \in {t \in S : t.pat = p}}
           IN Cardinality(starts) \in Nat /\ (Cardinality(starts) > 0 <=> \E s \in S : s.pat = p)
<1> DEFINE mine == {t \in S : t.pat = p}
           f == [s \in mine |-> s.start]
           starts == {s.start : s \in mine}
<1>1. IsFiniteSet(mine)
    BY FS_Subset
<1>2. starts = {f[s] : s \in mine}
    OBVIOUS
<1>3. IsFiniteSet(starts)
    <2>1. DOMAIN f = mine /\ f \in [mine -> {f[s] : s \in mine}]
        OBVIOUS
    <2> HIDE DEF f, mine, starts
    <2> QED BY <1>1, <1>2, <2>1, FiniteImage
<1>4. starts = {} <=> ~\E s \in S : s.pat = p
    OBVIOUS
<1>5. Cardinality(starts) \in Nat /\ (Cardinality(starts) = 0 <=> starts = {})
    <2> HIDE DEF starts
    <2> QED BY <1>3, FS_EmptySet, FS_CardinalityType
<1>6. Cardinality(starts) \in Nat /\ (Cardinality(starts) > 0 <=> \E s \in S : s.pat = p)
    <2> HIDE DEF starts
    <2> QED BY <1>4, <1>5
<1> QED BY <1>6

\* The largest element of a set that has one.
LEMMA MaxIs ==
    ASSUME NEW S, S \subseteq Int, NEW m \in S, \A y \in S : m >= y
    PROVE  Max(S) = m
<1>1. Max(S) \in S /\ \A y \in S : Max(S) >= y
    BY DEF Max
<1>2. Max(S) \in Int /\ m \in Int /\ Max(S) >= m /\ m >= Max(S)
    BY <1>1
<1> QED BY <1>2

\* Induction, for a set: a non-empty set of numbers has a least one.
LEMMA LeastNumber ==
    ASSUME NEW S, S \subseteq Nat, S # {}
    PROVE  \E n \in S : \A m \in S : n <= m
<1>1. PICK k \in S : TRUE
    OBVIOUS
<1> DEFINE T == {m \in 0 .. k : m \in S}
           f == [m \in T |-> 0 - m]
           negated == {f[m] : m \in T}
<1>2. k \in Nat /\ k \in T
    BY <1>1
<1>3. IsFiniteSet(T)
    <2>1. IsFiniteSet(0 .. k) /\ T \subseteq 0 .. k
        BY <1>2, FS_Interval
    <2> HIDE DEF T
    <2> QED BY <2>1, FS_Subset
<1>4. IsFiniteSet(negated)
    <2>1. DOMAIN f = T /\ f \in [T -> {f[m] : m \in T}]
        OBVIOUS
    <2> HIDE DEF f, T
    <2> QED BY <1>3, <2>1, FiniteImage
<1>5. negated \subseteq Int /\ negated # {}
    BY <1>2
<1>6. PICK g \in negated : \A h \in negated : g >= h
    <2> HIDE DEF negated
    <2> QED BY <1>4, <1>5, FiniteSetHasMax
<1>7. PICK n \in T : g = f[n]
    OBVIOUS
<1>8. ASSUME NEW m \in S PROVE n <= m
    <2>1. CASE m <= k
        <3>1. m \in T
            BY <2>1
        <3>2. f[m] \in negated
            BY <3>1
        <3> QED BY <1>6, <1>7, <3>1, <3>2
    <2>2. CASE ~(m <= k)
        BY <1>2, <2>2
    <2> QED BY <2>1, <2>2
<1> QED BY <1>7, <1>8
============================================================================
