------------------------- MODULE MemoryRecordsProofs -------------------------
(***************************************************************************)
(* Facts about the operators of MemoryRecords, for every list of records.   *)
(***************************************************************************)
EXTENDS MemoryRecords, FiniteSetTheorems, SequenceTheorems, WellFoundedInduction,
        NaturalsInduction, TLAPS

(***************************************************************************)
(* Induction over the natural numbers, stated for sets rather than for       *)
(* predicates: it follows from the least element of a non-empty set.         *)
(***************************************************************************)
Less == {p \in Nat \X Nat : p[1] < p[2]}

(* The order of the naturals, as a set of pairs, is well founded. *)
LEMMA LessWellFounded == IsWellFoundedOn(Less, Nat)
<1>1. Less = OpToRel(<, Nat)
  BY Zenon DEF Less, OpToRel
<1> QED
  BY <1>1, NatLessThanWellFounded, Zenon

(* A non-empty set of naturals has a least element. *)
LEMMA LeastNatural ==
  ASSUME NEW S \in SUBSET Nat, S # {}
  PROVE  \E n \in S : \A m \in S : n <= m
<1>1. PICK n \in S : \A m \in S : ~ (<<m, n>> \in Less)
  BY WFMin, LessWellFounded
<1>2. \A m \in S : ~ (m < n)
  BY <1>1 DEF Less
<1> QED
  BY <1>2

(* The least element of a non-empty set of naturals is what Min chooses. *)
LEMMA MinOfNaturals ==
  ASSUME NEW S \in SUBSET Nat, S # {}
  PROVE  Min(S) \in S
<1>1. \E n \in S : \A m \in S : n =< m
  BY LeastNatural
<1> QED
  BY <1>1 DEF Min

(* A set that holds 0 and, with each element below a bound, its successor    *)
(* holds every natural up to the bound.                                      *)
LEMMA InductionUpTo ==
  ASSUME NEW N \in Nat, NEW S,
         0 \in S, \A n \in 0..N : n \in S /\ n < N => n + 1 \in S
  PROVE  \A n \in 0..N : n \in S
<1> DEFINE Missing == {n \in 0..N : n \notin S}
<1> SUFFICES ASSUME Missing # {} PROVE FALSE
  OBVIOUS
<1>1. Missing \in SUBSET Nat
  OBVIOUS
<1>2. PICK least \in Missing : \A m \in Missing : least <= m
  BY <1>1, LeastNatural
<1>3. least # 0 /\ least \in 0..N
  OBVIOUS
<1>4. least - 1 \in 0..N /\ least - 1 < N
  BY <1>3
<1>5. least - 1 \in S
  BY <1>2, <1>4
<1>6. least \in S
  BY <1>4, <1>5, <1>3
<1> QED
  BY <1>6

(***************************************************************************)
(* Without: the recursive function inside it exists, and what it returns is  *)
(* a subsequence of its argument.                                            *)
(***************************************************************************)
FilterStep(s, dropped, f) ==
  [n \in 0..Len(s) |->
     IF n = 0 THEN << >>
     ELSE IF s[n] \in dropped THEN f[n - 1]
     ELSE Append(f[n - 1], s[n])]

Filter(s, dropped) == CHOOSE f : f = FilterStep(s, dropped, f)

(* e places the elements of t, in order, at kept positions of s up to n. *)
Embeds(e, t, s, dropped, n) ==
  /\ e \in [1..Len(t) -> 1..n]
  /\ \A i, j \in 1..Len(t) : i < j => e[i] < e[j]
  /\ \A j \in 1..Len(t) : t[j] = s[e[j]] /\ s[e[j]] \notin dropped
  /\ \A m \in 1..n : s[m] \notin dropped => \E j \in 1..Len(t) : t[j] = s[m]

(* Every prefix of a list can be filtered, so the recursion defines a function. *)
LEMMA FilterExists ==
  ASSUME NEW T, NEW s \in Seq(T), NEW dropped
  PROVE  Filter(s, dropped) = FilterStep(s, dropped, Filter(s, dropped))
<1> DEFINE N == Len(s)
<1> DEFINE Partial(f, n) ==
      /\ f \in [0..n -> Seq(T)]
      /\ f[0] = << >>
      /\ \A m \in 1..n : f[m] = IF s[m] \in dropped THEN f[m - 1]
                                 ELSE Append(f[m - 1], s[m])
<1> DEFINE Good == {n \in 0..N : \E f : Partial(f, n)}
<1>1. N \in Nat
  OBVIOUS
<1>2. 0 \in Good
  <2>1. Partial([n \in 0..0 |-> << >>], 0)
    OBVIOUS
  <2>2. 0 \in 0..N
    BY <1>1
  <2> HIDE DEF Partial
  <2> QED
    BY <2>1, <2>2
<1>3. ASSUME NEW n \in 0..N, n \in Good, n < N
      PROVE  n + 1 \in Good
  <2>1. PICK f : Partial(f, n)
    BY <1>3
  <2> DEFINE next == IF s[n + 1] \in dropped THEN f[n] ELSE Append(f[n], s[n + 1])
  <2> DEFINE g == [m \in 0..(n + 1) |-> IF m = n + 1 THEN next ELSE f[m]]
  <2>2. s[n + 1] \in T /\ f[n] \in Seq(T)
    <3>1. n + 1 \in 1..Len(s) /\ n \in 0..n
      BY <1>1, <1>3
    <3>2. f \in [0..n -> Seq(T)]
      BY <2>1
    <3> QED
      BY <3>1, <3>2
  <2>3. next \in Seq(T)
    BY <2>2
  <2>4. g \in [0..(n + 1) -> Seq(T)]
    BY <2>1, <2>3, <1>1
  <2>5. g[0] = << >>
    BY <2>1, <1>1
  <2>6. ASSUME NEW m \in 1..(n + 1)
        PROVE  g[m] = IF s[m] \in dropped THEN g[m - 1] ELSE Append(g[m - 1], s[m])
    <3>1. CASE m = n + 1
      <4>1. g[m] = next /\ g[m - 1] = f[n]
        BY <3>1, <1>1
      <4> QED
        BY <4>1, <3>1
    <3>2. CASE m \in 1..n
      <4>1. g[m] = f[m] /\ g[m - 1] = f[m - 1]
        BY <3>2, <1>1
      <4> QED
        BY <4>1, <3>2, <2>1
    <3> QED
      BY <3>1, <3>2, <1>1
  <2>7. Partial(g, n + 1)
    BY <2>4, <2>5, <2>6
  <2>8. n + 1 \in 0..N
    BY <1>1, <1>3
  <2> HIDE DEF g, Partial
  <2> QED
    BY <2>7, <2>8
<1>4. N \in Good
  <2> HIDE DEF Good
  <2>1. \A n \in 0..N : n \in Good /\ n < N => n + 1 \in Good
    BY <1>3
  <2> HIDE DEF N
  <2>2. \A n \in 0..N : n \in Good
    BY <1>1, <1>2, <2>1, InductionUpTo
  <2> QED
    BY <1>1, <2>2
<1>5. PICK f : Partial(f, N)
  BY <1>4
<1>6. f = FilterStep(s, dropped, f)
  <2>1. f = [n \in 0..N |-> f[n]]
    BY <1>5
  <2>2. \A n \in 0..N : f[n] = IF n = 0 THEN << >>
                                ELSE IF s[n] \in dropped THEN f[n - 1]
                                ELSE Append(f[n - 1], s[n])
    <3> TAKE n \in 0..N
    <3>1. CASE n = 0
      BY <1>5, <3>1
    <3>2. CASE n \in 1..N
      BY <1>5, <3>2
    <3> QED
      BY <3>1, <3>2, <1>1
  <2> QED
    BY <2>1, <2>2 DEF FilterStep
<1> QED
  BY <1>6 DEF Filter

(* Without is the value of that function at the end of the list. *)
LEMMA WithoutIsFilter ==
  ASSUME NEW s, NEW dropped
  PROVE  Without(s, dropped) = Filter(s, dropped)[Len(s)]
BY DEF Without, Filter, FilterStep

(* Without returns the kept elements and no others, in the order they had. *)
LEMMA WithoutEmbeds ==
  ASSUME NEW T, NEW s \in Seq(T), NEW dropped
  PROVE  /\ Without(s, dropped) \in Seq(T)
         /\ \E e : Embeds(e, Without(s, dropped), s, dropped, Len(s))
<1> DEFINE N == Len(s)
<1> DEFINE F == Filter(s, dropped)
<1> DEFINE Good == {n \in 0..N : F[n] \in Seq(T) /\ \E e : Embeds(e, F[n], s, dropped, n)}
<1>1. N \in Nat
  OBVIOUS
<1>2. /\ F[0] = << >>
      /\ \A n \in 1..N : F[n] = IF s[n] \in dropped THEN F[n - 1] ELSE Append(F[n - 1], s[n])
  <2> HIDE DEF F
  <2>1. F = FilterStep(s, dropped, F)
    BY FilterExists DEF F
  <2>2. \A n \in 0..N : F[n] = FilterStep(s, dropped, F)[n]
    BY <2>1
  <2>3. \A n \in 0..N : F[n] = IF n = 0 THEN << >>
                                ELSE IF s[n] \in dropped THEN F[n - 1]
                                ELSE Append(F[n - 1], s[n])
    BY <2>2 DEF FilterStep
  <2> QED
    BY <2>3, <1>1
<1> HIDE DEF F
<1>3. 0 \in Good
  <2>1. Embeds([j \in 1..0 |-> 0], << >>, s, dropped, 0)
    BY DEF Embeds
  <2>2. F[0] \in Seq(T) /\ Embeds([j \in 1..0 |-> 0], F[0], s, dropped, 0)
    BY <2>1, <1>2
  <2>3. 0 \in 0..N
    BY <1>1
  <2> QED
    BY <2>2, <2>3
<1>4. ASSUME NEW n \in 0..N, n \in Good, n < N
      PROVE  n + 1 \in Good
  <2>1. PICK e : Embeds(e, F[n], s, dropped, n)
    BY <1>4
  <2>2. F[n] \in Seq(T) /\ s[n + 1] \in T /\ n + 1 \in 1..N /\ n \in Nat
    BY <1>4, <1>1
  <2>3. F[n + 1] = IF s[n + 1] \in dropped THEN F[n] ELSE Append(F[n], s[n + 1])
    <3>1. (n + 1) - 1 = n
      BY <2>2
    <3> QED
      BY <2>2, <1>2, <3>1
  <2>4. CASE s[n + 1] \in dropped
    <3>1. F[n + 1] = F[n]
      BY <2>2, <2>4, <2>3
    <3>2. Embeds(e, F[n], s, dropped, n + 1)
      BY <2>1, <2>2, <2>4 DEF Embeds
    <3> QED
      BY <3>1, <3>2, <2>2
  <2>5. CASE s[n + 1] \notin dropped
    <3> DEFINE t == Append(F[n], s[n + 1])
    <3> DEFINE g == [j \in 1..Len(t) |-> IF j <= Len(F[n]) THEN e[j] ELSE n + 1]
    <3>1. F[n + 1] = t
      BY <2>5, <2>3
    <3>2. /\ t \in Seq(T) /\ Len(t) = Len(F[n]) + 1 /\ Len(F[n]) \in Nat
          /\ \A j \in 1..Len(F[n]) : t[j] = F[n][j]
          /\ t[Len(t)] = s[n + 1]
      BY <2>2
    <3> HIDE DEF t
    <3>3. g \in [1..Len(t) -> 1..(n + 1)]
      BY <2>1, <2>2, <3>2 DEF Embeds
    <3>4. ASSUME NEW i \in 1..Len(t), NEW j \in 1..Len(t), i < j
          PROVE  g[i] < g[j]
      <4>1. i \in 1..Len(F[n]) /\ g[i] = e[i] /\ e[i] \in 1..n
        BY <3>2, <3>4, <2>1 DEF Embeds
      <4>2. CASE j \in 1..Len(F[n])
        <5>1. g[j] = e[j]
          BY <4>2, <3>2
        <5>2. e[i] < e[j]
          BY <4>1, <4>2, <3>4, <2>1 DEF Embeds
        <5> QED
          BY <4>1, <5>1, <5>2
      <4>3. CASE j = Len(t)
        <5>1. g[j] = n + 1
          BY <4>3, <3>2
        <5> QED
          BY <5>1, <4>1, <2>2
      <4> QED
        BY <4>2, <4>3, <3>2
    <3>5. \A j \in 1..Len(t) : t[j] = s[g[j]] /\ s[g[j]] \notin dropped
      BY <2>1, <2>2, <2>5, <3>2 DEF Embeds
    <3>6. ASSUME NEW m \in 1..(n + 1), s[m] \notin dropped
          PROVE  \E j \in 1..Len(t) : t[j] = s[m]
      <4>1. CASE m = n + 1
        BY <4>1, <3>2
      <4>2. CASE m \in 1..n
        <5>1. PICK j \in 1..Len(F[n]) : F[n][j] = s[m]
          BY <2>1, <3>6, <4>2 DEF Embeds
        <5> QED
          BY <5>1, <3>2
      <4> QED
        BY <4>1, <4>2, <2>2
    <3>7. Embeds(g, t, s, dropped, n + 1)
      BY <3>3, <3>4, <3>5, <3>6 DEF Embeds
    <3> QED
      BY <3>1, <3>2, <3>7, <2>2
  <2> QED
    BY <2>4, <2>5
<1>5. \A n \in 0..N : n \in Good
  <2> HIDE DEF Good, N
  <2>1. \A n \in 0..N : n \in Good /\ n < N => n + 1 \in Good
    BY <1>4
  <2> QED
    BY <1>1, <1>3, <2>1, InductionUpTo
<1>6. N \in Good
  BY <1>1, <1>5
<1> QED
  BY <1>6, WithoutIsFilter DEF F

(* How the filter goes along a list. *)
LEMMA FilterUnfolds ==
  ASSUME NEW T, NEW s \in Seq(T), NEW dropped
  PROVE  /\ Filter(s, dropped)[0] = << >>
         /\ \A n \in 1..Len(s) :
              Filter(s, dropped)[n] = IF s[n] \in dropped THEN Filter(s, dropped)[n - 1]
                                      ELSE Append(Filter(s, dropped)[n - 1], s[n])
<1> DEFINE F == Filter(s, dropped)
<1> HIDE DEF F
<1>1. F = FilterStep(s, dropped, F)
  BY FilterExists DEF F
<1>2. \A n \in 0..Len(s) : F[n] = FilterStep(s, dropped, F)[n]
  BY <1>1
<1>3. \A n \in 0..Len(s) : F[n] = IF n = 0 THEN << >>
                                  ELSE IF s[n] \in dropped THEN F[n - 1]
                                  ELSE Append(F[n - 1], s[n])
  BY <1>2 DEF FilterStep
<1>4. 0 \in 0..Len(s) /\ \A n \in 1..Len(s) : n \in 0..Len(s) /\ n # 0
  <2>1. Len(s) \in Nat
    OBVIOUS
  <2> QED
    BY <2>1
<1>5. /\ F[0] = << >>
      /\ \A n \in 1..Len(s) : F[n] = IF s[n] \in dropped THEN F[n - 1]
                                      ELSE Append(F[n - 1], s[n])
  BY <1>3, <1>4
<1> QED
  BY <1>5 DEF F

(* What it has of every prefix is a list. *)
LEMMA FilterIsList ==
  ASSUME NEW T, NEW s \in Seq(T), NEW dropped
  PROVE  \A n \in 0..Len(s) : Filter(s, dropped)[n] \in Seq(T)
<1> DEFINE F == Filter(s, dropped)
<1> DEFINE N == Len(s)
<1> DEFINE Good == {n \in 0..N : F[n] \in Seq(T)}
<1>0. N \in Nat /\ \A n \in 1..N : s[n] \in T
  OBVIOUS
<1>1. F[0] = << >> /\ \A n \in 1..N : F[n] = IF s[n] \in dropped THEN F[n - 1]
                                             ELSE Append(F[n - 1], s[n])
  BY FilterUnfolds
<1> HIDE DEF F, N
<1>2. 0 \in Good
  <2>1. << >> \in Seq(T) /\ 0 \in 0..N
    BY <1>0
  <2> QED
    BY <1>1, <2>1
<1>3. ASSUME NEW n \in 0..N, n \in Good, n < N
      PROVE  n + 1 \in Good
  <2>1. n + 1 \in 1..N /\ (n + 1) - 1 = n /\ n + 1 \in 0..N
    BY <1>0, <1>3
  <2>2. F[n + 1] = IF s[n + 1] \in dropped THEN F[n] ELSE Append(F[n], s[n + 1])
    BY <1>1, <2>1
  <2>3. F[n] \in Seq(T) /\ s[n + 1] \in T
    BY <1>0, <1>3, <2>1
  <2>4. Append(F[n], s[n + 1]) \in Seq(T)
    BY <2>3, AppendProperties
  <2>5. F[n + 1] \in Seq(T)
    BY <2>2, <2>3, <2>4
  <2> QED
    BY <2>1, <2>5
<1>4. \A n \in 0..N : n \in Good
  <2> HIDE DEF Good
  <2>1. \A n \in 0..N : n \in Good /\ n < N => n + 1 \in Good
    BY <1>3
  <2> QED
    BY <1>0, <1>2, <2>1, InductionUpTo
<1> QED
  BY <1>4 DEF F, N

(* Two lists that differ only in what is dropped of them are the same without it. *)
LEMMA FilterSame ==
  ASSUME NEW T, NEW s \in Seq(T), NEW t \in Seq(T), NEW d, NEW e, NEW k \in Nat,
         k <= Len(s), k <= Len(t),
         \A i \in 1..k : \/ s[i] \in d /\ t[i] \in e
                         \/ s[i] \notin d /\ t[i] \notin e /\ s[i] = t[i]
  PROVE  Filter(s, d)[k] = Filter(t, e)[k]
<1> DEFINE F == Filter(s, d)
<1> DEFINE G == Filter(t, e)
<1> DEFINE Good == {n \in 0..k : F[n] = G[n]}
<1>1. F[0] = << >> /\ \A n \in 1..k : F[n] = IF s[n] \in d THEN F[n - 1]
                                             ELSE Append(F[n - 1], s[n])
  BY FilterUnfolds
<1>2. G[0] = << >> /\ \A n \in 1..k : G[n] = IF t[n] \in e THEN G[n - 1]
                                             ELSE Append(G[n - 1], t[n])
  BY FilterUnfolds
<1> HIDE DEF F, G
<1>3. 0 \in Good
  BY <1>1, <1>2
<1>4. ASSUME NEW n \in 0..k, n \in Good, n < k
      PROVE  n + 1 \in Good
  <2>1. n + 1 \in 1..k /\ (n + 1) - 1 = n /\ n + 1 \in 0..k
    BY <1>4
  <2>2. F[n + 1] = IF s[n + 1] \in d THEN F[n] ELSE Append(F[n], s[n + 1])
    BY <1>1, <2>1
  <2>3. G[n + 1] = IF t[n + 1] \in e THEN G[n] ELSE Append(G[n], t[n + 1])
    BY <1>2, <2>1
  <2>4. \/ s[n + 1] \in d /\ t[n + 1] \in e
        \/ s[n + 1] \notin d /\ t[n + 1] \notin e /\ s[n + 1] = t[n + 1]
    BY <2>1
  <2>5. F[n + 1] = G[n + 1]
    BY <1>4, <2>2, <2>3, <2>4
  <2> QED
    BY <2>1, <2>5
<1>5. \A n \in 0..k : n \in Good
  <2> HIDE DEF Good
  <2>1. \A n \in 0..k : n \in Good /\ n < k => n + 1 \in Good
    BY <1>4
  <2> QED
    BY <1>3, <2>1, InductionUpTo
<1>6. k \in 0..k
  OBVIOUS
<1> QED
  BY <1>5, <1>6 DEF F, G

(* What is dropped matters only as far as the list goes. *)
LEMMA WithoutSame ==
  ASSUME NEW T, NEW s \in Seq(T), NEW d, NEW e, \A x \in Range(s) : x \in d <=> x \in e
  PROVE  Without(s, d) = Without(s, e)
<1> DEFINE n == Len(s)
<1>1. n \in Nat /\ n <= Len(s)
  OBVIOUS
<1>2. \A i \in 1..n : \/ s[i] \in d /\ s[i] \in e
                      \/ s[i] \notin d /\ s[i] \notin e /\ s[i] = s[i]
  <2>1. \A i \in 1..n : s[i] \in Range(s)
    BY DEF Range
  <2> QED
    BY <2>1
<1>3. Without(s, d) = Filter(s, d)[n] /\ Without(s, e) = Filter(s, e)[n]
  BY WithoutIsFilter
<1> HIDE DEF n
<1>4. Filter(s, d)[n] = Filter(s, e)[n]
  BY <1>1, <1>2, FilterSame
<1> QED
  BY <1>3, <1>4

(* A list without everything in it is empty. *)
LEMMA WithoutAll ==
  ASSUME NEW T, NEW s \in Seq(T), NEW d, \A x \in Range(s) : x \in d
  PROVE  Without(s, d) = << >>
<1> DEFINE t == Without(s, d)
<1>1. t \in Seq(T)
  BY WithoutEmbeds
<1>2. PICK e : Embeds(e, t, s, d, Len(s))
  BY WithoutEmbeds
<1> HIDE DEF t
<1>3. \A j \in 1..Len(t) : e[j] \in 1..Len(s) /\ s[e[j]] \notin d
  BY <1>2 DEF Embeds
<1>4. \A i \in 1..Len(s) : s[i] \in d
  BY DEF Range
<1>5. ~ (1 \in 1..Len(t))
  BY <1>3, <1>4
<1>6. Len(t) = 0
  <2>1. Len(t) \in Nat
    BY <1>1
  <2> QED
    BY <1>5, <2>1
<1>7. t = << >>
  BY <1>1, <1>6
<1> QED
  BY <1>7 DEF t

(* One more element at the end. *)
LEMMA WithoutOfAppend ==
  ASSUME NEW T, NEW s \in Seq(T), NEW x \in T, NEW d
  PROVE  Without(Append(s, x), d)
           = IF x \in d THEN Without(s, d) ELSE Append(Without(s, d), x)
<1> DEFINE t == Append(s, x)
<1> DEFINE n == Len(s)
<1>1. /\ t \in Seq(T) /\ Len(t) = n + 1 /\ n \in Nat /\ t[n + 1] = x
      /\ \A i \in 1..n : t[i] = s[i]
  OBVIOUS
<1> HIDE DEF t, n
<1>2. Filter(t, d)[n + 1] = IF t[n + 1] \in d THEN Filter(t, d)[n]
                            ELSE Append(Filter(t, d)[n], t[n + 1])
  <2>1. n + 1 \in 1..Len(t) /\ (n + 1) - 1 = n
    BY <1>1
  <2> QED
    BY <1>1, <2>1, FilterUnfolds
<1>3. Filter(t, d)[n] = Filter(s, d)[n]
  <2>1. n \in Nat /\ n <= Len(s) /\ n <= Len(t)
    BY <1>1 DEF n
  <2>2. \A i \in 1..n : \/ t[i] \in d /\ s[i] \in d
                        \/ t[i] \notin d /\ s[i] \notin d /\ t[i] = s[i]
    BY <1>1
  <2> QED
    BY <1>1, <2>1, <2>2, FilterSame
<1>4. Without(t, d) = Filter(t, d)[n + 1]
  BY <1>1, WithoutIsFilter
<1>5. Without(s, d) = Filter(s, d)[n]
  BY WithoutIsFilter DEF n
<1> QED
  BY <1>1, <1>2, <1>3, <1>4, <1>5 DEF t

(* Dropping twice is dropping both. *)
LEMMA WithoutTwice ==
  ASSUME NEW T, NEW s \in Seq(T), NEW d, NEW e
  PROVE  Without(Without(s, d), e) = Without(s, d \cup e)
<1> DEFINE N == Len(s)
<1> DEFINE F == Filter(s, d)
<1> DEFINE G == Filter(s, d \cup e)
<1> DEFINE Good == {n \in 0..N : Without(F[n], e) = G[n]}
<1>0. N \in Nat /\ \A n \in 1..N : s[n] \in T
  OBVIOUS
<1>1. F[0] = << >> /\ \A n \in 1..N : F[n] = IF s[n] \in d THEN F[n - 1]
                                             ELSE Append(F[n - 1], s[n])
  BY FilterUnfolds
<1>2. G[0] = << >> /\ \A n \in 1..N : G[n] = IF s[n] \in d \cup e THEN G[n - 1]
                                             ELSE Append(G[n - 1], s[n])
  <2> DEFINE both == d \cup e
  <2> HIDE DEF both
  <2> QED
    BY FilterUnfolds DEF both
<1>3. \A n \in 0..N : F[n] \in Seq(T)
  BY FilterIsList
<1> HIDE DEF F, G, N
<1>4. 0 \in Good
  <2>1. << >> \in Seq(T) /\ \A x \in Range(<< >>) : x \in e
    BY DEF Range
  <2>2. Without(<< >>, e) = << >>
    BY <2>1, WithoutAll
  <2> QED
    BY <1>0, <1>1, <1>2, <2>2
<1>5. ASSUME NEW n \in 0..N, n \in Good, n < N
      PROVE  n + 1 \in Good
  <2>1. n + 1 \in 1..N /\ (n + 1) - 1 = n /\ n + 1 \in 0..N
    BY <1>0, <1>5
  <2>2. F[n + 1] = IF s[n + 1] \in d THEN F[n] ELSE Append(F[n], s[n + 1])
    BY <1>1, <2>1
  <2>3. G[n + 1] = IF s[n + 1] \in d \cup e THEN G[n] ELSE Append(G[n], s[n + 1])
    BY <1>2, <2>1
  <2>4. F[n] \in Seq(T) /\ s[n + 1] \in T /\ Without(F[n], e) = G[n]
    BY <1>0, <1>3, <1>5, <2>1
  <2>5. Without(Append(F[n], s[n + 1]), e)
          = IF s[n + 1] \in e THEN Without(F[n], e) ELSE Append(Without(F[n], e), s[n + 1])
    <3> DEFINE u == F[n]
    <3> DEFINE y == s[n + 1]
    <3>1. u \in Seq(T) /\ y \in T
      BY <2>4
    <3> HIDE DEF u, y
    <3>2. Without(Append(u, y), e) = IF y \in e THEN Without(u, e) ELSE Append(Without(u, e), y)
      BY <3>1, WithoutOfAppend
    <3> QED
      BY <3>2 DEF u, y
  <2>6. Without(F[n + 1], e) = G[n + 1]
    BY <2>2, <2>3, <2>4, <2>5
  <2> QED
    BY <2>1, <2>6
<1>6. \A n \in 0..N : n \in Good
  <2> HIDE DEF Good
  <2>1. \A n \in 0..N : n \in Good /\ n < N => n + 1 \in Good
    BY <1>5
  <2> QED
    BY <1>0, <1>4, <2>1, InductionUpTo
<1>7. Without(F[N], e) = G[N]
  BY <1>0, <1>6
<1>8. Without(s, d) = F[N] /\ Without(s, d \cup e) = G[N]
  <2> DEFINE both == d \cup e
  <2> HIDE DEF both
  <2>1. Without(s, both) = Filter(s, both)[N]
    BY WithoutIsFilter DEF N
  <2> QED
    BY <2>1, WithoutIsFilter DEF F, G, N, both
<1> QED
  BY <1>7, <1>8

(* The last element replaced, and one appended after a replacement. *)
LEMMA LastReplaced ==
  ASSUME NEW T, NEW u \in Seq(T), NEW x \in T, NEW y \in T
  PROVE  LET t == Append(u, y)
         IN  /\ Len(t) \in 1..Len(t) /\ t[Len(t)] = y
             /\ Append(u, x) = [t EXCEPT ![Len(t)] = x]
<1> DEFINE t == Append(u, y)
<1> DEFINE n == Len(u) + 1
<1>1. /\ t \in Seq(T) /\ Len(t) = n /\ n \in 1..n /\ t[n] = y
      /\ Append(u, x) \in Seq(T) /\ Len(Append(u, x)) = n
      /\ \A i \in 1..n : i = n \/ i \in 1..Len(u)
  OBVIOUS
<1>2. \A i \in 1..n : Append(u, x)[i] = IF i = n THEN x ELSE t[i]
  OBVIOUS
<1> DEFINE a == Append(u, x)
<1> DEFINE b == [t EXCEPT ![n] = x]
<1> HIDE DEF t, n, a
<1>3. b \in Seq(T) /\ Len(b) = n /\ \A i \in 1..n : b[i] = IF i = n THEN x ELSE t[i]
  BY <1>1
<1> HIDE DEF b
<1>4. a \in Seq(T) /\ Len(a) = n /\ \A i \in 1..n : a[i] = b[i]
  BY <1>1, <1>2, <1>3 DEF a
<1>5. a = b
  BY <1>3, <1>4, SeqEqual
<1> QED
  BY <1>1, <1>5 DEF a, b, t

(* An element appended to a list in which one was replaced. *)
LEMMA AppendAfterReplacing ==
  ASSUME NEW T, NEW u \in Seq(T), NEW x \in T, NEW y \in T, NEW q \in 1..Len(u)
  PROVE  /\ q \in 1..Len(Append(u, y)) /\ Append(u, y)[q] = u[q]
         /\ Append([u EXCEPT ![q] = x], y) = [Append(u, y) EXCEPT ![q] = x]
<1> DEFINE v == [u EXCEPT ![q] = x]
<1> DEFINE n == Len(u) + 1
<1> DEFINE t == Append(u, y)
<1>1. v \in Seq(T) /\ Len(v) = Len(u) /\ \A i \in 1..Len(u) : v[i] = IF i = q THEN x ELSE u[i]
  OBVIOUS
<1>2. /\ t \in Seq(T) /\ Len(t) = n /\ t[n] = y /\ \A i \in 1..Len(u) : t[i] = u[i]
      /\ q \in 1..n /\ q # n /\ n \in 1..n /\ \A i \in 1..n : i = n \/ i \in 1..Len(u)
  OBVIOUS
<1> HIDE DEF v, t
<1> DEFINE a == Append(v, y)
<1> DEFINE b == [t EXCEPT ![q] = x]
<1>3. a \in Seq(T) /\ Len(a) = n /\ a[n] = y /\ \A i \in 1..Len(u) : a[i] = v[i]
  BY <1>1
<1> HIDE DEF n
<1>4. b \in Seq(T) /\ Len(b) = n /\ \A i \in 1..n : b[i] = IF i = q THEN x ELSE t[i]
  BY <1>2
<1> HIDE DEF a, b
<1>5. \A i \in 1..Len(a) : a[i] = b[i]
  BY <1>1, <1>2, <1>3, <1>4
<1>6. a = b
  BY <1>3, <1>4, <1>5, SeqEqual
<1> QED
  BY <1>2, <1>6 DEF a, b, v, t

(* t is u with one of its elements, y, replaced by x. *)
OneReplaced(t, u, y, x) ==
  \E q \in 1..Len(u) : u[q] = y /\ t = [u EXCEPT ![q] = x]

(* Replacing a kept element by a kept element replaces it in the filtered list. *)
LEMMA WithoutOfReplacement ==
  ASSUME NEW T, NEW s \in Seq(T), NEW p \in 1..Len(s), NEW x \in T, NEW d,
         s[p] \notin d, x \notin d
  PROVE  OneReplaced(Without([s EXCEPT ![p] = x], d), Without(s, d), s[p], x)
<1> DEFINE t == [s EXCEPT ![p] = x]
<1> DEFINE N == Len(s)
<1> DEFINE F == Filter(s, d)
<1> DEFINE G == Filter(t, d)
<1>0. /\ N \in Nat /\ p \in 1..N /\ p - 1 \in 0..N
      /\ t \in Seq(T) /\ Len(t) = N /\ t[p] = x
      /\ \A i \in 1..N : s[i] \in T /\ (i # p => t[i] = s[i])
  OBVIOUS
<1> HIDE DEF t
<1>1. F[0] = << >> /\ \A n \in 1..N : F[n] = IF s[n] \in d THEN F[n - 1]
                                             ELSE Append(F[n - 1], s[n])
  BY FilterUnfolds
<1>2. G[0] = << >> /\ \A n \in 1..N : G[n] = IF t[n] \in d THEN G[n - 1]
                                             ELSE Append(G[n - 1], t[n])
  BY <1>0, FilterUnfolds
<1>3. \A n \in 0..N : F[n] \in Seq(T)
  BY FilterIsList
<1>4. F[p - 1] = G[p - 1]
  <2>1. p - 1 \in Nat /\ p - 1 <= Len(s) /\ p - 1 <= Len(t)
    BY <1>0
  <2>2. \A i \in 1..(p - 1) : \/ s[i] \in d /\ t[i] \in d
                              \/ s[i] \notin d /\ t[i] \notin d /\ s[i] = t[i]
    BY <1>0
  <2> DEFINE m == p - 1
  <2> HIDE DEF m, N
  <2>3. Filter(s, d)[m] = Filter(t, d)[m]
    BY <1>0, <2>1, <2>2, FilterSame DEF m
  <2> QED
    BY <2>3 DEF m
<1> DEFINE q == Len(F[p])
<1> DEFINE Replaced(n) == /\ q \in 1..Len(F[n]) /\ F[n][q] = s[p]
                          /\ G[n] = [F[n] EXCEPT ![q] = x]
<1> DEFINE Good == {n \in 0..N : n >= p => Replaced(n)}
<1> HIDE DEF F, G, N
<1>5. Replaced(p)
  <2> DEFINE u == F[p - 1]
  <2>1. u \in Seq(T) /\ s[p] \in T
    BY <1>0, <1>3
  <2>2. F[p] = Append(u, s[p])
    BY <1>0, <1>1
  <2>3. G[p] = Append(u, x)
    BY <1>0, <1>2, <1>4
  <2> DEFINE y == s[p]
  <2> HIDE DEF u, y
  <2>4. /\ Len(Append(u, y)) \in 1..Len(Append(u, y)) /\ Append(u, y)[Len(Append(u, y))] = y
        /\ Append(u, x) = [Append(u, y) EXCEPT ![Len(Append(u, y))] = x]
    BY <2>1, LastReplaced DEF y
  <2> QED
    BY <2>2, <2>3, <2>4 DEF y
<1>6. 0 \in Good
  BY <1>0
<1>7. ASSUME NEW n \in 0..N, n \in Good, n < N
      PROVE  n + 1 \in Good
  <2>0. n + 1 \in 1..N /\ (n + 1) - 1 = n /\ n + 1 \in 0..N /\ n \in Nat /\ p \in Nat
    BY <1>0, <1>7
  <2>1. CASE n + 1 < p
    BY <2>0, <2>1
  <2>2. CASE n + 1 = p
    <3> HIDE DEF Replaced
    <3> QED
      BY <1>5, <2>0, <2>2
  <2>3. CASE n >= p
    <3> DEFINE y == s[n + 1]
    <3>1. Replaced(n)
      BY <1>7, <2>3
    <3>2. t[n + 1] = y /\ y \in T
      BY <1>0, <2>0, <2>3
    <3>3. F[n + 1] = IF y \in d THEN F[n] ELSE Append(F[n], y)
      BY <1>1, <2>0
    <3>4. G[n + 1] = IF y \in d THEN G[n] ELSE Append(G[n], y)
      BY <1>2, <2>0, <3>2
    <3>5. F[n] \in Seq(T)
      BY <1>3
    <3>6. Replaced(n + 1)
      <4>1. CASE y \in d
        BY <3>1, <3>3, <3>4, <4>1
      <4>2. CASE y \notin d
        <5> DEFINE u == F[n]
        <5>1. /\ u \in Seq(T) /\ q \in 1..Len(u) /\ u[q] = s[p] /\ G[n] = [u EXCEPT ![q] = x]
              /\ F[n + 1] = Append(u, y) /\ G[n + 1] = Append([u EXCEPT ![q] = x], y)
          BY <3>1, <3>3, <3>4, <3>5, <4>2
        <5> HIDE DEF u, y, q
        <5>2. /\ q \in 1..Len(Append(u, y)) /\ Append(u, y)[q] = s[p]
              /\ Append([u EXCEPT ![q] = x], y) = [Append(u, y) EXCEPT ![q] = x]
          BY <5>1, <3>2, AppendAfterReplacing
        <5> QED
          BY <5>1, <5>2
      <4> QED
        BY <4>1, <4>2
    <3> HIDE DEF Replaced
    <3> QED
      BY <2>0, <3>6
  <2> QED
    BY <2>0, <2>1, <2>2, <2>3
<1>8. \A n \in 0..N : n \in Good
  <2> HIDE DEF Good
  <2>1. \A n \in 0..N : n \in Good /\ n < N => n + 1 \in Good
    BY <1>7
  <2> QED
    BY <1>0, <1>6, <2>1, InductionUpTo
<1>9. Replaced(N)
  <2>1. N \in 0..N /\ N >= p
    BY <1>0
  <2> HIDE DEF Replaced
  <2> QED
    BY <1>8, <2>1
<1>10. Without(s, d) = F[N] /\ Without(t, d) = G[N]
  BY <1>0, WithoutIsFilter DEF F, G, N
<1>11. OneReplaced(G[N], F[N], s[p], x)
  BY <1>9 DEF OneReplaced
<1> QED
  BY <1>10, <1>11 DEF t

(* One dropped element replaced by another changes nothing. *)
LEMMA WithoutOfHidden ==
  ASSUME NEW T, NEW s \in Seq(T), NEW p \in 1..Len(s), NEW x \in T, NEW d,
         s[p] \in d, x \in d
  PROVE  Without([s EXCEPT ![p] = x], d) = Without(s, d)
<1> DEFINE t == [s EXCEPT ![p] = x]
<1> DEFINE n == Len(s)
<1>1. /\ n \in Nat /\ n <= Len(s) /\ n <= Len(t) /\ n = Len(t) /\ t \in Seq(T)
      /\ \A i \in 1..n : t[i] = IF i = p THEN x ELSE s[i]
  OBVIOUS
<1> HIDE DEF t
<1>2. \A i \in 1..n : \/ t[i] \in d /\ s[i] \in d
                      \/ t[i] \notin d /\ s[i] \notin d /\ t[i] = s[i]
  BY <1>1
<1>3. Without(t, d) = Filter(t, d)[n] /\ Without(s, d) = Filter(s, d)[n]
  BY <1>1, WithoutIsFilter
<1> HIDE DEF n
<1>4. Filter(t, d)[n] = Filter(s, d)[n]
  BY <1>1, <1>2, FilterSame
<1> QED
  BY <1>3, <1>4 DEF t

(***************************************************************************)
(* What the three ways of changing a list preserve.                          *)
(***************************************************************************)

(* The positions of one authority are a finite set, so they can be counted. *)
LEMMA MatchingFinite ==
  ASSUME NEW recs \in Seq(Record), NEW a
  PROVE  /\ Matching(recs, a) \in SUBSET (1..Len(recs))
         /\ IsFiniteSet(Matching(recs, a))
         /\ Cardinality(Matching(recs, a)) \in Nat
<1>1. Matching(recs, a) \in SUBSET (1..Len(recs))
  BY DEF Matching
<1>2. IsFiniteSet(1..Len(recs))
  BY FS_Interval
<1>3. IsFiniteSet(Matching(recs, a))
  BY <1>1, <1>2, FS_Subset
<1> QED
  BY <1>1, <1>3, FS_CardinalityType

(* A budget that holds for every authority with a record holds for all. *)
LEMMA BudgetForAll ==
  ASSUME NEW recs \in Seq(Record), WithinBudget(recs), NEW a
  PROVE  Cardinality(Matching(recs, a)) <= MaxRecordsPerAuthority
<1>1. CASE Matching(recs, a) = {}
  BY <1>1, FS_EmptySet, BudgetAssumption
<1>2. CASE Matching(recs, a) # {}
  <2>1. PICK i \in DOMAIN recs : recs[i].authority = a
    BY <1>2 DEF Matching, Permits
  <2> QED
    BY <2>1 DEF WithinBudget
<1> QED
  BY <1>1, <1>2

(* An upsert keeps the list well typed, without duplicates and within budget. *)
LEMMA UpsertKeeps ==
  ASSUME NEW recs \in Seq(Record), UniqueKeys(recs), WithinBudget(recs),
         NEW incoming \in Record
  PROVE  /\ Upsert(recs, incoming) \in Seq(Record)
         /\ UniqueKeys(Upsert(recs, incoming))
         /\ WithinBudget(Upsert(recs, incoming))
<1> DEFINE a == incoming.authority
<1> DEFINE same == MatchingKey(recs, a, incoming.key)
<1> DEFINE new == Upsert(recs, incoming)
<1>1. CASE same # {}
  <2> DEFINE p == Min(same)
  <2>1. same \in SUBSET Nat /\ same \subseteq DOMAIN recs
    BY DEF MatchingKey, Matching
  <2>2. p \in same
    BY <1>1, <2>1, MinOfNaturals
  <2>3. p \in DOMAIN recs /\ recs[p].authority = a /\ recs[p].key = incoming.key
    BY <2>2 DEF MatchingKey, Matching, Permits
  <2>4. new = [recs EXCEPT ![p] = incoming]
    BY <1>1 DEF Upsert
  <2> HIDE DEF p, new
  <2>5. new \in Seq(Record) /\ DOMAIN new = DOMAIN recs
    BY <2>3, <2>4
  <2>6. \A i \in DOMAIN recs : /\ new[i].authority = recs[i].authority
                               /\ new[i].key = recs[i].key
    BY <2>3, <2>4
  <2>7. UniqueKeys(new)
    BY <2>5, <2>6 DEF UniqueKeys
  <2>8. \A b : Matching(new, b) = Matching(recs, b)
    BY <2>5, <2>6 DEF Matching, Permits
  <2>9. WithinBudget(new)
    BY <2>5, <2>6, <2>8 DEF WithinBudget
  <2> QED
    BY <2>5, <2>7, <2>9 DEF new
<1>2. CASE same = {} /\ Cardinality(Matching(recs, a)) >= MaxRecordsPerAuthority
  BY <1>2 DEF Upsert
<1>3. CASE same = {} /\ ~ (Cardinality(Matching(recs, a)) >= MaxRecordsPerAuthority)
  <2> DEFINE n == Len(recs) + 1
  <2>1. new = Append(recs, incoming)
    BY <1>3 DEF Upsert
  <2> HIDE DEF new
  <2>2. /\ new \in Seq(Record) /\ DOMAIN new = 1..n /\ DOMAIN recs = 1..Len(recs)
        /\ new[n] = incoming
        /\ \A i \in DOMAIN recs : new[i] = recs[i]
        /\ n \notin DOMAIN recs
        /\ DOMAIN new = DOMAIN recs \cup {n}
    BY <2>1
  <2>3. \A i \in DOMAIN recs : ~ (recs[i].authority = a /\ recs[i].key = incoming.key)
    BY <1>3 DEF MatchingKey, Matching, Permits
  <2>4. UniqueKeys(new)
    BY <2>2, <2>3 DEF UniqueKeys
  <2>5. Matching(new, a) = Matching(recs, a) \cup {n}
    BY <2>2 DEF Matching, Permits
  <2>6. \A b : b # a => Matching(new, b) = Matching(recs, b)
    BY <2>2 DEF Matching, Permits
  <2>7. Cardinality(Matching(new, a)) <= MaxRecordsPerAuthority
    <3>1. n \notin Matching(recs, a)
      BY <2>2 DEF Matching
    <3>2. Cardinality(Matching(new, a)) = Cardinality(Matching(recs, a)) + 1
      BY <2>5, <3>1, MatchingFinite, FS_AddElement
    <3> QED
      BY <3>2, <1>3, MatchingFinite, BudgetAssumption
  <2>8. ASSUME NEW i \in DOMAIN new
        PROVE  Cardinality(Matching(new, new[i].authority)) <= MaxRecordsPerAuthority
    <3>1. CASE new[i].authority = a
      BY <2>7, <3>1
    <3>2. CASE new[i].authority # a
      <4>1. Matching(new, new[i].authority) = Matching(recs, new[i].authority)
        BY <2>6, <3>2
      <4> QED
        BY <4>1, BudgetForAll
    <3> QED
      BY <3>1, <3>2
  <2>9. WithinBudget(new)
    BY <2>8 DEF WithinBudget
  <2> QED
    BY <2>2, <2>4, <2>9 DEF new
<1> QED
  BY <1>1, <1>2, <1>3

(* Dropping records keeps the list well typed, without duplicates and within budget. *)
LEMMA WithoutKeeps ==
  ASSUME NEW recs \in Seq(Record), UniqueKeys(recs), WithinBudget(recs), NEW dropped
  PROVE  /\ Without(recs, dropped) \in Seq(Record)
         /\ UniqueKeys(Without(recs, dropped))
         /\ WithinBudget(Without(recs, dropped))
<1> DEFINE new == Without(recs, dropped)
<1>1. new \in Seq(Record)
  BY WithoutEmbeds
<1>2. PICK e : Embeds(e, new, recs, dropped, Len(recs))
  BY WithoutEmbeds
<1> HIDE DEF new
<1>3. /\ DOMAIN new = 1..Len(new) /\ DOMAIN recs = 1..Len(recs)
      /\ \A j \in DOMAIN new : e[j] \in DOMAIN recs /\ new[j] = recs[e[j]]
  BY <1>1, <1>2 DEF Embeds
<1>4. \A i, j \in DOMAIN new : e[i] = e[j] => i = j
  BY <1>1, <1>2, <1>3 DEF Embeds
<1>5. UniqueKeys(new)
  BY <1>3, <1>4 DEF UniqueKeys
<1>6. ASSUME NEW i \in DOMAIN new
      PROVE  Cardinality(Matching(new, new[i].authority)) <= MaxRecordsPerAuthority
  <2> DEFINE a == new[i].authority
  <2> DEFINE M == Matching(new, a)
  <2> DEFINE g == [j \in M |-> e[j]]
  <2>1. \A j \in M : j \in DOMAIN new /\ e[j] \in Matching(recs, a)
    BY <1>3 DEF Matching, Permits
  <2>2. g \in Injection(M, Matching(recs, a))
    <3>1. g \in [M -> Matching(recs, a)]
      BY <2>1
    <3>2. IsInjective(g)
      BY <2>1, <1>4 DEF IsInjective
    <3> QED
      BY <3>1, <3>2 DEF Injection
  <2>3. Cardinality(M) <= Cardinality(Matching(recs, a))
    BY <2>2, MatchingFinite, FS_Injection
  <2>4. Cardinality(M) \in Nat /\ Cardinality(Matching(recs, a)) \in Nat
    BY <1>1, MatchingFinite
  <2> QED
    BY <2>3, <2>4, BudgetForAll, BudgetAssumption
<1> QED
  BY <1>1, <1>5, <1>6 DEF new, WithinBudget
(***************************************************************************)
(* The operations of the store.                                              *)
(***************************************************************************)

(* Parsing yields a canonical authority, and parsing that again changes nothing. *)
LEMMA ParseCanonical ==
  /\ \A raw \in RawAuthority : WellFormed(raw) => Parse(raw) \in Authority
  /\ \A a \in Authority : WellFormed(a) /\ Parse(a) = a
<1>1. ASSUME NEW raw \in RawAuthority, WellFormed(raw)
      PROVE  Parse(raw) \in Authority
  <2>1. raw.chat_id \in Texts /\ raw.project_id \in Texts /\ raw.state_epoch \in Int
    BY DEF RawAuthority
  <2>2. Strip[raw.chat_id] \in CleanIds /\ Strip[raw.project_id] \in CleanIds
    BY <1>1, <2>1, StripAssumption DEF WellFormed, CleanIds
  <2>3. raw.repo_scope_hash \in Hashes /\ raw.state_epoch \in Epochs
    BY <1>1, <2>1 DEF WellFormed, Epochs
  <2> QED
    BY <1>1, <2>2, <2>3 DEF Parse, Authority
<1>2. ASSUME NEW a \in Authority
      PROVE  WellFormed(a) /\ Parse(a) = a
  <2>1. /\ Strip[a.chat_id] = a.chat_id /\ a.chat_id \in UsableIds
        /\ Strip[a.project_id] = a.project_id /\ a.project_id \in UsableIds
        /\ a.repo_scope_hash \in Hashes /\ a.state_epoch \in Nat /\ a.state_epoch >= 1
    BY DEF Authority, CleanIds, Epochs
  <2>2. WellFormed(a)
    BY <2>1 DEF WellFormed
  <2>3. a = [chat_id |-> a.chat_id, project_id |-> a.project_id,
             repo_scope_hash |-> a.repo_scope_hash, state_epoch |-> a.state_epoch]
    BY DEF Authority
  <2> QED
    BY <2>1, <2>2, <2>3 DEF Parse
<1> QED
  BY <1>1, <1>2

(* A write, accepted or refused, keeps the list well typed, without          *)
(* duplicates and within budget.                                             *)
LEMMA WriteKeeps ==
  ASSUME NEW recs \in Seq(Record), UniqueKeys(recs), WithinBudget(recs),
         NEW raw \in RawAuthority, NEW key \in Texts, NEW payload
  PROVE  /\ WriteProject(recs, raw, key, payload) \in Seq(Record)
         /\ UniqueKeys(WriteProject(recs, raw, key, payload))
         /\ WithinBudget(WriteProject(recs, raw, key, payload))
<1>1. CASE Writable(raw, key, payload)
  <2> DEFINE incoming == [authority |-> Parse(raw), key |-> Strip[key], payload |-> payload]
  <2>1. Parse(raw) \in Authority /\ payload \in InertPayloads
    BY <1>1, ParseCanonical DEF Writable
  <2>2. Strip[key] \in CleanKeys
    BY <1>1, StripAssumption DEF Writable, CleanKeys
  <2>3. incoming \in Record
    BY <2>1, <2>2 DEF Record
  <2>4. WriteProject(recs, raw, key, payload) = Upsert(recs, incoming)
    BY <1>1 DEF WriteProject
  <2> HIDE DEF incoming
  <2> QED
    BY <2>3, <2>4, UpsertKeeps
<1>2. CASE ~ Writable(raw, key, payload)
  BY <1>2 DEF WriteProject
<1> QED
  BY <1>1, <1>2

(* So does an advance. *)
LEMMA AdvanceKeeps ==
  ASSUME NEW recs \in Seq(Record), UniqueKeys(recs), WithinBudget(recs),
         NEW previous, NEW current
  PROVE  /\ AdvanceProjectEpoch(recs, previous, current) \in Seq(Record)
         /\ UniqueKeys(AdvanceProjectEpoch(recs, previous, current))
         /\ WithinBudget(AdvanceProjectEpoch(recs, previous, current))
BY WithoutKeeps DEF AdvanceProjectEpoch, Retire

(***************************************************************************)
(* Replay: writing a duplicate-free list within budget into an empty store,  *)
(* record by record, appends every record and refuses none.                  *)
(***************************************************************************)
ReplayStep(data, f) ==
  [n \in 0..Len(data) |->
     IF n = 0 THEN << >>
     ELSE WriteProject(f[n - 1], data[n].authority, data[n].key, data[n].payload)]

Replayed(data) == CHOOSE f : f = ReplayStep(data, f)

(* Replay is the value of the recursive function at the end of the list. *)
LEMMA ReplayIsReplayed ==
  ASSUME NEW data
  PROVE  Replay(data) = Replayed(data)[Len(data)]
BY DEF Replay, Replayed, ReplayStep

(* Writing the next record of such a list onto the prefix before it appends it. *)
LEMMA WriteExtendsPrefix ==
  ASSUME NEW data \in Seq(Record), UniqueKeys(data), WithinBudget(data),
         NEW n \in 1..Len(data)
  PROVE  WriteProject(SubSeq(data, 1, n - 1),
                      data[n].authority, data[n].key, data[n].payload)
           = SubSeq(data, 1, n)
<1> DEFINE prefix == SubSeq(data, 1, n - 1)
<1> DEFINE r == data[n]
<1>1. /\ prefix \in Seq(Record) /\ Len(prefix) = n - 1 /\ DOMAIN prefix = 1..(n - 1)
      /\ \A i \in 1..(n - 1) : prefix[i] = data[i]
      /\ DOMAIN data = 1..Len(data) /\ n \in DOMAIN data /\ r \in Record
  OBVIOUS
<1>2. /\ r.authority \in Authority /\ r.key \in CleanKeys /\ r.payload \in InertPayloads
      /\ r = [authority |-> r.authority, key |-> r.key, payload |-> r.payload]
  BY <1>1 DEF Record
<1> HIDE DEF prefix, r
<1>3. Writable(r.authority, r.key, r.payload) /\ Strip[r.key] = r.key
  BY <1>2, ParseCanonical DEF Writable, CleanKeys
<1>4. Parse(r.authority) = r.authority
  BY <1>2, ParseCanonical
<1>5. WriteProject(prefix, r.authority, r.key, r.payload) = Upsert(prefix, r)
  <2>1. r = [authority |-> Parse(r.authority), key |-> Strip[r.key], payload |-> r.payload]
    BY <1>2, <1>3, <1>4
  <2> QED
    BY <1>3, <2>1 DEF WriteProject
<1>6. MatchingKey(prefix, r.authority, r.key) = {}
  BY <1>1, <1>2 DEF r, MatchingKey, Matching, Permits, UniqueKeys
<1>7. Cardinality(Matching(prefix, r.authority)) + 1 <= MaxRecordsPerAuthority
  <2>1. Matching(prefix, r.authority) \cup {n} \subseteq Matching(data, r.authority)
    BY <1>1 DEF r, Matching, Permits
  <2>2. n \notin Matching(prefix, r.authority)
    BY <1>1 DEF Matching
  <2>3. Cardinality(Matching(prefix, r.authority) \cup {n})
          = Cardinality(Matching(prefix, r.authority)) + 1
    BY <1>1, <2>2, MatchingFinite, FS_AddElement
  <2>4. Cardinality(Matching(prefix, r.authority) \cup {n})
          <= Cardinality(Matching(data, r.authority))
    BY <2>1, MatchingFinite, FS_Subset
  <2> QED
    BY <2>3, <2>4, <1>1, BudgetForAll, MatchingFinite, BudgetAssumption
<1>8. Upsert(prefix, r) = Append(prefix, r)
  <2>1. ~ (Cardinality(Matching(prefix, r.authority)) >= MaxRecordsPerAuthority)
    BY <1>1, <1>7, MatchingFinite, BudgetAssumption
  <2> QED
    BY <1>6, <2>1 DEF Upsert
<1>9. Append(prefix, r) = SubSeq(data, 1, n)
  BY <1>1 DEF prefix, r
<1> QED
  BY <1>5, <1>8, <1>9 DEF prefix, r

(* Replaying a duplicate-free list within budget gives the list back. *)
LEMMA ReplayIsIdentity ==
  ASSUME NEW data \in Seq(Record), UniqueKeys(data), WithinBudget(data)
  PROVE  Replay(data) = data
<1> DEFINE N == Len(data)
<1> DEFINE P == [n \in 0..N |-> SubSeq(data, 1, n)]
<1>1. N \in Nat
  OBVIOUS
<1>2. P = ReplayStep(data, P)
  <2>1. \A n \in 0..N :
          P[n] = IF n = 0 THEN << >>
                 ELSE WriteProject(P[n - 1], data[n].authority, data[n].key, data[n].payload)
    <3> TAKE n \in 0..N
    <3>1. CASE n = 0
      <4>1. SubSeq(data, 1, 0) = << >>
        OBVIOUS
      <4> QED
        BY <3>1, <4>1
    <3>2. CASE n \in 1..N
      <4>1. P[n] = SubSeq(data, 1, n) /\ P[n - 1] = SubSeq(data, 1, n - 1) /\ n # 0
        BY <3>2, <1>1
      <4> HIDE DEF P
      <4> QED
        BY <3>2, <4>1, WriteExtendsPrefix
    <3> QED
      BY <3>1, <3>2, <1>1
  <2> QED
    BY <2>1 DEF ReplayStep
<1> HIDE DEF P
<1> DEFINE F == Replayed(data)
<1>3. F = ReplayStep(data, F)
  BY <1>2 DEF Replayed
<1> HIDE DEF F
<1> DEFINE Good == {n \in 0..N : F[n] = SubSeq(data, 1, n)}
<1>4. /\ F[0] = << >>
      /\ \A n \in 1..N : F[n] = WriteProject(F[n - 1], data[n].authority,
                                              data[n].key, data[n].payload)
  <2>1. \A n \in 0..N : F[n] = ReplayStep(data, F)[n]
    BY <1>3
  <2>2. \A n \in 0..N :
          F[n] = IF n = 0 THEN << >>
                 ELSE WriteProject(F[n - 1], data[n].authority, data[n].key, data[n].payload)
    BY <2>1 DEF ReplayStep
  <2> QED
    BY <2>2, <1>1
<1>5. 0 \in Good
  <2>1. SubSeq(data, 1, 0) = << >>
    OBVIOUS
  <2>2. F[0] = << >> /\ 0 \in 0..N
    BY <1>1, <1>4
  <2> QED
    BY <2>1, <2>2
<1>6. ASSUME NEW n \in 0..N, n \in Good, n < N
      PROVE  n + 1 \in Good
  <2>1. n + 1 \in 1..N /\ (n + 1) - 1 = n /\ n + 1 \in 0..N
    BY <1>1, <1>6
  <2>2. F[n + 1] = WriteProject(F[n], data[n + 1].authority, data[n + 1].key,
                                data[n + 1].payload)
    BY <2>1, <1>4
  <2>3. F[n] = SubSeq(data, 1, (n + 1) - 1)
    BY <1>6, <2>1
  <2>4. F[n + 1] = SubSeq(data, 1, n + 1)
    BY <2>1, <2>2, <2>3, WriteExtendsPrefix
  <2> QED
    BY <2>1, <2>4
<1>7. \A n \in 0..N : n \in Good
  <2> HIDE DEF Good
  <2>1. \A n \in 0..N : n \in Good /\ n < N => n + 1 \in Good
    BY <1>6
  <2> HIDE DEF N
  <2> QED
    BY <1>1, <1>5, <2>1, InductionUpTo
<1>8. F[N] = SubSeq(data, 1, N)
  BY <1>1, <1>7
<1>9. SubSeq(data, 1, N) = data
  OBVIOUS
<1> QED
  BY <1>8, <1>9, ReplayIsReplayed DEF F
(***************************************************************************)
(* Where the records of a changed list come from, and which ones it keeps.   *)
(***************************************************************************)

(* Without keeps every record it was not asked to drop, and adds none. *)
LEMMA WithoutRecords ==
  ASSUME NEW recs \in Seq(Record), NEW dropped
  PROVE  Range(Without(recs, dropped)) = {r \in Range(recs) : r \notin dropped}
<1> DEFINE new == Without(recs, dropped)
<1>1. new \in Seq(Record)
  BY WithoutEmbeds
<1>2. PICK e : Embeds(e, new, recs, dropped, Len(recs))
  BY WithoutEmbeds
<1> HIDE DEF new
<1>3. DOMAIN new = 1..Len(new) /\ DOMAIN recs = 1..Len(recs)
  BY <1>1
<1>4. \A j \in DOMAIN new : e[j] \in DOMAIN recs /\ new[j] = recs[e[j]] /\ recs[e[j]] \notin dropped
  BY <1>2, <1>3 DEF Embeds
<1>5. \A m \in DOMAIN recs : recs[m] \notin dropped => \E j \in DOMAIN new : new[j] = recs[m]
  BY <1>2, <1>3 DEF Embeds
<1>6. \A r \in Range(new) : r \in Range(recs) /\ r \notin dropped
  BY <1>4 DEF Range
<1>7. \A r \in Range(recs) : r \notin dropped => r \in Range(new)
  BY <1>5 DEF Range
<1> QED
  BY <1>6, <1>7 DEF new

(* A write adds at most the record it writes, and keeps the authority and key *)
(* of every record.                                                          *)
LEMMA WriteRecords ==
  ASSUME NEW recs \in Seq(Record), NEW raw, NEW key, NEW payload
  PROVE  LET new == WriteProject(recs, raw, key, payload)
             incoming == [authority |-> Parse(raw), key |-> Strip[key], payload |-> payload]
         IN  /\ Range(new) \subseteq Range(recs) \cup {incoming}
             /\ \A r \in Range(recs) :
                  \E kept \in Range(new) : kept.authority = r.authority /\ kept.key = r.key
<1> DEFINE incoming == [authority |-> Parse(raw), key |-> Strip[key], payload |-> payload]
<1> DEFINE new == WriteProject(recs, raw, key, payload)
<1> DEFINE same == MatchingKey(recs, incoming.authority, incoming.key)
<1>1. CASE new = recs
  BY <1>1
<1>2. CASE new = Upsert(recs, incoming) /\ same # {}
  <2> DEFINE p == Min(same)
  <2>1. same \in SUBSET Nat /\ same \subseteq DOMAIN recs
    BY DEF MatchingKey, Matching
  <2>2. p \in same
    BY <1>2, <2>1, MinOfNaturals
  <2>3. /\ p \in DOMAIN recs
        /\ recs[p].authority = incoming.authority /\ recs[p].key = incoming.key
    BY <2>2 DEF MatchingKey, Matching, Permits
  <2>4. new = [recs EXCEPT ![p] = incoming]
    BY <1>2 DEF Upsert
  <2> HIDE DEF p, new, incoming, same
  <2>5. DOMAIN new = DOMAIN recs /\ new[p] = incoming
        /\ \A i \in DOMAIN recs : i # p => new[i] = recs[i]
    BY <2>3, <2>4
  <2>6. Range(new) \subseteq Range(recs) \cup {incoming}
    BY <2>5 DEF Range
  <2>7. ASSUME NEW r \in Range(recs)
        PROVE  \E kept \in Range(new) : kept.authority = r.authority /\ kept.key = r.key
    <3>1. PICK i \in DOMAIN recs : r = recs[i]
      BY DEF Range
    <3>2. new[i] \in Range(new)
      BY <2>5 DEF Range
    <3>3. new[i].authority = r.authority /\ new[i].key = r.key
      BY <2>3, <2>5, <3>1
    <3> QED
      BY <3>2, <3>3
  <2> QED
    BY <2>6, <2>7 DEF new, incoming
<1>3. CASE new = Append(recs, incoming)
  <2> HIDE DEF new, incoming
  <2>1. /\ DOMAIN recs = 1..Len(recs) /\ DOMAIN new = DOMAIN recs \cup {Len(recs) + 1}
        /\ new[Len(recs) + 1] = incoming
        /\ \A i \in DOMAIN recs : new[i] = recs[i]
    BY <1>3
  <2>2. Range(new) \subseteq Range(recs) \cup {incoming} /\ Range(recs) \subseteq Range(new)
    BY <2>1 DEF Range
  <2> QED
    BY <2>2 DEF new, incoming
<1>4. \/ new = recs
      \/ new = Upsert(recs, incoming) /\ same # {}
      \/ new = Append(recs, incoming)
  BY DEF WriteProject, Upsert
<1> QED
  BY <1>1, <1>2, <1>3, <1>4

(***************************************************************************)
(* Counting a list by the authorities in it.                                 *)
(***************************************************************************)

(* The authorities of a list are a finite set. *)
LEMMA AuthoritiesFinite ==
  ASSUME NEW recs \in Seq(Record)
  PROVE  IsFiniteSet(ResidentAuthorities(recs))
<1> DEFINE D == 1..Len(recs)
<1>1. IsFiniteSet(D)
  BY FS_Interval
<1> DEFINE g == [i \in D |-> recs[i].authority]
<1>2. g \in Surjection(D, ResidentAuthorities(recs))
  <2>1. \A i \in D : g[i] \in ResidentAuthorities(recs)
    BY DEF ResidentAuthorities, Range
  <2>2. \A a \in ResidentAuthorities(recs) : \E i \in D : g[i] = a
    BY DEF ResidentAuthorities, Range
  <2> QED
    BY <2>1, <2>2 DEF Surjection
<1> QED
  BY <1>1, <1>2, FS_Surjection

(* A list within budget is no longer than its authorities have room for: number *)
(* the records of each authority in their order, and authority and number tell   *)
(* any two records apart.                                                        *)
LEMMA CountedByAuthority ==
  ASSUME NEW recs \in Seq(Record), WithinBudget(recs)
  PROVE  Len(recs) <= Cardinality(ResidentAuthorities(recs)) * MaxRecordsPerAuthority
<1> DEFINE D == 1..Len(recs)
<1> DEFINE R == ResidentAuthorities(recs)
<1> DEFINE upTo(i) == {j \in Matching(recs, recs[i].authority) : j <= i}
<1> DEFINE g == [i \in D |-> <<recs[i].authority, Cardinality(upTo(i))>>]
<1>1. D = DOMAIN recs /\ Len(recs) \in Nat
  OBVIOUS
<1>2. ASSUME NEW i \in D
      PROVE  /\ IsFiniteSet(upTo(i)) /\ i \in upTo(i)
             /\ Cardinality(upTo(i)) \in 1..MaxRecordsPerAuthority
             /\ recs[i].authority \in R
  <2> DEFINE U == upTo(i)
  <2> DEFINE M == Matching(recs, recs[i].authority)
  <2>1. U \in SUBSET M /\ i \in U
    BY <1>1 DEF Matching, Permits
  <2>2. IsFiniteSet(M) /\ Cardinality(M) \in Nat /\ Cardinality(M) <= MaxRecordsPerAuthority
    BY <1>1, MatchingFinite, BudgetForAll, FS_CardinalityType
  <2>3. recs[i].authority \in R
    BY <1>1 DEF ResidentAuthorities, Range
  <2> HIDE DEF U, M
  <2>4. IsFiniteSet(U) /\ Cardinality(U) <= Cardinality(M) /\ Cardinality(U) \in Nat
    BY <2>1, <2>2, FS_Subset, FS_CardinalityType
  <2>5. Cardinality(U) # 0
    BY <2>1, <2>4, FS_EmptySet
  <2>6. Cardinality(U) \in 1..MaxRecordsPerAuthority
    BY <2>2, <2>4, <2>5, BudgetAssumption
  <2> QED
    BY <2>1, <2>3, <2>4, <2>6 DEF U
<1>3. ASSUME NEW i \in D, NEW j \in D, i < j, recs[i].authority = recs[j].authority
      PROVE  Cardinality(upTo(i)) # Cardinality(upTo(j))
  <2> DEFINE U == upTo(i)
  <2> DEFINE V == upTo(j)
  <2>1. IsFiniteSet(V) /\ j \in V
    BY <1>2
  <2>2. U \in SUBSET V /\ j \notin U
    BY <1>3 DEF Matching
  <2> HIDE DEF U, V
  <2>3. Cardinality(V) = Cardinality(U) => V = U
    BY <2>1, <2>2, FS_Subset
  <2> QED
    BY <2>1, <2>2, <2>3 DEF U, V
<1> DEFINE B == 1..MaxRecordsPerAuthority
<1>4. g \in Injection(D, R \X B)
  <2>1. g \in [D -> R \X B]
    BY <1>2
  <2>2. ASSUME NEW i \in D, NEW j \in D, g[i] = g[j] PROVE i = j
    <3>1. recs[i].authority = recs[j].authority /\ Cardinality(upTo(i)) = Cardinality(upTo(j))
      BY <2>2
    <3>2. ~ (i < j) /\ ~ (j < i)
      BY <1>3, <3>1
    <3> QED
      BY <3>2
  <2> HIDE DEF g
  <2> QED
    BY <2>1, <2>2 DEF Injection, IsInjective
<1> HIDE DEF g, upTo
<1>5. IsFiniteSet(B) /\ Cardinality(B) = MaxRecordsPerAuthority
  BY FS_Interval, BudgetAssumption
<1>6. Cardinality(D) = Len(recs)
  BY <1>1, FS_Interval
<1>7. IsFiniteSet(R)
  BY AuthoritiesFinite
<1> HIDE DEF D, R, B
<1>8. IsFiniteSet(R \X B) /\ Cardinality(R \X B) = Cardinality(R) * Cardinality(B)
  BY <1>5, <1>7, FS_Product
<1>9. Cardinality(D) <= Cardinality(R \X B)
  BY <1>4, <1>8, FS_Injection
<1> QED
  BY <1>5, <1>6, <1>8, <1>9 DEF R
=============================================================================
