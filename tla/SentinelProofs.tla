--------------------------- MODULE SentinelProofs ---------------------------
(***************************************************************************)
(* Proofs about Sentinel: types, the properties of its run, and before     *)
(* them what the folds compute by which the model parses, deduplicates and *)
(* adds up.                                                                *)
(*                                                                         *)
(* The library's induction theorems take an operator. Where induction is   *)
(* needed, the least counterexample does as well: LeastNat.                *)
(***************************************************************************)
EXTENDS Sentinel, WellFoundedInduction, FiniteSetTheorems, SequenceTheorems, TLAPS

---------------------------------------------------------------------------
(* Folds.                                                                  *)

LEMMA LeastNat ==
    ASSUME NEW T, T \subseteq Nat, T # {}
    PROVE  \E n \in T : \A k \in T : n <= k
<1>1. IsWellFoundedOn(OpToRel(<, Nat), Nat)
  BY NatLessThanWellFounded
<1>2. \E n \in T : \A k \in T : <<k, n>> \notin OpToRel(<, Nat)
  BY <1>1, WFMin
<1>3. \A k, n \in Nat : <<k, n>> \notin OpToRel(<, Nat) => n <= k
  BY DEF OpToRel
<1> QED
  BY <1>2, <1>3

\* The subset of a fold that is left when the element chosen is taken out.
Left(s, c) == s \ {c[s]}

\* f folds the subsets of D: c chooses the next element, h adds it.
IsFold(f, D, base, c, h) ==
    f = [s \in SUBSET D |-> IF s = {} THEN base ELSE h[c[s]][f[Left(s, c)]]]

ChoosesWithin(D, c) == \A s \in SUBSET D : s # {} => c[s] \in s

LEMMA SmallerLeft ==
    ASSUME NEW D, IsFiniteSet(D), NEW c, ChoosesWithin(D, c), NEW s \in SUBSET D, s # {}
    PROVE  /\ c[s] \in D
           /\ Left(s, c) \in SUBSET D
           /\ Cardinality(s) \in Nat /\ Cardinality(Left(s, c)) \in Nat
           /\ Cardinality(Left(s, c)) = Cardinality(s) - 1
<1>1. IsFiniteSet(s) /\ c[s] \in s
  BY FS_Subset DEF ChoosesWithin
<1> QED
  BY <1>1, FS_RemoveElement, FS_CardinalityType, FS_Subset DEF Left

\* Whatever solves the equation of a fold stays in a set that h does not leave.
LEMMA FoldStays ==
    ASSUME NEW D, IsFiniteSet(D), NEW A, NEW base \in A, NEW c, ChoosesWithin(D, c), NEW h,
           \A x \in D, a \in A : h[x][a] \in A,
           NEW f, IsFold(f, D, base, c, h)
    PROVE  \A s \in SUBSET D : f[s] \in A
<1> DEFINE T == {Cardinality(s) : s \in {t \in SUBSET D : f[t] \notin A}}
<1>1. SUFFICES ASSUME NEW s \in SUBSET D, f[s] \notin A PROVE FALSE
  OBVIOUS
<1>2. T \subseteq Nat /\ T # {}
  BY <1>1, FS_Subset, FS_CardinalityType
<1>3. PICK n \in T : \A k \in T : n <= k
  BY <1>2, LeastNat
<1>4. PICK t \in SUBSET D : f[t] \notin A /\ n = Cardinality(t)
  OBVIOUS
<1>5. t # {} /\ f[t] = h[c[t]][f[Left(t, c)]]
  BY <1>4 DEF IsFold
<1>6. c[t] \in D /\ Left(t, c) \in SUBSET D /\ Cardinality(Left(t, c)) \in Nat
      /\ Cardinality(t) \in Nat /\ Cardinality(Left(t, c)) = Cardinality(t) - 1
  BY <1>5, SmallerLeft
<1>7. f[Left(t, c)] \notin A
  BY <1>4, <1>5, <1>6
<1>8. Cardinality(Left(t, c)) \in T
  BY <1>6, <1>7
<1> HIDE DEF T
<1> QED
  BY <1>3, <1>4, <1>6, <1>8

\* There is a fold.
LEMMA FoldExists ==
    ASSUME NEW D, IsFiniteSet(D), NEW base, NEW c, ChoosesWithin(D, c), NEW h
    PROVE  \E f : IsFold(f, D, base, c, h)
<1> DEFINE Below(n) == {s \in SUBSET D : Cardinality(s) <= n}
           Partial(f, n) ==
               \A s \in Below(n) : f[s] = IF s = {} THEN base ELSE h[c[s]][f[Left(s, c)]]
           T == {n \in Nat : ~ \E f : Partial(f, n)}
<1>1. ASSUME T # {} PROVE FALSE
  <2>1. PICK n \in T : \A k \in T : n <= k
    BY <1>1, LeastNat
  <2>2. CASE n = 0
    <3>1. \A s \in Below(0) : s = {}
      BY FS_Subset, FS_CardinalityType, FS_EmptySet
    <3>2. Partial([s \in SUBSET D |-> base], 0)
      BY <3>1
    <3> QED
      BY <2>1, <2>2, <3>2
  <2>3. CASE n # 0
    <3>1. n \in Nat /\ n - 1 \in Nat /\ n - 1 \notin T
      <4>1. T \subseteq Nat
        OBVIOUS
      <4> HIDE DEF T
      <4> QED
        BY <2>1, <2>3, <4>1
    <3>2. PICK f : Partial(f, n - 1)
      BY <3>1
    <3> DEFINE g == [s \in SUBSET D |-> IF s = {} THEN base ELSE h[c[s]][f[Left(s, c)]]]
    <3>3. \A s \in Below(n - 1) : g[s] = f[s]
      BY <3>2
    <3>4. ASSUME NEW s \in Below(n), s # {} PROVE Left(s, c) \in Below(n - 1)
      BY <3>1, <3>4, SmallerLeft
    <3>5. Partial(g, n)
      BY <3>3, <3>4
    <3> QED
      BY <2>1, <3>5
  <2> QED
    BY <2>2, <2>3
<1>2. Cardinality(D) \in Nat
  BY FS_CardinalityType
<1>3. PICK f : Partial(f, Cardinality(D))
  BY <1>1, <1>2
<1>4. \A s \in SUBSET D : s \in Below(Cardinality(D))
  BY FS_Subset
<1> DEFINE g == [s \in SUBSET D |-> f[s]]
<1>5. \A s \in SUBSET D : s # {} => Left(s, c) \in SUBSET D
  BY DEF Left
<1>6. \A s \in SUBSET D : g[s] = IF s = {} THEN base ELSE h[c[s]][g[Left(s, c)]]
  BY <1>3, <1>4, <1>5
<1>7. IsFold(g, D, base, c, h)
  BY <1>6 DEF IsFold
<1> QED
  BY <1>7

\* f adds up w over the subsets of S, in the order MapThenSumSet takes.
Sums(f, S, w) ==
    f = [s \in SUBSET S |-> IF s = {} THEN 0
                            ELSE w[CHOOSE x \in s : TRUE] + f[s \ {CHOOSE x \in s : TRUE}]]

LEMMA SumsAreNat ==
    ASSUME NEW S, IsFiniteSet(S), NEW w, \A r \in S : w[r] \in Nat, NEW f, Sums(f, S, w)
    PROVE  \A s \in SUBSET S : f[s] \in Nat
<1> DEFINE c == [s \in SUBSET S |-> CHOOSE x \in s : TRUE]
           values == Nat \cup {f[s] : s \in SUBSET S}
           h == [x \in S |-> [a \in values |-> w[x] + a]]
<1>1. ChoosesWithin(S, c)
  BY DEF ChoosesWithin
<1>2. \A x \in S, a \in Nat : h[x][a] \in Nat
  OBVIOUS
<1>3. \A s \in SUBSET S : s # {} => h[c[s]][f[Left(s, c)]] = w[c[s]] + f[s \ {c[s]}]
  BY <1>1 DEF Left, ChoosesWithin
<1>4. IsFold(f, S, 0, c, h)
  BY <1>3 DEF IsFold, Sums
<1> HIDE DEF c, h
<1> QED
  BY <1>1, <1>2, <1>4, FoldStays

LEMMA SumsExist ==
    ASSUME NEW S, IsFiniteSet(S), NEW w, \A r \in S : w[r] \in Nat
    PROVE  \E f : Sums(f, S, w)
<1> DEFINE c == [s \in SUBSET S |-> CHOOSE x \in s : TRUE]
           h == [x \in S |-> [a \in Nat |-> w[x] + a]]
<1>1. ChoosesWithin(S, c)
  BY DEF ChoosesWithin
<1>2. \A x \in S, a \in Nat : h[x][a] \in Nat
  OBVIOUS
<1>3. PICK f : IsFold(f, S, 0, c, h)
  <2> HIDE DEF c, h
  <2> QED
    BY <1>1, FoldExists
<1>4. \A s \in SUBSET S : f[s] \in Nat
  <2> HIDE DEF c, h
  <2> QED
    BY <1>1, <1>2, <1>3, FoldStays
<1>5. \A s \in SUBSET S : s # {} => h[c[s]][f[Left(s, c)]] = w[c[s]] + f[s \ {c[s]}]
  BY <1>1, <1>4 DEF Left, ChoosesWithin
<1>6. Sums(f, S, w)
  BY <1>3, <1>5 DEF IsFold, Sums
<1> QED
  BY <1>6

\* Terms that are smaller by a factor have a sum that is smaller by it.
LEMMA SumsCompare ==
    ASSUME NEW S, IsFiniteSet(S), NEW M \in Nat,
           NEW w, \A r \in S : w[r] \in Nat,
           NEW v, \A r \in S : v[r] \in Nat /\ v[r] < M * w[r],
           NEW f, Sums(f, S, w), NEW g, Sums(g, S, v)
    PROVE  \A s \in SUBSET S : s # {} => g[s] < M * f[s]
<1> DEFINE T == {Cardinality(s) : s \in {t \in SUBSET S : t # {} /\ ~(g[t] < M * f[t])}}
<1>1. SUFFICES ASSUME T # {} PROVE FALSE
  OBVIOUS
<1>2. T \subseteq Nat
  BY FS_Subset, FS_CardinalityType
<1>3. PICK n \in T : \A k \in T : n <= k
  BY <1>1, <1>2, LeastNat
<1>4. PICK t \in SUBSET S : t # {} /\ ~(g[t] < M * f[t]) /\ n = Cardinality(t)
  OBVIOUS
<1> DEFINE x == CHOOSE y \in t : TRUE
           rest == t \ {x}
<1>5. x \in S /\ rest \in SUBSET S /\ Cardinality(t) \in Nat /\ Cardinality(rest) = Cardinality(t) - 1
  BY <1>4, FS_Subset, FS_RemoveElement, FS_CardinalityType
<1>6. f[t] = w[x] + f[rest] /\ g[t] = v[x] + g[rest]
  BY <1>4 DEF Sums
<1>7. f[rest] \in Nat /\ g[rest] \in Nat
  BY <1>5, SumsAreNat
<1>8. rest = {} \/ g[rest] < M * f[rest]
  <2>1. Cardinality(rest) \notin T
    <3> HIDE DEF T, x, rest
    <3> QED
      BY <1>2, <1>3, <1>4, <1>5
  <2> QED
    BY <1>5, <2>1
<1>9. rest = {} => f[rest] = 0 /\ g[rest] = 0
  BY DEF Sums
<1> HIDE DEF x, rest
<1>10. \A a, b \in Nat : M * (a + b) = M * a + M * b
  OBVIOUS
<1>11. M * w[x] \in Nat /\ M * f[rest] \in Nat /\ w[x] \in Nat /\ v[x] \in Nat /\ v[x] < M * w[x]
  BY <1>5, <1>7
<1>12. M * f[t] = M * w[x] + M * f[rest]
  BY <1>6, <1>7, <1>10, <1>11
<1>13. g[t] < M * w[x] + M * f[rest]
  <2>1. M * 0 = 0
    OBVIOUS
  <2>2. CASE rest = {}
    <3>1. f[rest] = 0 /\ g[rest] = 0
      BY <1>9, <2>2
    <3>2. M * f[rest] = 0
      BY <2>1, <3>1
    <3> QED
      BY <1>6, <1>11, <3>1, <3>2
  <2>3. CASE g[rest] < M * f[rest]
    BY <1>6, <1>7, <1>11, <2>3
  <2> QED
    BY <1>8, <2>2, <2>3
<1> QED
  BY <1>4, <1>12, <1>13

LEMMA MaxIsWithin ==
    ASSUME NEW n \in Nat, NEW s \in SUBSET (1..n), s # {}
    PROVE  Max(s) \in s
<1> DEFINE T == {k \in Nat : \A y \in s : y <= k}
<1>1. n \in T
  OBVIOUS
<1>2. PICK k \in T : \A j \in T : k <= j
  <2>1. T \subseteq Nat /\ T # {}
    BY <1>1
  <2> HIDE DEF T
  <2> QED
    BY <2>1, LeastNat
<1>3. k \in s
  <2>1. SUFFICES ASSUME k \notin s PROVE FALSE
    OBVIOUS
  <2>2. PICK y \in s : TRUE
    OBVIOUS
  <2>3. k - 1 \in T
    BY <1>2, <2>1, <2>2
  <2> QED
    BY <1>2, <2>3
<1>4. \A y \in s : k >= y
  BY <1>2, <1>3
<1> QED
  BY <1>3, <1>4 DEF Max

\* The element a fold over a sequence takes next.
Lasts(D) == [s \in SUBSET D |-> Max(s)]

LEMMA LastsChoose ==
    ASSUME NEW n \in Nat PROVE ChoosesWithin(1..n, Lasts(1..n)) /\ IsFiniteSet(1..n)
<1>1. IsFiniteSet(1..n)
  BY FS_Interval
<1> QED
  BY <1>1, MaxIsWithin DEF ChoosesWithin, Lasts

NoRepeats(s) == \A i, j \in DOMAIN s : s[i] = s[j] => i = j

\* Deduplicating leaves a sequence of records in which none is twice.
LEMMA DeduplicatedOnce ==
    ASSUME NEW file \in Seq(Records)
    PROVE  Deduplicated(file) \in Seq(Records) /\ NoRepeats(Deduplicated(file))
<1> DEFINE D == DOMAIN file
           A == {q \in Seq(Records) : NoRepeats(q)}
           Add(q, r) == IF Contains(q, r) THEN q ELSE Append(q, r)
           Eqn(f) == f = [s \in SUBSET D |->
                             IF s = {} THEN <<>> ELSE Add(f[s \ {Max(s)}], file[Max(s)])]
           H(values) == [x \in D |-> [q \in values |-> Add(q, file[x])]]
<1>1. D = 1..Len(file) /\ Len(file) \in Nat /\ \A x \in D : file[x] \in Records
  OBVIOUS
<1>2. ChoosesWithin(D, Lasts(D)) /\ IsFiniteSet(D)
  BY <1>1, LastsChoose
<1>3. ASSUME NEW q \in A, NEW r \in Records PROVE Add(q, r) \in A
  <2>1. CASE Contains(q, r)
    BY <2>1
  <2>2. CASE ~Contains(q, r)
    <3>1. Append(q, r) \in Seq(Records) /\ DOMAIN q = 1..Len(q) /\ Len(q) \in Nat
      OBVIOUS
    <3>2. DOMAIN Append(q, r) = 1..(Len(q) + 1)
          /\ \A i \in 1..(Len(q) + 1) : Append(q, r)[i] = IF i = Len(q) + 1 THEN r ELSE q[i]
      OBVIOUS
    <3>3. \A i \in 1..Len(q) : q[i] # r
      BY <2>2 DEF Contains
    <3>4. \A i, j \in 1..Len(q) : q[i] = q[j] => i = j
      BY <3>1 DEF NoRepeats
    <3>5. NoRepeats(Append(q, r))
      BY <3>1, <3>2, <3>3, <3>4 DEF NoRepeats
    <3> QED
      BY <2>2, <3>1, <3>5
  <2> QED
    BY <2>1, <2>2
<1>4. <<>> \in A
  BY DEF NoRepeats
<1> HIDE DEF A, Add
<1>5. ASSUME NEW values, A \subseteq values PROVE \A x \in D, q \in A : H(values)[x][q] \in A
  BY <1>1, <1>3, <1>5
<1>6. \E f : Eqn(f)
  <2>1. PICK f : IsFold(f, D, <<>>, Lasts(D), H(A))
    <3> HIDE DEF H
    <3> QED
      BY <1>2, FoldExists
  <2>2. \A s \in SUBSET D : f[s] \in A
    <3>1. \A x \in D, q \in A : H(A)[x][q] \in A
      BY <1>5
    <3> HIDE DEF H
    <3> QED
      BY <1>2, <1>4, <2>1, <3>1, FoldStays
  <2>3. \A s \in SUBSET D : s # {} =>
            H(A)[Lasts(D)[s]][f[Left(s, Lasts(D))]] = Add(f[s \ {Max(s)}], file[Max(s)])
    BY <1>2, <2>2 DEF Left, ChoosesWithin, Lasts
  <2>4. Eqn(f)
    <3> HIDE DEF H
    <3> QED
      BY <2>1, <2>3 DEF IsFold
  <2> QED
    BY <2>4
<1> DEFINE g == CHOOSE f : Eqn(f)
<1>7. Eqn(g)
  BY <1>6
<1>8. Deduplicated(file) = g[D]
  BY DEF Deduplicated, FoldLeft, MapThenFoldSet, Add
<1> HIDE DEF g
<1> DEFINE values == A \cup {g[s] : s \in SUBSET D}
<1>9. \A s \in SUBSET D : s # {} =>
          H(values)[Lasts(D)[s]][g[Left(s, Lasts(D))]] = Add(g[s \ {Max(s)}], file[Max(s)])
  BY <1>2 DEF Left, ChoosesWithin, Lasts
<1>10. IsFold(g, D, <<>>, Lasts(D), H(values))
  BY <1>7, <1>9 DEF IsFold
<1>11. \A x \in D, q \in A : H(values)[x][q] \in A
  BY <1>5
<1>12. g[D] \in A
  <2> HIDE DEF H, values, D
  <2> QED
    BY <1>2, <1>4, <1>10, <1>11, FoldStays
<1> QED
  BY <1>8, <1>12 DEF A

\* What is parsed are records.
LEMMA ParsedRecords ==
    ASSUME NEW file \in Seq(Records \cup {BadRow})
    PROVE  Parsed(file) \in Seq(Records)
<1> DEFINE D == DOMAIN file
           A == Seq(Records)
           Add(q, r) == IF r = BadRow THEN q ELSE Append(q, r)
           Eqn(f) == f = [s \in SUBSET D |->
                             IF s = {} THEN <<>> ELSE Add(f[s \ {Max(s)}], file[Max(s)])]
           H(values) == [x \in D |-> [q \in values |-> Add(q, file[x])]]
<1>1. D = 1..Len(file) /\ Len(file) \in Nat /\ \A x \in D : file[x] \in Records \cup {BadRow}
  OBVIOUS
<1>2. ChoosesWithin(D, Lasts(D)) /\ IsFiniteSet(D)
  BY <1>1, LastsChoose
<1>3. ASSUME NEW q \in A, NEW r \in Records \cup {BadRow} PROVE Add(q, r) \in A
  OBVIOUS
<1>4. <<>> \in A
  OBVIOUS
<1> HIDE DEF A, Add
<1>5. ASSUME NEW values, A \subseteq values PROVE \A x \in D, q \in A : H(values)[x][q] \in A
  BY <1>1, <1>3, <1>5
<1>6. \E f : Eqn(f)
  <2>1. PICK f : IsFold(f, D, <<>>, Lasts(D), H(A))
    <3> HIDE DEF H
    <3> QED
      BY <1>2, FoldExists
  <2>2. \A s \in SUBSET D : f[s] \in A
    <3>1. \A x \in D, q \in A : H(A)[x][q] \in A
      BY <1>5
    <3> HIDE DEF H
    <3> QED
      BY <1>2, <1>4, <2>1, <3>1, FoldStays
  <2>3. \A s \in SUBSET D : s # {} =>
            H(A)[Lasts(D)[s]][f[Left(s, Lasts(D))]] = Add(f[s \ {Max(s)}], file[Max(s)])
    BY <1>2, <2>2 DEF Left, ChoosesWithin, Lasts
  <2>4. Eqn(f)
    <3> HIDE DEF H
    <3> QED
      BY <2>1, <2>3 DEF IsFold
  <2> QED
    BY <2>4
<1> DEFINE g == CHOOSE f : Eqn(f)
<1>7. Eqn(g)
  BY <1>6
<1>8. Parsed(file) = g[D]
  BY DEF Parsed, FoldLeft, MapThenFoldSet, Add
<1> HIDE DEF g
<1> DEFINE values == A \cup {g[s] : s \in SUBSET D}
<1>9. \A s \in SUBSET D : s # {} =>
          H(values)[Lasts(D)[s]][g[Left(s, Lasts(D))]] = Add(g[s \ {Max(s)}], file[Max(s)])
  BY <1>2 DEF Left, ChoosesWithin, Lasts
<1>10. IsFold(g, D, <<>>, Lasts(D), H(values))
  BY <1>7, <1>9 DEF IsFold
<1>11. \A x \in D, q \in A : H(values)[x][q] \in A
  BY <1>5
<1>12. g[D] \in A
  <2> HIDE DEF H, values, D
  <2> QED
    BY <1>2, <1>4, <1>10, <1>11, FoldStays
<1> QED
  BY <1>8, <1>12 DEF A

\* Calls that each take less than n seconds take less than n on average.
LEMMA ShortOnAverage ==
    ASSUME NEW s, rows \in [Records -> Nat], IsFiniteSet(Stored), RecentOf(s, Stored) # {},
           \A r \in RecentOf(s, Stored) : Duration[r] < MaxAverage
    PROVE  ShortCalls(s)
<1> DEFINE S == RecentOf(s, Stored)
           time == [r \in Records |-> rows[r] * Duration[r]]
           Eqn(f) == f = [t \in SUBSET S |->
                             IF t = {} THEN 0
                             ELSE rows[CHOOSE x \in t : TRUE] * Duration[CHOOSE x \in t : TRUE]
                                  + f[t \ {CHOOSE x \in t : TRUE}]]
<1>1. S \subseteq Records /\ IsFiniteSet(S)
      /\ \A r \in S : rows[r] \in Nat \ {0} /\ Duration[r] \in Nat
  BY FS_Subset, SentinelAssumption DEF RecentOf, Stored
<1>2. \A r \in S : time[r] \in Nat /\ time[r] < MaxAverage * rows[r]
  <2>1. \A a, b, m \in Nat : a # 0 /\ b < m => a * b < m * a
    OBVIOUS
  <2>2. SUFFICES ASSUME NEW r \in S
                 PROVE  time[r] \in Nat /\ time[r] < MaxAverage * rows[r]
    OBVIOUS
  <2>3. /\ r \in Records /\ rows[r] \in Nat /\ rows[r] # 0
        /\ Duration[r] \in Nat /\ Duration[r] < MaxAverage /\ MaxAverage \in Nat
    BY <1>1, <2>2, SentinelAssumption
  <2>4. time[r] = rows[r] * Duration[r]
    BY <2>3
  <2>5. rows[r] * Duration[r] < MaxAverage * rows[r]
    BY <2>1, <2>3
  <2> QED
    BY <2>3, <2>4, <2>5
<1>3. S \in SUBSET S /\ S # {}
  OBVIOUS
<1> HIDE DEF S
<1> DEFINE n == CHOOSE f : Sums(f, S, rows)
<1>4. Sums(n, S, rows) /\ CallCount(s) = n[S]
  <2>1. \E f : Sums(f, S, rows)
    BY <1>1, SumsExist
  <2>2. Sums(n, S, rows)
    BY <2>1
  <2>3. CallCount(s) = n[S]
    BY DEF CallCount, MapThenSumSet, MapThenFoldSet, Sums, S
  <2> QED
    BY <2>2, <2>3
<1>5. ASSUME NEW f PROVE Sums(f, S, time) <=> Eqn(f)
  BY <1>1 DEF Sums
<1> DEFINE d == CHOOSE f : Eqn(f)
<1>6. Sums(d, S, time) /\ TotalDuration(s) = d[S]
  <2>1. \E f : Sums(f, S, time)
    <3> HIDE DEF time
    <3> QED
      BY <1>1, <1>2, SumsExist
  <2>2. Eqn(d)
    <3>1. \E f : Eqn(f)
      BY <1>5, <2>1
    <3> QED
      BY <3>1
  <2>3. TotalDuration(s) = d[S]
    BY DEF TotalDuration, MapThenSumSet, MapThenFoldSet, S
  <2> QED
    BY <1>5, <2>2, <2>3
<1> HIDE DEF n, d, time
<1>7. \A t \in SUBSET S : t # {} => d[t] < MaxAverage * n[t]
  BY <1>1, <1>2, <1>4, <1>6, SumsCompare, SentinelAssumption
<1> QED
  BY <1>3, <1>4, <1>6, <1>7 DEF ShortCalls

---------------------------------------------------------------------------
(* The inductive invariant.                                                *)

\* What a loop is about to send is a stored alert or a heartbeat, it has somebody
\* to send it to, and the set is what the iterator knows unless it was changed.
Walking(b) ==
    b.at = "send" =>
        /\ b.message \in Messages /\ b.to \in Clients
        /\ ~b.disturbed => b.size = Cardinality(active)

StreamOK ==
    /\ client \in [Clients -> {"new", "open", "gone", "closed"}]
    /\ active \subseteq Clients
    /\ loop \in [Loops -> LoopState]
    /\ \A l \in Loops : Walking(loop[l])
    /\ missed \in SUBSET [message : 1..Len(alerts), client : Clients, disturbed : BOOLEAN]

TablesOK ==
    /\ rows \in [Records -> Nat] /\ IsFiniteSet(Stored)
    /\ recent \subseteq Records /\ events \subseteq Records /\ overlapped \in BOOLEAN

UploadState == [at : {"new", "check", "insert", "done", "failed"},
                file : Seq(Records), next : Nat, fresh : Seq(Records)]

\* What check_duplicates has looked up is stored or will be.
Checked(u) ==
    LET file == upload[u].file
        past == 1..(upload[u].next - 1)
    IN  /\ NoRepeats(file) /\ upload[u].next \in DOMAIN file
        /\ \A r \in ToSet(upload[u].fresh) : \E k \in past : r = file[k]
        /\ \A k \in past : file[k] \in Stored \cup ToSet(upload[u].fresh)

UploadOK(u) ==
    /\ upload[u].at = "check" => Checked(u)
    /\ InProgress(u) => NoRepeats(upload[u].fresh)
    /\ upload[u].at = "insert" =>
          ToSet(upload[u].file) \subseteq Stored \cup ToSet(upload[u].fresh)
    /\ upload[u].at = "done" => ToSet(upload[u].file) \subseteq Stored

UploadsOK == upload \in [Uploads -> UploadState] /\ \A u \in Uploads : UploadOK(u)

\* As long as uploads do not overlap, one at a time has records to insert, and
\* none of them is there yet.
Unstored(u) == \A r \in ToSet(upload[u].fresh) : r \in events \/ rows[r] = 0
Through(u) == upload[u].at = "insert" /\ upload[u].fresh = <<>>

InTurn ==
    ~overlapped =>
        /\ \A u \in Uploads : InProgress(u) => Unstored(u)
        /\ \A u, v \in Uploads :
              u # v /\ InProgress(u) /\ InProgress(v) => Through(u) \/ Through(v)
        /\ \A r \in Records \ events : rows[r] <= 1

\* A finding and the call records behind it.
Suspects == {Caller[r] : r \in Records}
Found == [suspect : Suspects, destinations : Nat, severity : {"MEDIUM", "HIGH", "CRITICAL"}]
CallsOf(s) == {r \in Stored : Caller[r] = s}
Backed(p) ==
    /\ p.destinations > MinDestinations
    /\ Cardinality({Callee[r] : r \in CallsOf(p.suspect)}) >= p.destinations

DetectorState == [at : {"new", "alert", "done", "failed"}, pending : SUBSET Found,
                  due : SUBSET Suspects, created : SUBSET Suspects]

\* Whoever is due has an alert or is among the findings that wait for theirs.
DetectorsOK ==
    /\ detector \in [Detectors -> DetectorState]
    /\ \A d \in Detectors :
          /\ detector[d].at = "alert" =>
                /\ \A p \in detector[d].pending : Backed(p)
                /\ detector[d].due \subseteq
                      detector[d].created \cup {p.suspect : p \in detector[d].pending}
          /\ detector[d].at = "done" => detector[d].due \subseteq detector[d].created

AlertsOK ==
    /\ alerts \in Seq([detection : Found, reviewed : BOOLEAN])
    /\ \A i \in DOMAIN alerts : Backed(alerts[i].detection)

IInv ==
    /\ StreamOK /\ QuietBroadcastReachesAll
    /\ TablesOK /\ UploadsOK /\ InTurn
    /\ DetectorsOK /\ AlertsOK

---------------------------------------------------------------------------
(* The clients and the broadcasts.                                         *)

LEMMA SentTyped ==
    ASSUME StreamOK, NEW l \in Loops, Broadcasting(l), NEW result
    PROVE  LET b == AfterSend(l, result)
           IN  /\ b \in LoopState /\ b.at = "send" /\ b.message \in Messages
               /\ b.disturbed = loop[l].disturbed
               /\ ~b.disturbed => b.size = Cardinality(active)
<1>1. loop[l] \in LoopState /\ loop[l].to \in Clients /\ loop[l].message \in Messages
      /\ loop[l].at = "send" /\ (~loop[l].disturbed => loop[l].size = Cardinality(active))
  BY DEF StreamOK, Broadcasting, Walking
<1> QED
  BY <1>1 DEF AfterSend, LoopState

LEMMA RestingTyped == Resting \in LoopState /\ Resting.at = "idle"
<1>1. Cardinality({}) = 0
  BY FS_EmptySet
<1> QED
  BY <1>1 DEF Resting, LoopState

LEMMA BeginTyped ==
    ASSUME active \subseteq Clients, NEW message, NEW c \in active
    PROVE  LET b == [Resting EXCEPT !.at = "send", !.message = message,
                                    !.size = Cardinality(active),
                                    !.unheard = active, !.to = c]
           IN  /\ b.at = "send" /\ b.message = message /\ b.to = c /\ b.size = Cardinality(active)
               /\ message \in Messages => b \in LoopState
  BY DEF LoopState, Resting

\* A walk that is under way learns that the set is changed under it.
LEMMA WalksKept ==
    ASSUME StreamOK, NEW s \in SUBSET Clients
    PROVE  /\ Walks(s) \in [Loops -> LoopState]
           /\ s = active => Walks(s) = loop
           /\ \A l \in Loops :
                 Walks(s)[l].at = "send" =>
                     /\ Walks(s)[l].message \in Messages /\ Walks(s)[l].to \in Clients
                     /\ ~Walks(s)[l].disturbed => Walks(s)[l].size = Cardinality(s)
<1> DEFINE w(l) == [loop[l] EXCEPT !.disturbed = TRUE, !.unheard = @ \cap s]
<1>1. ASSUME NEW l \in Loops
      PROVE  /\ loop[l] \in LoopState /\ Walking(loop[l])
             /\ w(l) \in LoopState /\ w(l).disturbed = TRUE
             /\ w(l).message = loop[l].message /\ w(l).to = loop[l].to
  <2>1. loop[l] \in LoopState /\ Walking(loop[l])
    BY DEF StreamOK
  <2> QED
    BY <2>1 DEF LoopState
<1>2. Walks(s) = [l \in Loops |-> IF Broadcasting(l) /\ s # active THEN w(l) ELSE loop[l]]
  BY DEF Walks
<1> HIDE DEF w
<1>3. \A l \in Loops : Walks(s)[l] = IF Broadcasting(l) /\ s # active THEN w(l) ELSE loop[l]
  BY <1>2
<1>4. Walks(s) \in [Loops -> LoopState]
  BY <1>1, <1>2
<1>5. s = active => Walks(s) = loop
  BY <1>2 DEF StreamOK
<1>6. ASSUME NEW l \in Loops, Walks(s)[l].at = "send"
      PROVE  /\ Walks(s)[l].message \in Messages /\ Walks(s)[l].to \in Clients
             /\ ~Walks(s)[l].disturbed => Walks(s)[l].size = Cardinality(s)
  <2>1. CASE Broadcasting(l) /\ s # active
    BY <1>1, <1>3, <2>1 DEF Walking, Broadcasting
  <2>2. CASE ~(Broadcasting(l) /\ s # active)
    <3>1. Walks(s)[l] = loop[l] /\ Broadcasting(l) /\ s = active
      BY <1>3, <1>6, <2>2 DEF Broadcasting
    <3> QED
      BY <1>1, <1>6, <3>1 DEF Walking
  <2> QED
    BY <2>1, <2>2
<1> QED
  BY <1>4, <1>5, <1>6

\* A broadcast that ends undisturbed has sent to all, one that breaks was disturbed.
LEMMA PassedOverDisturbed ==
    ASSUME StreamOK, AlertsOK, NEW l \in Loops, Broadcasting(l), NEW result,
           LET b == AfterSend(l, result) IN SizeChanged(b) \/ Exhausted(b)
    PROVE  LET b == AfterSend(l, result)
           IN  /\ PassedOver(b) \subseteq
                     [message : 1..Len(alerts), client : Clients, disturbed : BOOLEAN]
               /\ \A m \in PassedOver(b) : m.disturbed
<1> DEFINE b == AfterSend(l, result)
<1>1. /\ b \in LoopState /\ b.message \in Messages
      /\ ~b.disturbed => b.size = Cardinality(active)
  BY SentTyped
<1> HIDE DEF b
<1>2. ASSUME NEW m \in PassedOver(b)
      PROVE  m \in [message : 1..Len(alerts), client : Clients, disturbed : BOOLEAN] /\ m.disturbed
  <2>1. b.message # Heartbeat
    BY <1>2 DEF PassedOver
  <2>2. PICK c \in b.unheard :
             m = [message |-> b.message, client |-> c, disturbed |-> b.disturbed]
    BY <1>2, <2>1 DEF PassedOver
  <2>3. b.message \in 1..Len(alerts) /\ c \in Clients /\ b.disturbed \in BOOLEAN
    BY <1>1, <2>1, <2>2 DEF Messages, LoopState
  <2>4. b.disturbed
    <3>1. CASE SizeChanged(b)
      BY <1>1, <3>1 DEF SizeChanged
    <3>2. CASE Exhausted(b)
      BY <2>2, <3>2 DEF Exhausted
    <3> QED
      BY <3>1, <3>2 DEF b
  <2> QED
    BY <2>2, <2>3, <2>4
<1> QED
  BY <1>2 DEF b

\* One loop moves on, and the set becomes s under the others.
LEMMA LoopMoves ==
    ASSUME StreamOK, NEW s \in SUBSET Clients, NEW l \in Loops, NEW b \in LoopState,
           b.at = "send" => /\ b.message \in Messages /\ b.to \in Clients
                            /\ ~b.disturbed => b.size = Cardinality(s),
           active' = s, loop' = [Walks(s) EXCEPT ![l] = b],
           UNCHANGED <<client, alerts>>,
           missed' \in SUBSET [message : 1..Len(alerts), client : Clients, disturbed : BOOLEAN]
    PROVE  StreamOK'
<1>1. Messages' = Messages /\ (1..Len(alerts))' = 1..Len(alerts)
  BY DEF Messages
<1>2. /\ loop' \in [Loops -> LoopState]
      /\ \A k \in Loops : loop'[k] = IF k = l THEN b ELSE Walks(s)[k]
  BY WalksKept
<1>3. \A k \in Loops :
          loop'[k].at = "send" =>
              /\ loop'[k].message \in Messages /\ loop'[k].to \in Clients
              /\ ~loop'[k].disturbed => loop'[k].size = Cardinality(s)
  BY <1>2, WalksKept
<1>4. LoopState' = LoopState
  BY <1>1 DEF LoopState
<1>5. \A k \in Loops : Walking(loop[k])'
  BY <1>1, <1>3 DEF Walking
<1> QED
  BY <1>1, <1>2, <1>4, <1>5 DEF StreamOK

LEMMA StreamStepPreserves ==
    ASSUME StreamOK, QuietBroadcastReachesAll, AlertsOK, StreamStep, UNCHANGED alerts
    PROVE  StreamOK' /\ QuietBroadcastReachesAll'
<1>1. Messages' = Messages /\ (1..Len(alerts))' = 1..Len(alerts) /\ LoopState' = LoopState
  BY DEF Messages, LoopState
<1>2. ASSUME NEW c \in Clients, Connect(c) \/ Drop(c) \/ Disconnect(c)
      PROVE  StreamOK' /\ QuietBroadcastReachesAll'
  <2>1. /\ client' \in [Clients -> {"new", "open", "gone", "closed"}] /\ active' \subseteq Clients
        /\ loop' = Walks(active') /\ missed' = missed
    BY <1>2, WalksKept DEF StreamOK, Connect, Drop, Disconnect
  <2> DEFINE s == active'
  <2>2. /\ loop' \in [Loops -> LoopState]
        /\ \A l \in Loops :
              loop'[l].at = "send" =>
                  /\ loop'[l].message \in Messages /\ loop'[l].to \in Clients
                  /\ ~loop'[l].disturbed => loop'[l].size = Cardinality(s)
    <3>1. s \in SUBSET Clients /\ loop' = Walks(s)
      BY <2>1
    <3> HIDE DEF s
    <3> QED
      BY <3>1, WalksKept
  <2>3. \A l \in Loops : Walking(loop[l])'
    BY <1>1, <2>2 DEF Walking
  <2> QED
    BY <1>1, <2>1, <2>2, <2>3 DEF StreamOK, QuietBroadcastReachesAll
<1>3. active \in SUBSET Clients /\ Walks(active) = loop
  BY WalksKept DEF StreamOK
<1>4. missed \in SUBSET [message : 1..Len(alerts), client : Clients, disturbed : BOOLEAN]
  BY DEF StreamOK
<1>5. ASSUME NEW l \in Loops, NEW result, NEW c \in Clients, SendNext(l, c, result)
      PROVE  StreamOK' /\ QuietBroadcastReachesAll'
  <2> DEFINE b == AfterSend(l, result)
             r == [b EXCEPT !.to = c]
  <2>1. b \in LoopState /\ b.message \in Messages /\ (~b.disturbed => b.size = Cardinality(active))
    BY <1>5, SentTyped DEF SendNext
  <2>2. loop' = [Walks(active) EXCEPT ![l] = r] /\ UNCHANGED <<client, active, missed>>
    BY <1>3, <1>5 DEF SendNext
  <2> HIDE DEF b
  <2>3. r \in LoopState /\ r.message \in Messages /\ r.to \in Clients
        /\ (~r.disturbed => r.size = Cardinality(active))
    BY <2>1 DEF LoopState
  <2> HIDE DEF r
  <2> QED
    BY <1>3, <1>4, <2>2, <2>3, LoopMoves DEF QuietBroadcastReachesAll
<1>6. ASSUME NEW l \in Loops, NEW result, EndLoop(l, result) \/ BreakLoop(l, result)
      PROVE  StreamOK' /\ QuietBroadcastReachesAll'
  <2> DEFINE b == AfterSend(l, result)
  <2>1. Broadcasting(l) /\ (SizeChanged(b) \/ Exhausted(b))
        /\ missed' = missed \cup PassedOver(b) /\ client' = client
    BY <1>6 DEF EndLoop, BreakLoop
  <2>2. /\ missed' \in SUBSET [message : 1..Len(alerts), client : Clients, disturbed : BOOLEAN]
        /\ QuietBroadcastReachesAll'
    BY <2>1, PassedOverDisturbed DEF StreamOK, QuietBroadcastReachesAll
  <2>3. CASE EndLoop(l, result)
    <3> DEFINE s == active \ b.failed
    <3>1. active' = s /\ loop' = [Walks(s) EXCEPT ![l] = Resting] /\ s \in SUBSET Clients
      BY <1>3, <2>3 DEF EndLoop
    <3> HIDE DEF s
    <3> QED
      BY <2>1, <2>2, <3>1, RestingTyped, LoopMoves
  <2>4. CASE BreakLoop(l, result)
    <3> DEFINE r == [Resting EXCEPT !.at = IF l = Heart THEN "dead" ELSE "idle"]
    <3>1. r \in LoopState /\ r.at # "send"
      BY RestingTyped DEF LoopState, Resting
    <3>2. loop' = [Walks(active) EXCEPT ![l] = r] /\ active' = active
      BY <1>3, <2>4 DEF BreakLoop
    <3> HIDE DEF r
    <3> QED
      BY <1>3, <2>1, <2>2, <3>1, <3>2, LoopMoves
  <2> QED
    BY <1>6, <2>3, <2>4
<1>7. ASSUME Beat PROVE StreamOK' /\ QuietBroadcastReachesAll'
  <2>1. Heart \in Loops /\ UNCHANGED <<client, active, missed>> /\ Begin(Heart, Heartbeat)
        /\ Heartbeat \in Messages
    BY <1>7, StreamAssumption DEF Beat, Messages
  <2>2. \E r \in LoopState :
            /\ loop' = [loop EXCEPT ![Heart] = r]
            /\ r.at = "send" => /\ r.message \in Messages /\ r.to \in Clients
                                /\ r.size = Cardinality(active)
    <3>1. CASE loop' = [loop EXCEPT ![Heart] = Resting]
      BY <3>1, RestingTyped
    <3>2. CASE \E c \in active :
                 loop' = [loop EXCEPT ![Heart] =
                            [Resting EXCEPT !.at = "send", !.message = Heartbeat,
                                            !.size = Cardinality(active),
                                            !.unheard = active, !.to = c]]
      <4>1. PICK c \in active :
                 loop' = [loop EXCEPT ![Heart] =
                            [Resting EXCEPT !.at = "send", !.message = Heartbeat,
                                            !.size = Cardinality(active),
                                            !.unheard = active, !.to = c]]
        BY <3>2
      <4> DEFINE r == [Resting EXCEPT !.at = "send", !.message = Heartbeat,
                                      !.size = Cardinality(active), !.unheard = active, !.to = c]
      <4>2. /\ r \in LoopState /\ r.message = Heartbeat /\ r.to = c
            /\ r.size = Cardinality(active)
        BY <1>3, <2>1, BeginTyped
      <4>3. c \in Clients
        BY <1>3, <4>1
      <4> HIDE DEF r
      <4> QED
        BY <2>1, <4>1, <4>2, <4>3 DEF r
    <3> QED
      BY <2>1, <3>1, <3>2 DEF Begin
  <2>3. PICK r \in LoopState :
            /\ loop' = [loop EXCEPT ![Heart] = r]
            /\ r.at = "send" => /\ r.message \in Messages /\ r.to \in Clients
                                /\ r.size = Cardinality(active)
    BY <2>2
  <2>4. QuietBroadcastReachesAll' /\ loop' = [Walks(active) EXCEPT ![Heart] = r]
    BY <1>3, <2>1, <2>3 DEF QuietBroadcastReachesAll
  <2> QED
    BY <1>3, <1>4, <2>1, <2>3, <2>4, LoopMoves
<1> QED
  BY <1>2, <1>5, <1>6, <1>7 DEF StreamStep, LoopStep

---------------------------------------------------------------------------
(* The uploads.                                                            *)

\* An insert keeps what is stored, adds its batch and nothing else.
LEMMA InsertAdds ==
    ASSUME TablesOK, NEW batch \in Seq(Records), Insert(batch)
    PROVE  /\ rows' \in [Records -> Nat] /\ IsFiniteSet(Stored)'
           /\ Stored \cup ToSet(batch) = Stored'
           /\ \A r \in Records : r \notin ToSet(batch) => rows'[r] = rows[r]
           /\ NoRepeats(batch) => \A r \in Records : rows'[r] <= rows[r] + 1
<1> DEFINE places(r) == {i \in DOMAIN batch : batch[i] = r}
<1>1. DOMAIN batch = 1..Len(batch) /\ Len(batch) \in Nat /\ IsFiniteSet(DOMAIN batch)
  BY FS_Interval
<1>2. ASSUME NEW r \in Records
      PROVE  /\ Cardinality(places(r)) \in Nat
             /\ (Cardinality(places(r)) = 0) <=> r \notin ToSet(batch)
             /\ NoRepeats(batch) => Cardinality(places(r)) <= 1
  <2>1. IsFiniteSet(places(r)) /\ Cardinality(places(r)) \in Nat
    BY <1>1, FS_Subset, FS_CardinalityType
  <2>2. (Cardinality(places(r)) = 0) <=> places(r) = {}
    BY <2>1, FS_EmptySet
  <2>3. (places(r) = {}) <=> r \notin ToSet(batch)
    BY DEF ToSet
  <2>4. ASSUME NoRepeats(batch) PROVE Cardinality(places(r)) <= 1
    <3>1. CASE places(r) = {}
      BY <2>2, <3>1
    <3>2. ASSUME NEW i \in places(r) PROVE Cardinality(places(r)) <= 1
      <4>1. places(r) = {i}
        BY <2>4, <3>2 DEF NoRepeats
      <4>2. Cardinality({i}) = 1
        BY FS_Singleton, Zenon
      <4>3. Cardinality(places(r)) = 1
        BY <4>1, <4>2, Zenon
      <4> QED
        BY <4>3
    <3> QED
      BY <3>1, <3>2
  <2> QED
    BY <2>1, <2>2, <2>3, <2>4
<1>3. rows' = [r \in Records |-> rows[r] + Cardinality(places(r))]
  BY DEF Insert
<1> HIDE DEF places
<1>4. rows' \in [Records -> Nat]
      /\ \A r \in Records : rows'[r] = rows[r] + Cardinality(places(r)) /\ rows[r] \in Nat
  BY <1>2, <1>3 DEF TablesOK
<1>5. ToSet(batch) \subseteq Records
  BY <1>1 DEF ToSet
<1>6. Stored' = Stored \cup ToSet(batch)
  <2>1. \A r \in Records : rows'[r] > 0 <=> rows[r] > 0 \/ r \in ToSet(batch)
    BY <1>2, <1>4
  <2> QED
    BY <1>5, <2>1 DEF Stored
<1>7. IsFiniteSet(ToSet(batch))
  <2>1. batch \in Surjection(DOMAIN batch, ToSet(batch))
    BY <1>1 DEF Surjection, ToSet
  <2> QED
    BY <1>1, <2>1, FS_Surjection
<1>8. IsFiniteSet(Stored \cup ToSet(batch))
  BY <1>7, FS_Union DEF TablesOK
<1> QED
  BY <1>2, <1>4, <1>6, <1>8

\* What is in a sequence.
LEMMA InSequence ==
    ASSUME NEW s \in Seq(Records)
    PROVE  /\ ToSet(s) \subseteq Records
           /\ s = <<>> => ToSet(s) = {}
           /\ \A r \in Records :
                 /\ s \o <<r>> \in Seq(Records)
                 /\ ToSet(s \o <<r>>) = ToSet(s) \cup {r}
                 /\ NoRepeats(s) /\ r \notin ToSet(s) => NoRepeats(s \o <<r>>)
<1>1. s \in [1..Len(s) -> Records] /\ Len(s) \in Nat /\ DOMAIN s = 1..Len(s)
  OBVIOUS
<1>2. ASSUME NEW r \in Records
      PROVE  /\ s \o <<r>> \in Seq(Records)
             /\ ToSet(s \o <<r>>) = ToSet(s) \cup {r}
             /\ NoRepeats(s) /\ r \notin ToSet(s) => NoRepeats(s \o <<r>>)
  <2>1. /\ s \o <<r>> \in Seq(Records) /\ Len(s \o <<r>>) = Len(s) + 1
        /\ DOMAIN (s \o <<r>>) = 1..(Len(s) + 1)
        /\ \A i \in 1..(Len(s) + 1) : (s \o <<r>>)[i] = IF i <= Len(s) THEN s[i] ELSE r
    BY <1>1
  <2>2. ToSet(s \o <<r>>) = ToSet(s) \cup {r}
    BY <1>1, <2>1 DEF ToSet
  <2>3. NoRepeats(s) /\ r \notin ToSet(s) => NoRepeats(s \o <<r>>)
    BY <1>1, <2>1 DEF ToSet, NoRepeats
  <2> QED
    BY <2>1, <2>2, <2>3
<1>3. ToSet(s) \subseteq Records
  BY <1>1 DEF ToSet
<1>4. s = <<>> => ToSet(s) = {}
  BY <1>1 DEF ToSet
<1> QED
  BY <1>2, <1>3, <1>4

\* A batch and what is left after it share the records and have none in common.
LEMMA BatchAndOthers ==
    ASSUME NEW s \in Seq(Records)
    PROVE  /\ Batch(s) \in Seq(Records) /\ Others(s) \in Seq(Records)
           /\ ToSet(s) = ToSet(Batch(s)) \cup ToSet(Others(s))
           /\ NoRepeats(s) => /\ NoRepeats(Batch(s)) /\ NoRepeats(Others(s))
                              /\ ToSet(Batch(s)) \cap ToSet(Others(s)) = {}
<1> DEFINE k == Len(s)
           n == Smaller(BatchSize, k)
           m == IF BatchSize < k THEN k - BatchSize ELSE 0
<1>1. k \in Nat /\ DOMAIN s = 1..k /\ \A i \in 1..k : s[i] \in Records
  OBVIOUS
<1> HIDE DEF k
<1>2. /\ n \in Nat /\ n <= k /\ n <= BatchSize /\ (n = BatchSize \/ n = k)
      /\ BatchSize \in Nat
      /\ m \in Nat /\ (m > 0 => BatchSize + m = k) /\ (m = 0 => k <= BatchSize)
  BY <1>1, SentinelAssumption DEF Smaller
<1> HIDE DEF n
<1>3. /\ Batch(s) \in Seq(Records) /\ Len(Batch(s)) = n
      /\ \A i \in 1..n : Batch(s)[i] = s[i]
  <2>1. \A i \in 1..n : s[i] \in Records
    BY <1>1, <1>2
  <2>2. /\ SubSeq(s, 1, n) \in Seq(Records)
        /\ Len(SubSeq(s, 1, n)) = IF 1 <= n THEN n - 1 + 1 ELSE 0
        /\ \A i \in 1..(n - 1 + 1) : SubSeq(s, 1, n)[i] = s[1 + i - 1]
    BY <1>2, <2>1, SubSeqProperties
  <2> QED
    BY <1>2, <2>2 DEF Batch, n, k
<1>4. /\ Others(s) \in Seq(Records) /\ Len(Others(s)) = m
      /\ \A i \in 1..m : Others(s)[i] = s[BatchSize + i]
  <2>1. \A i \in (BatchSize + 1)..k : s[i] \in Records
    BY <1>1, <1>2
  <2>2. /\ SubSeq(s, BatchSize + 1, k) \in Seq(Records)
        /\ Len(SubSeq(s, BatchSize + 1, k)) =
              IF BatchSize + 1 <= k THEN k - (BatchSize + 1) + 1 ELSE 0
        /\ \A i \in 1..(k - (BatchSize + 1) + 1) :
              SubSeq(s, BatchSize + 1, k)[i] = s[BatchSize + 1 + i - 1]
    BY <1>1, <1>2, <2>1, SubSeqProperties
  <2>3. Others(s) = SubSeq(s, BatchSize + 1, k)
    BY DEF Others, k
  <2>4. Len(Others(s)) = m
    BY <1>1, <1>2, <2>2, <2>3
  <2>5. ASSUME NEW i \in 1..m PROVE Others(s)[i] = s[BatchSize + i]
    <3>1. i \in 1..(k - (BatchSize + 1) + 1) /\ BatchSize + 1 + i - 1 = BatchSize + i
      BY <1>1, <1>2
    <3> QED
      BY <2>2, <2>3, <3>1
  <2> QED
    BY <2>2, <2>3, <2>4, <2>5
<1> HIDE DEF m
<1>5. DOMAIN Batch(s) = 1..n /\ DOMAIN Others(s) = 1..m /\ m \in Nat
  BY <1>1, <1>2, <1>3, <1>4
<1>6. ToSet(s) = ToSet(Batch(s)) \cup ToSet(Others(s))
  <2>1. ASSUME NEW i \in 1..k PROVE s[i] \in ToSet(Batch(s)) \cup ToSet(Others(s))
    <3>1. CASE i <= n
      BY <1>2, <1>3, <1>5, <3>1 DEF ToSet
    <3>2. CASE i > n
      <4>1. i - BatchSize \in 1..m /\ BatchSize + (i - BatchSize) = i
        BY <1>1, <1>2, <3>2
      <4>2. s[i] = Others(s)[i - BatchSize]
        BY <1>4, <4>1
      <4> QED
        BY <1>5, <4>1, <4>2 DEF ToSet
    <3> QED
      BY <1>2, <3>1, <3>2
  <2>2. \A i \in 1..n : Batch(s)[i] \in ToSet(s)
    BY <1>1, <1>2, <1>3 DEF ToSet
  <2>3. ASSUME NEW i \in 1..m PROVE Others(s)[i] \in ToSet(s)
    <3>1. BatchSize + i \in DOMAIN s /\ Others(s)[i] = s[BatchSize + i]
      BY <1>1, <1>2, <1>4
    <3> QED
      BY <3>1 DEF ToSet
  <2> QED
    BY <1>1, <1>5, <2>1, <2>2, <2>3 DEF ToSet
<1>7. ASSUME NoRepeats(s)
      PROVE  NoRepeats(Batch(s)) /\ NoRepeats(Others(s))
             /\ ToSet(Batch(s)) \cap ToSet(Others(s)) = {}
  <2>1. \A i, j \in 1..k : s[i] = s[j] => i = j
    BY <1>1, <1>7 DEF NoRepeats
  <2>2. ASSUME NEW i \in 1..n, NEW j \in 1..n, Batch(s)[i] = Batch(s)[j] PROVE i = j
    <3>1. i \in 1..k /\ j \in 1..k /\ s[i] = s[j]
      BY <1>1, <1>2, <1>3, <2>2
    <3> QED
      BY <2>1, <3>1
  <2>3. ASSUME NEW i \in 1..m, NEW j \in 1..m, Others(s)[i] = Others(s)[j] PROVE i = j
    <3>1. BatchSize + i \in 1..k /\ BatchSize + j \in 1..k
      BY <1>1, <1>2
    <3>2. s[BatchSize + i] = s[BatchSize + j]
      BY <1>4, <2>3
    <3> QED
      BY <1>2, <2>1, <3>1, <3>2
  <2>4. NoRepeats(Others(s))
    BY <1>5, <2>3 DEF NoRepeats
  <2>5. ASSUME NEW i \in 1..n, NEW j \in 1..m, Batch(s)[i] = Others(s)[j] PROVE FALSE
    <3>1. i \in 1..k /\ BatchSize + j \in 1..k /\ i # BatchSize + j
      BY <1>1, <1>2
    <3>2. s[i] = s[BatchSize + j]
      BY <1>3, <1>4, <2>5
    <3> QED
      BY <2>1, <3>1, <3>2
  <2>6. NoRepeats(Batch(s))
    BY <1>5, <2>2 DEF NoRepeats
  <2> QED
    BY <1>5, <2>4, <2>5, <2>6 DEF ToSet
<1> QED
  BY <1>3, <1>4, <1>6, <1>7

\* An upload that does not move stays as it should be while more is stored.
LEMMA UploadKept ==
    ASSUME NEW u \in Uploads, UploadOK(u), upload'[u] = upload[u], Stored \subseteq Stored'
    PROVE  UploadOK(u)'
BY DEF UploadOK, Checked, InProgress

LEMMA UploadsKept ==
    ASSUME UploadsOK, UNCHANGED upload, Stored \subseteq Stored'
    PROVE  UploadsOK'
<1>1. \A u \in Uploads : UploadOK(u)'
  BY UploadKept DEF UploadsOK
<1> QED
  BY <1>1 DEF UploadsOK

\* One upload moves.
LEMMA UploadMoved ==
    ASSUME UploadsOK, NEW u \in Uploads, NEW next \in UploadState,
           upload' = [upload EXCEPT ![u] = next], Stored \subseteq Stored', UploadOK(u)'
    PROVE  UploadsOK'
<1>1. upload' \in [Uploads -> UploadState] /\ \A v \in Uploads \ {u} : upload'[v] = upload[v]
  BY DEF UploadsOK
<1>2. \A v \in Uploads \ {u} : UploadOK(v)'
  BY <1>1, UploadKept DEF UploadsOK
<1> QED
  BY <1>1, <1>2 DEF UploadsOK

LEMMA ReadFilePreserves ==
    ASSUME TablesOK, UploadsOK, InTurn, NEW u \in Uploads, NEW file \in Files, ReadFile(u, file)
    PROVE  UploadsOK' /\ InTurn'
<1> DEFINE records == Deduplicated(Parsed(file))
           first == IF records # <<>> THEN "check" ELSE IF file = <<>> THEN "insert" ELSE "failed"
           next == [NewUpload EXCEPT !.at = first, !.file = records]
<1>1. records \in Seq(Records) /\ NoRepeats(records)
  BY ParsedRecords, DeduplicatedOnce, SentinelAssumption
<1>2. /\ upload[u].at = "new" /\ upload' = [upload EXCEPT ![u] = next]
      /\ overlapped' = (overlapped \/ (records # <<>> /\ \E v \in Uploads : InProgress(v)))
      /\ rows' = rows /\ events' = events
  BY DEF ReadFile
<1> HIDE DEF records
<1>3. /\ next.at = first /\ next.file = records /\ next.next = 1 /\ next.fresh = <<>>
      /\ next \in UploadState
      /\ first \in {"check", "insert", "failed"}
      /\ first = "check" <=> records # <<>>
      /\ NoRepeats(<<>>) /\ ToSet(<<>>) = {}
  <2>1. NoRepeats(<<>>) /\ ToSet(<<>>) = {}
    BY DEF NoRepeats, ToSet
  <2>2. first \in {"check", "insert", "failed"}
    OBVIOUS
  <2>3. first = "check" <=> records # <<>>
    OBVIOUS
  <2> HIDE DEF first
  <2>4. NewUpload \in UploadState
    BY DEF NewUpload, UploadState
  <2>5. next.next = 1 /\ next.fresh = <<>>
    BY DEF NewUpload
  <2>6. next \in UploadState /\ next.at = first /\ next.file = records
    BY <1>1, <2>2, <2>4 DEF UploadState
  <2> QED
    BY <2>1, <2>2, <2>3, <2>5, <2>6
<1> HIDE DEF first, next
<1>5. upload'[u] = next /\ \A v \in Uploads \ {u} : upload'[v] = upload[v]
  BY <1>2 DEF UploadsOK
<1>6. Stored' = Stored
  BY <1>2 DEF Stored
<1>7. UploadOK(u)'
  <2>1. CASE records # <<>>
    <3>1. 1 \in DOMAIN records /\ 1..(1 - 1) = {}
      BY <1>1, <2>1
    <3> QED
      BY <1>1, <1>3, <1>5, <2>1, <3>1 DEF UploadOK, Checked, InProgress
  <2>2. CASE records = <<>>
    BY <1>3, <1>5, <2>2 DEF UploadOK, Checked, InProgress
  <2> QED
    BY <2>1, <2>2
<1>8. UploadsOK'
  BY <1>2, <1>3, <1>6, <1>7, UploadMoved
<1>9. InTurn'
  <2>1. SUFFICES ASSUME ~overlapped'
                 PROVE  /\ \A v \in Uploads : InProgress(v)' => Unstored(v)'
                        /\ \A v, w \in Uploads :
                              v # w /\ InProgress(v)' /\ InProgress(w)' => Through(v)' \/ Through(w)'
                        /\ \A r \in Records \ events : rows[r] <= 1
    BY <1>2 DEF InTurn
  <2>2. ~overlapped /\ (records = <<>> \/ \A v \in Uploads : ~InProgress(v))
    BY <1>2, <2>1
  <2>3. Unstored(u)'
    BY <1>3, <1>5 DEF Unstored
  <2>4. records = <<>> => ~InProgress(u)' \/ Through(u)'
    BY <1>3, <1>5 DEF InProgress, Through
  <2>5. \A v \in Uploads \ {u} : /\ InProgress(v)' = InProgress(v)
                                 /\ Unstored(v)' = Unstored(v) /\ Through(v)' = Through(v)
    BY <1>2, <1>5 DEF InProgress, Unstored, Through
  <2> QED
    BY <2>2, <2>3, <2>4, <2>5 DEF InTurn
<1> QED
  BY <1>8, <1>9

LEMMA CheckDuplicatePreserves ==
    ASSUME TablesOK, UploadsOK, InTurn, NEW u \in Uploads, CheckDuplicate(u)
    PROVE  UploadsOK' /\ InTurn'
<1> DEFINE file == upload[u].file
           k == upload[u].next
           fresh == upload[u].fresh
           r == file[k]
           more == fresh \o Kept(r)
           at == IF k = Len(file) THEN "insert" ELSE "check"
           next == [upload[u] EXCEPT !.fresh = more, !.next = k + 1, !.at = at]
<1>1. /\ upload[u] \in UploadState /\ file \in Seq(Records) /\ fresh \in Seq(Records) /\ k \in Nat
      /\ upload[u].at = "check" /\ Checked(u) /\ NoRepeats(file) /\ NoRepeats(fresh)
      /\ k \in DOMAIN file /\ k \in 1..Len(file) /\ r \in Records
  <2>1. upload[u] \in UploadState /\ UploadOK(u) /\ upload[u].at = "check"
    BY DEF UploadsOK, CheckDuplicate
  <2>2. Checked(u) /\ NoRepeats(fresh)
    BY <2>1 DEF UploadOK, InProgress
  <2>3. NoRepeats(file) /\ k \in DOMAIN file
    BY <2>2 DEF Checked
  <2>4. file \in Seq(Records) /\ fresh \in Seq(Records) /\ k \in Nat
    BY <2>1 DEF UploadState
  <2> QED
    BY <2>1, <2>2, <2>3, <2>4
<1>2. upload' = [upload EXCEPT ![u] = next] /\ UNCHANGED <<rows, events, overlapped>>
  BY DEF CheckDuplicate, tables, UploadsOK
<1>3. r \notin ToSet(fresh)
  <2>1. \A i \in 1..(k - 1) : file[i] # r
    BY <1>1 DEF NoRepeats
  <2> HIDE DEF r
  <2> QED
    BY <1>1, <2>1 DEF Checked
<1>4. /\ more \in Seq(Records) /\ NoRepeats(more)
      /\ ToSet(more) \subseteq ToSet(fresh) \cup {r} /\ ToSet(fresh) \subseteq ToSet(more)
      /\ r \in Stored \cup ToSet(more)
      /\ r \in ToSet(more) => rows[r] = 0
  <2>1. CASE rows[r] = 0
    <3>1. more = fresh \o <<r>>
      BY <2>1 DEF Kept
    <3> HIDE DEF r, fresh, more
    <3> QED
      BY <1>1, <1>3, <2>1, <3>1, InSequence
  <2>2. CASE rows[r] # 0
    <3>1. more = fresh
      BY <1>1, <2>2 DEF Kept
    <3>2. r \in Stored
      BY <1>1, <2>2 DEF Stored, TablesOK
    <3> HIDE DEF r, fresh, more
    <3> QED
      BY <1>1, <1>3, <3>1, <3>2
  <2> QED
    BY <2>1, <2>2
<1>5. /\ next.at = at /\ next.file = file /\ next.next = k + 1 /\ next.fresh = more
      /\ next \in UploadState
  <2>1. at \in {"check", "insert"} /\ k + 1 \in Nat
    BY <1>1
  <2> HIDE DEF at, more, r, k
  <2> QED
    BY <1>1, <1>4, <2>1 DEF UploadState
<1>6. upload'[u] = next /\ \A v \in Uploads \ {u} : upload'[v] = upload[v]
  BY <1>2 DEF UploadsOK
<1>7. Stored' = Stored
  BY <1>2 DEF Stored
<1> HIDE DEF next, more
<1>8. /\ \A x \in ToSet(more) : \E j \in 1..k : x = file[j]
      /\ \A j \in 1..k : file[j] \in Stored \cup ToSet(more)
  <2>1. /\ \A x \in ToSet(fresh) : \E j \in 1..(k - 1) : x = file[j]
        /\ \A j \in 1..(k - 1) : file[j] \in Stored \cup ToSet(fresh)
    BY <1>1 DEF Checked
  <2>2. k \in 1..k /\ \A j \in 1..k : j = k \/ j \in 1..(k - 1)
    BY <1>1
  <2>3. \A x \in ToSet(more) : \E j \in 1..k : x = file[j]
    BY <1>1, <1>4, <2>1, <2>2
  <2> QED
    BY <1>4, <2>1, <2>2, <2>3
<1>9. UploadOK(u)'
  <2>1. CASE k = Len(file)
    <3>1. ToSet(file) \subseteq Stored \cup ToSet(more)
      BY <1>1, <1>8, <2>1 DEF ToSet
    <3> QED
      BY <1>4, <1>5, <1>6, <1>7, <2>1, <3>1 DEF UploadOK, InProgress
  <2>2. CASE k # Len(file)
    <3>1. k + 1 \in DOMAIN file /\ k + 1 - 1 = k
      BY <1>1, <2>2
    <3>2. /\ upload'[u].file = file /\ upload'[u].next = k + 1 /\ upload'[u].fresh = more
      BY <1>5, <1>6
    <3>3. Checked(u)'
      <4> HIDE DEF file, k
      <4> QED
        BY <1>1, <1>7, <1>8, <3>1, <3>2 DEF Checked
    <3> QED
      BY <1>4, <1>5, <1>6, <2>2, <3>3 DEF UploadOK, InProgress
  <2> QED
    BY <2>1, <2>2
<1>10. UploadsOK'
  BY <1>2, <1>5, <1>7, <1>9, UploadMoved
<1>11. InTurn'
  <2>1. SUFFICES ASSUME ~overlapped
                 PROVE  /\ \A v \in Uploads : InProgress(v)' => Unstored(v)'
                        /\ \A v, w \in Uploads :
                              v # w /\ InProgress(v)' /\ InProgress(w)' => Through(v)' \/ Through(w)'
                        /\ \A x \in Records \ events : rows[x] <= 1
    BY <1>2 DEF InTurn
  <2>2. InProgress(u) /\ ~Through(u)
    BY <1>1 DEF InProgress, Through
  <2>3. Unstored(u)'
    <3>1. Unstored(u)
      BY <2>1, <2>2 DEF InTurn
    <3> QED
      BY <1>2, <1>4, <1>5, <1>6, <3>1 DEF Unstored
  <2>4. \A v \in Uploads \ {u} : /\ InProgress(v)' = InProgress(v)
                                 /\ Unstored(v)' = Unstored(v) /\ Through(v)' = Through(v)
    BY <1>2, <1>6 DEF InProgress, Unstored, Through
  <2> QED
    BY <2>1, <2>2, <2>3, <2>4 DEF InTurn
<1> QED
  BY <1>10, <1>11

LEMMA InsertBatchPreserves ==
    ASSUME TablesOK, UploadsOK, InTurn, NEW u \in Uploads, InsertBatch(u)
    PROVE  TablesOK' /\ UploadsOK' /\ InTurn' /\ Stored \subseteq Stored'
<1> DEFINE fresh == upload[u].fresh
           batch == Batch(fresh)
           others == Others(fresh)
           next == [upload[u] EXCEPT !.fresh = others]
<1>1. /\ upload[u] \in UploadState /\ upload[u].at = "insert" /\ fresh \in Seq(Records)
      /\ NoRepeats(fresh) /\ ToSet(upload[u].file) \subseteq Stored \cup ToSet(fresh)
      /\ InProgress(u) /\ ~Through(u)
  BY DEF UploadsOK, InsertBatch, UploadState, UploadOK, InProgress, Through
<1>2. /\ Insert(batch) /\ upload' = [upload EXCEPT ![u] = next]
      /\ UNCHANGED <<recent, events, overlapped>>
  BY DEF InsertBatch, UploadsOK
<1>3. /\ batch \in Seq(Records) /\ others \in Seq(Records)
      /\ ToSet(fresh) = ToSet(batch) \cup ToSet(others)
      /\ NoRepeats(batch) /\ NoRepeats(others) /\ ToSet(batch) \cap ToSet(others) = {}
  <2> HIDE DEF fresh
  <2> QED
    BY <1>1, BatchAndOthers
<1>4. /\ next.at = "insert" /\ next.file = upload[u].file /\ next.fresh = others
      /\ next \in UploadState
  BY <1>1, <1>3 DEF UploadState
<1> HIDE DEF fresh, batch, others, next
<1>5. /\ rows' \in [Records -> Nat] /\ IsFiniteSet(Stored)'
      /\ Stored \cup ToSet(batch) = Stored'
      /\ \A r \in Records : r \notin ToSet(batch) => rows'[r] = rows[r]
      /\ \A r \in Records : rows'[r] <= rows[r] + 1
  BY <1>2, <1>3, InsertAdds
<1>6. upload'[u] = next /\ \A v \in Uploads \ {u} : upload'[v] = upload[v]
  BY <1>2 DEF UploadsOK
<1>7. TablesOK'
  BY <1>2, <1>5 DEF TablesOK
<1>8. UploadOK(u)'
  <2>1. ToSet(upload[u].file) \subseteq Stored' \cup ToSet(others)
    BY <1>1, <1>3, <1>5
  <2> QED
    BY <1>3, <1>4, <1>6, <2>1 DEF UploadOK, InProgress
<1>9. UploadsOK'
  BY <1>2, <1>4, <1>5, <1>8, UploadMoved
<1>10. InTurn'
  <2>1. SUFFICES ASSUME ~overlapped
                 PROVE  /\ \A v \in Uploads : InProgress(v)' => Unstored(v)'
                        /\ \A v, w \in Uploads :
                              v # w /\ InProgress(v)' /\ InProgress(w)' => Through(v)' \/ Through(w)'
                        /\ \A r \in Records \ events : rows'[r] <= 1
    BY <1>2 DEF InTurn
  <2>2. \A r \in ToSet(fresh) : r \in events \/ rows[r] = 0
    BY <1>1, <2>1 DEF InTurn, Unstored, fresh
  <2>3. ToSet(fresh) \subseteq Records
    BY <1>1, InSequence
  <2>4. Unstored(u)'
    BY <1>2, <1>3, <1>4, <1>5, <1>6, <2>2, <2>3 DEF Unstored
  <2>5. ASSUME NEW v \in Uploads \ {u}, InProgress(v)' PROVE Through(v)' /\ Unstored(v)'
    <3>1. InProgress(v) /\ upload'[v] = upload[v]
      BY <1>6, <2>5 DEF InProgress
    <3>2. Through(v)
      BY <1>1, <2>1, <3>1 DEF InTurn
    <3>3. ToSet(<<>>) = {}
      BY DEF ToSet
    <3> QED
      BY <3>1, <3>2, <3>3 DEF Through, Unstored
  <2>6. ASSUME NEW r \in Records \ events PROVE rows'[r] <= 1
    <3>1. rows[r] <= 1
      BY <2>1 DEF InTurn
    <3>2. CASE r \in ToSet(batch)
      <4>1. rows[r] = 0 /\ rows'[r] <= rows[r] + 1
        BY <1>3, <1>5, <2>2, <3>2
      <4> QED
        BY <4>1
    <3>3. CASE r \notin ToSet(batch)
      BY <1>5, <3>1, <3>3
    <3> QED
      BY <3>2, <3>3
  <2> QED
    BY <2>4, <2>5, <2>6
<1> QED
  BY <1>5, <1>7, <1>9, <1>10

\* An upload ends, well or not.
LEMMA EndPreserves ==
    ASSUME TablesOK, UploadsOK, InTurn, NEW u \in Uploads, Answer(u) \/ UploadFails(u)
    PROVE  UploadsOK' /\ InTurn'
<1>1. PICK next \in UploadState :
           /\ upload' = [upload EXCEPT ![u] = next] /\ next.at \in {"done", "failed"}
           /\ next.at = "done" => ToSet(next.file) \subseteq Stored
  <2>1. upload[u] \in UploadState /\ UploadOK(u)
    BY DEF UploadsOK
  <2>2. CASE Answer(u)
    <3> DEFINE next == [upload[u] EXCEPT !.at = "done"]
    <3>1. upload' = [upload EXCEPT ![u] = next]
      BY <2>2 DEF Answer, UploadsOK
    <3>2. next \in UploadState /\ next.at = "done" /\ next.file = upload[u].file
      BY <2>1 DEF UploadState
    <3>3. upload[u].at = "insert" /\ upload[u].fresh = <<>> /\ ToSet(<<>>) = {}
      BY <2>2 DEF Answer, ToSet
    <3>4. ToSet(upload[u].file) \subseteq Stored
      BY <2>1, <3>3 DEF UploadOK
    <3> HIDE DEF next
    <3> QED
      BY <3>1, <3>2, <3>4
  <2>3. CASE UploadFails(u)
    <3> DEFINE next == [NewUpload EXCEPT !.at = "failed"]
    <3>1. upload' = [upload EXCEPT ![u] = next]
      BY <2>3 DEF UploadFails
    <3>2. NewUpload \in UploadState
      BY DEF UploadState, NewUpload
    <3>3. next \in UploadState /\ next.at = "failed"
      BY <3>2 DEF UploadState
    <3> HIDE DEF next
    <3> QED
      BY <3>1, <3>3
  <2> QED
    BY <2>2, <2>3
<1>2. rows' = rows /\ events' = events /\ overlapped' = overlapped
  BY DEF Answer, UploadFails, tables
<1>3. upload'[u] = next /\ \A v \in Uploads \ {u} : upload'[v] = upload[v]
  BY <1>1 DEF UploadsOK
<1>4. Stored' = Stored
  BY <1>2 DEF Stored
<1>5. UploadOK(u)'
  BY <1>1, <1>3, <1>4 DEF UploadOK, InProgress
<1>6. UploadsOK'
  BY <1>1, <1>4, <1>5, UploadMoved
<1>7. ~InProgress(u)'
  BY <1>1, <1>3 DEF InProgress
<1>8. \A v \in Uploads \ {u} : /\ InProgress(v)' = InProgress(v)
                               /\ Unstored(v)' = Unstored(v) /\ Through(v)' = Through(v)
  BY <1>2, <1>3 DEF InProgress, Unstored, Through
<1>9. InTurn'
  BY <1>2, <1>7, <1>8 DEF InTurn
<1> QED
  BY <1>6, <1>9

LEMMA ReceiveEventPreserves ==
    ASSUME TablesOK, UploadsOK, InTurn, NEW r \in Records, ReceiveEvent(r)
    PROVE  TablesOK' /\ UploadsOK' /\ InTurn' /\ Stored \subseteq Stored'
<1>1. /\ Insert(<<r>>) /\ events' = events \cup {r}
      /\ UNCHANGED <<recent, overlapped, upload>>
  BY DEF ReceiveEvent
<1>2. <<r>> \in Seq(Records) /\ ToSet(<<r>>) = {r}
  BY DEF ToSet
<1>3. /\ rows' \in [Records -> Nat] /\ IsFiniteSet(Stored)' /\ Stored \cup {r} = Stored'
      /\ \A q \in Records : q # r => rows'[q] = rows[q]
  BY <1>1, <1>2, InsertAdds
<1>4. TablesOK'
  BY <1>1, <1>3 DEF TablesOK
<1>5. UploadsOK'
  BY <1>1, <1>3, UploadsKept
<1>6. \A u \in Uploads : /\ InProgress(u)' = InProgress(u) /\ Through(u)' = Through(u)
                         /\ Unstored(u) => Unstored(u)'
  <2>1. \A u \in Uploads : ToSet(upload[u].fresh) \subseteq Records
    BY InSequence DEF UploadsOK, UploadState
  <2> QED
    BY <1>1, <1>3, <2>1 DEF InProgress, Through, Unstored
<1>7. \A q \in Records \ events' : rows'[q] = rows[q] /\ q \in Records \ events
  BY <1>1, <1>3
<1>8. InTurn'
  BY <1>1, <1>6, <1>7 DEF InTurn
<1> QED
  BY <1>3, <1>4, <1>5, <1>8

LEMMA TablesKept ==
    ASSUME TablesOK, UploadsOK, InTurn, UNCHANGED <<rows, events, overlapped, upload>>,
           recent' \subseteq recent
    PROVE  TablesOK' /\ UploadsOK' /\ InTurn' /\ Stored' = Stored
<1>1. Stored' = Stored
  BY DEF Stored
<1>2. TablesOK'
  BY <1>1 DEF TablesOK
<1>3. UploadsOK'
  BY <1>1, UploadsKept
<1>4. InTurn'
  BY DEF InTurn, InProgress, Unstored, Through
<1> QED
  BY <1>1, <1>2, <1>3, <1>4

---------------------------------------------------------------------------
(* The detection.                                                          *)

LEMMA CalleesFinite ==
    ASSUME NEW S, IsFiniteSet(S) PROVE IsFiniteSet({Callee[r] : r \in S})
<1> DEFINE f == [r \in S |-> Callee[r]]
<1>1. f \in Surjection(S, {Callee[r] : r \in S})
  BY DEF Surjection
<1> QED
  BY <1>1, FS_Surjection

\* Evidence does not go away.
LEMMA BackedKept ==
    ASSUME NEW p \in Found, Backed(p), Stored \subseteq Stored', TablesOK, TablesOK'
    PROVE  Backed(p)'
<1> DEFINE old == {Callee[r] : r \in CallsOf(p.suspect)}
           new == {Callee[r] : r \in CallsOf(p.suspect)'}
<1>1. CallsOf(p.suspect) \subseteq CallsOf(p.suspect)' /\ IsFiniteSet(CallsOf(p.suspect)')
  BY FS_Subset DEF CallsOf, TablesOK
<1>2. old \subseteq new /\ IsFiniteSet(new)
  BY <1>1, CalleesFinite
<1>3. IsFiniteSet(old) /\ Cardinality(old) <= Cardinality(new)
      /\ Cardinality(old) \in Nat /\ Cardinality(new) \in Nat
  BY <1>2, FS_Subset, FS_CardinalityType
<1>4. p.destinations \in Nat /\ p.destinations <= Cardinality(old) /\ p.destinations > MinDestinations
  BY DEF Backed, Found
<1> QED
  BY <1>3, <1>4 DEF Backed

LEMMA DestinationsFinite ==
    ASSUME TablesOK, NEW s, NEW records, records \subseteq Stored
    PROVE  /\ IsFiniteSet(Destinations(s, records))
           /\ Destinations(s, records) \subseteq Destinations(s, Stored)
           /\ Destinations(s, records) \subseteq {Callee[r] : r \in CallsOf(s)}
           /\ Cardinality(Destinations(s, records)) \in Nat
           /\ Cardinality(Destinations(s, records)) <= Cardinality(Destinations(s, Stored))
           /\ Cardinality(Destinations(s, records)) <= Cardinality({Callee[r] : r \in CallsOf(s)})
<1>1. IsFiniteSet(CallsOf(s)) /\ IsFiniteSet(RecentOf(s, Stored))
  BY FS_Subset DEF CallsOf, RecentOf, TablesOK
<1>2. IsFiniteSet({Callee[r] : r \in CallsOf(s)}) /\ IsFiniteSet(Destinations(s, Stored))
  BY <1>1, CalleesFinite DEF Destinations
<1>3. Destinations(s, records) \subseteq Destinations(s, Stored)
  BY DEF Destinations, RecentOf
<1>4. Destinations(s, records) \subseteq {Callee[r] : r \in CallsOf(s)}
  BY DEF Destinations, RecentOf, CallsOf, TablesOK
<1> QED
  BY <1>2, <1>3, <1>4, FS_Subset, FS_CardinalityType

\* What the query finds is backed.
LEMMA DetectionsBacked ==
    ASSUME TablesOK PROVE Detections \subseteq Found /\ \A p \in Detections : Backed(p)
<1>1. SUFFICES ASSUME NEW p \in Detections PROVE p \in Found /\ Backed(p)
  OBVIOUS
<1>2. PICK s \in {Caller[r] : r \in Stored \cap recent} :
           /\ ManyDestinations(Cardinality(Destinations(s, Stored)))
           /\ p = Detection(s, Cardinality(Destinations(s, Stored)))
  BY DEF Detections
<1> DEFINE n == Cardinality(Destinations(s, Stored))
<1>3. n \in Nat /\ n <= Cardinality({Callee[r] : r \in CallsOf(s)}) /\ n > MinDestinations
  BY <1>2, DestinationsFinite DEF ManyDestinations
<1>4. s \in Suspects
  BY <1>2 DEF Suspects, Stored
<1> HIDE DEF n
<1>5. Severity(s, n) \in {"MEDIUM", "HIGH", "CRITICAL"}
  BY DEF Severity
<1>6. p = [suspect |-> s, destinations |-> n, severity |-> Severity(s, n)]
  BY <1>2 DEF Detection, n
<1> QED
  BY <1>3, <1>4, <1>5, <1>6 DEF Found, Backed

\* Whoever is due is found.
LEMMA DueDetected ==
    ASSUME TablesOK, UploadsOK PROVE Due \subseteq {p.suspect : p \in Detections} /\ Due \subseteq Suspects
<1>1. Answered \subseteq Stored
  BY DEF Answered, UploadsOK, UploadOK
<1>2. SUFFICES ASSUME NEW s \in Due
               PROVE  s \in Suspects /\ \E p \in Detections : p.suspect = s
  OBVIOUS
<1>3. /\ s \in {Caller[r] : r \in Answered}
      /\ Cardinality(Destinations(s, Answered)) > MinDestinations
      /\ \A r \in Stored : Caller[r] = s => Duration[r] < MaxAverage
  BY DEF Due
<1>4. /\ Cardinality(Destinations(s, Answered)) \in Nat /\ Cardinality(Destinations(s, Stored)) \in Nat
      /\ Cardinality(Destinations(s, Answered)) <= Cardinality(Destinations(s, Stored))
  BY <1>1, DestinationsFinite
<1>5. ManyDestinations(Cardinality(Destinations(s, Stored)))
  BY <1>3, <1>4, SentinelAssumption DEF ManyDestinations
<1>6. RecentOf(s, Stored) # {}
  <2>1. Destinations(s, Stored) # {}
    <3>1. Cardinality(Destinations(s, Stored)) # 0
      BY <1>4, <1>5, SentinelAssumption DEF ManyDestinations
    <3>2. Cardinality({}) = 0
      BY FS_EmptySet
    <3> QED
      BY <3>1, <3>2
  <2> QED
    BY <2>1 DEF Destinations
<1>7. ShortCalls(s)
  <2>1. \A r \in RecentOf(s, Stored) : Duration[r] < MaxAverage
    BY <1>3 DEF RecentOf
  <2> QED
    BY <1>6, <2>1, ShortOnAverage DEF TablesOK
<1>8. s \in {Caller[r] : r \in Stored \cap recent}
  BY <1>6 DEF RecentOf
<1>9. Detection(s, Cardinality(Destinations(s, Stored))) \in Detections
  BY <1>5, <1>7, <1>8 DEF Detections
<1>10. s \in Suspects
  BY <1>8 DEF Suspects, Stored
<1> QED
  BY <1>9, <1>10 DEF Detection

LEMMA AlertTyped ==
    ASSUME AlertsOK, NEW i \in DOMAIN alerts
    PROVE  alerts[i] \in [detection : Found, reviewed : BOOLEAN]
<1> DEFINE Row == [detection : Found, reviewed : BOOLEAN]
<1>1. alerts \in Seq(Row)
  BY DEF AlertsOK
<1> HIDE DEF Row
<1>2. i \in 1..Len(alerts)
  BY <1>1
<1>3. alerts[i] \in Row
  BY <1>1, <1>2, ElementOfSeq
<1> QED
  BY <1>3 DEF Row

LEMMA AlertsKept ==
    ASSUME DetectorsOK, AlertsOK, UNCHANGED <<detector, alerts>>,
           Stored \subseteq Stored', TablesOK, TablesOK'
    PROVE  DetectorsOK' /\ AlertsOK'
<1>1. \A d \in Detectors : detector[d].pending \subseteq Found
  BY DEF DetectorsOK, DetectorState
<1>2. ASSUME NEW i \in DOMAIN alerts PROVE alerts[i].detection \in Found
  <2>1. alerts[i] \in [detection : Found, reviewed : BOOLEAN]
    BY AlertTyped
  <2> QED
    BY <2>1
<1>3. DetectorsOK'
  BY <1>1, BackedKept DEF DetectorsOK
<1>4. AlertsOK'
  BY <1>2, BackedKept DEF AlertsOK
<1> QED
  BY <1>3, <1>4

\* One detection moves, and no call record.
LEMMA DetectorMoved ==
    ASSUME DetectorsOK, NEW d \in Detectors, NEW next \in DetectorState,
           detector' = [detector EXCEPT ![d] = next], rows' = rows,
           next.at = "alert" =>
              /\ \A p \in next.pending : Backed(p)
              /\ next.due \subseteq next.created \cup {p.suspect : p \in next.pending},
           next.at = "done" => next.due \subseteq next.created
    PROVE  DetectorsOK'
<1>1. /\ detector' \in [Detectors -> DetectorState] /\ detector'[d] = next
      /\ \A e \in Detectors \ {d} : detector'[e] = detector[e]
  BY DEF DetectorsOK
<1>2. \A p : Backed(p)' <=> Backed(p)
  BY DEF Backed, CallsOf, Stored
<1> QED
  BY <1>1, <1>2 DEF DetectorsOK

LEMMA DetectPreserves ==
    ASSUME IInv, NEW d \in Detectors, Detect(d) \/ AnswerDetection(d) \/ DetectionFails(d)
    PROVE  DetectorsOK' /\ AlertsOK'
<1>1. detector[d] \in DetectorState
  BY DEF IInv, DetectorsOK
<1>2. NewDetection \in DetectorState
  BY DEF NewDetection, DetectorState
<1>3. rows' = rows /\ alerts' = alerts
  BY DEF Detect, AnswerDetection, DetectionFails, tables
<1>4. AlertsOK'
  BY <1>3 DEF IInv, AlertsOK, Backed, CallsOf, Stored
<1>5. CASE Detect(d)
  <2> DEFINE next == [NewDetection EXCEPT !.at = "alert", !.pending = Detections, !.due = Due]
  <2>1. detector' = [detector EXCEPT ![d] = next]
    BY <1>5 DEF Detect
  <2>2. /\ Detections \subseteq Found /\ \A p \in Detections : Backed(p)
        /\ Due \subseteq {p.suspect : p \in Detections} /\ Due \subseteq Suspects
    BY DetectionsBacked, DueDetected DEF IInv
  <2>3. next \in DetectorState /\ next.at = "alert" /\ next.pending = Detections /\ next.due = Due
    BY <1>2, <2>2 DEF DetectorState
  <2> HIDE DEF next
  <2>4. DetectorsOK'
    BY <1>3, <2>1, <2>2, <2>3, DetectorMoved DEF IInv
  <2> QED
    BY <1>4, <2>4
<1>6. CASE AnswerDetection(d)
  <2> DEFINE next == [detector[d] EXCEPT !.at = "done"]
  <2>1. detector' = [detector EXCEPT ![d] = next] /\ detector[d].at = "alert" /\ detector[d].pending = {}
    BY <1>6 DEF AnswerDetection, Waits, IInv, DetectorsOK
  <2>2. next \in DetectorState /\ next.at = "done" /\ next.due = detector[d].due
        /\ next.created = detector[d].created
    BY <1>1 DEF DetectorState
  <2>3. detector[d].due \subseteq detector[d].created
    BY <2>1 DEF IInv, DetectorsOK
  <2> HIDE DEF next
  <2>4. DetectorsOK'
    BY <1>3, <2>1, <2>2, <2>3, DetectorMoved DEF IInv
  <2> QED
    BY <1>4, <2>4
<1>7. CASE DetectionFails(d)
  <2> DEFINE next == [NewDetection EXCEPT !.at = "failed"]
  <2>1. detector' = [detector EXCEPT ![d] = next]
    BY <1>7 DEF DetectionFails
  <2>2. next \in DetectorState /\ next.at = "failed"
    BY <1>2 DEF DetectorState
  <2> HIDE DEF next
  <2>3. DetectorsOK'
    BY <1>3, <2>1, <2>2, DetectorMoved DEF IInv
  <2> QED
    BY <1>4, <2>3
<1> QED
  BY <1>5, <1>6, <1>7

\* The INSERT of an alert, and its broadcast that begins.
LEMMA CreateAlertPreserves ==
    ASSUME IInv, NEW d \in Detectors, NEW p \in detector[d].pending, CreateAlert(d, p)
    PROVE  IInv'
<1> DEFINE n == Len(alerts) + 1
           row == AlertRow(p)
           next == [detector[d] EXCEPT !.pending = detector[d].pending \ {p},
                                       !.created = detector[d].created \cup {p.suspect}]
<1>1. /\ detector[d] \in DetectorState /\ detector[d].at = "alert"
      /\ p \in Found /\ Backed(p) /\ p.suspect \in Suspects
      /\ detector[d].due \subseteq detector[d].created \cup {q.suspect : q \in detector[d].pending}
      /\ \A q \in detector[d].pending : Backed(q)
  BY DEF IInv, DetectorsOK, DetectorState, Found, CreateAlert, Waits
<1>2. /\ alerts' = Append(alerts, row) /\ detector' = [detector EXCEPT ![d] = next]
      /\ Begin(d, n) /\ UNCHANGED <<client, active, missed>>
      /\ UNCHANGED <<rows, recent, events, overlapped, upload>>
  BY DEF CreateAlert, tables, IInv, DetectorsOK
<1>3. /\ alerts \in Seq([detection : Found, reviewed : BOOLEAN]) /\ Len(alerts) \in Nat
      /\ row \in [detection : Found, reviewed : BOOLEAN] /\ row.detection = p
  BY <1>1 DEF AlertRow, IInv, AlertsOK
<1> HIDE DEF row
<1>4. /\ alerts' \in Seq([detection : Found, reviewed : BOOLEAN])
      /\ Len(alerts') = Len(alerts) + 1 /\ n \in 1..Len(alerts')
      /\ 1..Len(alerts) \subseteq 1..Len(alerts')
      /\ DOMAIN alerts' = 1..Len(alerts') /\ DOMAIN alerts = 1..Len(alerts)
      /\ \A i \in 1..Len(alerts') : alerts'[i] = IF i = n THEN row ELSE alerts[i]
  BY <1>2, <1>3
<1>5. \A q : Backed(q)' <=> Backed(q)
  BY <1>2 DEF Backed, CallsOf, Stored
<1>6. AlertsOK'
  <2>1. \A i \in DOMAIN alerts' : Backed(alerts'[i].detection)
    BY <1>1, <1>3, <1>4 DEF IInv, AlertsOK
  <2> QED
    BY <1>4, <1>5, <2>1 DEF AlertsOK
<1>7. DetectorsOK'
  <2>1. next \in DetectorState /\ next.at = "alert" /\ next.due = detector[d].due
        /\ next.pending = detector[d].pending \ {p}
        /\ next.created = detector[d].created \cup {p.suspect}
    BY <1>1 DEF DetectorState
  <2> HIDE DEF next
  <2>2. next.due \subseteq next.created \cup {q.suspect : q \in next.pending}
    BY <1>1, <2>1
  <2> QED
    BY <1>1, <1>2, <2>1, <2>2, DetectorMoved DEF IInv
<1>8. TablesOK' /\ UploadsOK' /\ InTurn'
  BY <1>2, TablesKept DEF IInv
<1>9. d \in Loops
  BY SentinelAssumption
<1>10. \E b : /\ loop' = [loop EXCEPT ![d] = b] /\ b \in LoopState'
              /\ b.at = "send" => /\ b.message \in Messages' /\ b.to \in Clients
                                  /\ b.size = Cardinality(active)
  <2>1. n \in Messages' /\ Messages \subseteq Messages' /\ active \subseteq Clients
    BY <1>4 DEF Messages, IInv, StreamOK
  <2>2. CASE loop' = [loop EXCEPT ![d] = Resting]
    <3>1. Resting \in LoopState' /\ Resting.at = "idle"
      BY <2>1, RestingTyped DEF LoopState
    <3> QED
      BY <2>2, <3>1
  <2>3. ASSUME NEW c \in active,
               loop' = [loop EXCEPT ![d] = [Resting EXCEPT !.at = "send", !.message = n,
                                                           !.size = Cardinality(active),
                                                           !.unheard = active, !.to = c]]
        PROVE  \E b : /\ loop' = [loop EXCEPT ![d] = b] /\ b \in LoopState'
                      /\ b.at = "send" => /\ b.message \in Messages' /\ b.to \in Clients
                                          /\ b.size = Cardinality(active)
    <3> DEFINE b == [Resting EXCEPT !.at = "send", !.message = n, !.size = Cardinality(active),
                                    !.unheard = active, !.to = c]
    <3>1. b \in LoopState' /\ b.message = n /\ b.to = c /\ b.size = Cardinality(active)
      BY <2>1 DEF LoopState, Resting
    <3> HIDE DEF b
    <3> QED
      BY <2>1, <2>3, <3>1 DEF b
  <2> QED
    BY <1>2, <2>2, <2>3 DEF Begin
<1>11. StreamOK'
  <2>1. PICK b : /\ loop' = [loop EXCEPT ![d] = b] /\ b \in LoopState'
                 /\ b.at = "send" => /\ b.message \in Messages' /\ b.to \in Clients
                                     /\ b.size = Cardinality(active)
    BY <1>10
  <2>2. Messages \subseteq Messages' /\ active' = active
    BY <1>2, <1>4 DEF Messages
  <2>3. LoopState \subseteq LoopState'
    BY <2>2 DEF LoopState
  <2>4. loop' \in [Loops -> LoopState'] /\ \A l \in Loops : loop'[l] = IF l = d THEN b ELSE loop[l]
    BY <1>9, <2>1, <2>3 DEF IInv, StreamOK
  <2>5. \A l \in Loops : Walking(loop[l])'
    <3>1. \A l \in Loops : Walking(loop[l])
      BY DEF IInv, StreamOK
    <3> QED
      BY <2>1, <2>2, <2>4, <3>1 DEF Walking
  <2>6. missed' \in SUBSET [message : 1..Len(alerts'), client : Clients, disturbed : BOOLEAN]
    BY <1>2, <1>4 DEF IInv, StreamOK
  <2> QED
    BY <1>2, <2>4, <2>5, <2>6 DEF IInv, StreamOK
<1>12. QuietBroadcastReachesAll'
  BY <1>2 DEF IInv, QuietBroadcastReachesAll
<1> QED
  BY <1>6, <1>7, <1>8, <1>11, <1>12 DEF IInv

LEMMA UpdateAlertPreserves ==
    ASSUME AlertsOK, NEW i \in DOMAIN alerts, NEW reviewed \in BOOLEAN, UpdateAlert(i, reviewed)
    PROVE  AlertsOK' /\ Len(alerts') = Len(alerts)
<1> DEFINE row == [alerts[i] EXCEPT !.reviewed = reviewed]
<1>1. alerts[i] \in [detection : Found, reviewed : BOOLEAN]
  BY AlertTyped
<1>2. row \in [detection : Found, reviewed : BOOLEAN] /\ row.detection = alerts[i].detection
  BY <1>1
<1>3. alerts' = [alerts EXCEPT ![i] = row] /\ rows' = rows
  BY DEF UpdateAlert, AlertsOK, tables
<1> HIDE DEF row
<1>4. /\ alerts' \in Seq([detection : Found, reviewed : BOOLEAN]) /\ Len(alerts') = Len(alerts)
      /\ DOMAIN alerts' = DOMAIN alerts
      /\ \A j \in DOMAIN alerts : alerts'[j].detection = alerts[j].detection
  BY <1>2, <1>3 DEF AlertsOK
<1>5. \A q : Backed(q)' <=> Backed(q)
  BY <1>3 DEF Backed, CallsOf, Stored
<1> QED
  BY <1>4, <1>5 DEF AlertsOK

\* Nothing of the stream moves, and the alerts stay in number.
LEMMA StreamKept ==
    ASSUME StreamOK, QuietBroadcastReachesAll, UNCHANGED stream, Len(alerts') = Len(alerts)
    PROVE  StreamOK' /\ QuietBroadcastReachesAll'
<1>1. Messages' = Messages /\ (1..Len(alerts))' = 1..Len(alerts)
  BY DEF Messages
<1> QED
  BY <1>1 DEF StreamOK, QuietBroadcastReachesAll, LoopState, Walking, stream

---------------------------------------------------------------------------
(* The invariant is inductive.                                             *)

LEMMA InitInvariant == Init => IInv
<1> SUFFICES ASSUME Init PROVE IInv
  OBVIOUS
<1> USE DEF Init, InitStream
<1>1. StreamOK /\ QuietBroadcastReachesAll
  BY RestingTyped DEF StreamOK, QuietBroadcastReachesAll, Walking, Resting
<1>2. Stored = {}
  BY DEF Stored
<1>3. TablesOK
  BY <1>2, FS_EmptySet DEF TablesOK
<1>4. UploadsOK
  <2>1. NewUpload \in UploadState /\ NewUpload.at = "new"
    BY DEF NewUpload, UploadState
  <2> QED
    BY <2>1 DEF UploadsOK, UploadOK, InProgress
<1>5. InTurn
  BY DEF InTurn, InProgress, NewUpload
<1>6. DetectorsOK
  <2>1. NewDetection \in DetectorState /\ NewDetection.at = "new"
    BY DEF NewDetection, DetectorState
  <2> QED
    BY <2>1 DEF DetectorsOK
<1>7. AlertsOK
  BY DEF AlertsOK
<1> QED
  BY <1>1, <1>3, <1>4, <1>5, <1>6, <1>7 DEF IInv

LEMMA NextInvariant == IInv /\ [Next]_vars => IInv'
<1> SUFFICES ASSUME IInv, [Next]_vars PROVE IInv'
  OBVIOUS
<1>1. ASSUME StreamStep, UNCHANGED <<tables, upload, detector, alerts>> PROVE IInv'
  <2>1. StreamOK' /\ QuietBroadcastReachesAll'
    BY <1>1, StreamStepPreserves DEF IInv
  <2>2. TablesOK' /\ UploadsOK' /\ InTurn' /\ Stored' = Stored
    BY <1>1, TablesKept DEF IInv, tables
  <2>3. DetectorsOK' /\ AlertsOK'
    BY <1>1, <2>2, AlertsKept DEF IInv
  <2> QED
    BY <2>1, <2>2, <2>3 DEF IInv
<1>2. ASSUME TablesOK', UploadsOK', InTurn', Stored \subseteq Stored',
             UNCHANGED <<stream, detector, alerts>>
      PROVE  IInv'
  <2>1. StreamOK' /\ QuietBroadcastReachesAll'
    BY <1>2, StreamKept DEF IInv
  <2>2. DetectorsOK' /\ AlertsOK'
    BY <1>2, AlertsKept DEF IInv
  <2> QED
    BY <1>2, <2>1, <2>2 DEF IInv
<1>3. ASSUME NEW u \in Uploads, UploadStep(u) PROVE IInv'
  <2>1. ASSUME NEW file \in Files, ReadFile(u, file) PROVE IInv'
    <3>1. UploadsOK' /\ InTurn'
      BY <2>1, ReadFilePreserves DEF IInv
    <3>2. /\ UNCHANGED <<stream, detector, alerts, rows, recent, events>>
          /\ overlapped' \in BOOLEAN
      BY <2>1 DEF ReadFile, IInv, TablesOK
    <3>3. TablesOK' /\ Stored' = Stored
      BY <3>2 DEF IInv, TablesOK, Stored
    <3> QED
      BY <1>2, <3>1, <3>2, <3>3
  <2>2. ASSUME CheckDuplicate(u) \/ Answer(u) \/ UploadFails(u) PROVE IInv'
    <3>1. UploadsOK' /\ InTurn'
      BY <2>2, CheckDuplicatePreserves, EndPreserves DEF IInv
    <3>2. UNCHANGED <<stream, detector, alerts, tables>>
      BY <2>2 DEF CheckDuplicate, Answer, UploadFails
    <3>3. TablesOK' /\ Stored' = Stored
      BY <3>2 DEF IInv, TablesOK, Stored, tables
    <3> QED
      BY <1>2, <3>1, <3>2, <3>3
  <2>3. ASSUME InsertBatch(u) PROVE IInv'
    <3>1. TablesOK' /\ UploadsOK' /\ InTurn' /\ Stored \subseteq Stored'
      BY <2>3, InsertBatchPreserves DEF IInv
    <3>2. UNCHANGED <<stream, detector, alerts>>
      BY <2>3 DEF InsertBatch
    <3> QED
      BY <1>2, <3>1, <3>2
  <2> QED
    BY <1>3, <2>1, <2>2, <2>3 DEF UploadStep
<1>4. ASSUME NEW d \in Detectors, DetectionStep(d) PROVE IInv'
  <2>1. ASSUME Detect(d) \/ AnswerDetection(d) \/ DetectionFails(d) PROVE IInv'
    <3>1. DetectorsOK' /\ AlertsOK'
      BY <2>1, DetectPreserves
    <3>2. UNCHANGED <<stream, tables, upload, alerts>>
      BY <2>1 DEF Detect, AnswerDetection, DetectionFails
    <3>3. StreamOK' /\ QuietBroadcastReachesAll'
      BY <3>2, StreamKept DEF IInv
    <3>4. TablesOK' /\ UploadsOK' /\ InTurn'
      BY <3>2, TablesKept DEF IInv, tables
    <3> QED
      BY <3>1, <3>3, <3>4 DEF IInv
  <2>2. ASSUME NEW p \in detector[d].pending, CreateAlert(d, p) PROVE IInv'
    BY <2>2, CreateAlertPreserves
  <2> QED
    BY <1>4, <2>1, <2>2 DEF DetectionStep
<1>5. ASSUME NEW r \in Records, ReceiveEvent(r) PROVE IInv'
  <2>1. TablesOK' /\ UploadsOK' /\ InTurn' /\ Stored \subseteq Stored'
    BY <1>5, ReceiveEventPreserves DEF IInv
  <2>2. UNCHANGED <<stream, detector, alerts>>
    BY <1>5 DEF ReceiveEvent
  <2> QED
    BY <1>2, <2>1, <2>2
<1>6. ASSUME NEW r \in Records, Age(r) PROVE IInv'
  <2>1. UNCHANGED <<stream, detector, alerts, rows, events, overlapped, upload>> /\ recent' \subseteq recent
    BY <1>6 DEF Age
  <2>2. TablesOK' /\ UploadsOK' /\ InTurn' /\ Stored' = Stored
    BY <2>1, TablesKept DEF IInv
  <2> QED
    BY <1>2, <2>1, <2>2
<1>7. ASSUME NEW i \in DOMAIN alerts, NEW reviewed \in BOOLEAN, UpdateAlert(i, reviewed) PROVE IInv'
  <2>1. AlertsOK' /\ Len(alerts') = Len(alerts)
    BY <1>7, UpdateAlertPreserves DEF IInv
  <2>2. UNCHANGED <<stream, tables, upload, detector>>
    BY <1>7 DEF UpdateAlert
  <2>3. StreamOK' /\ QuietBroadcastReachesAll'
    BY <2>1, <2>2, StreamKept DEF IInv
  <2>4. TablesOK' /\ UploadsOK' /\ InTurn'
    BY <2>2, TablesKept DEF IInv, tables
  <2>5. DetectorsOK'
    <3>1. \A p : Backed(p)' <=> Backed(p)
      BY <2>2 DEF tables, Backed, CallsOf, Stored
    <3> QED
      BY <2>2, <3>1 DEF IInv, DetectorsOK
  <2> QED
    BY <2>1, <2>3, <2>4, <2>5 DEF IInv
<1>8. CASE UNCHANGED vars
  <2>1. UNCHANGED <<stream, tables, upload, detector, alerts>>
    BY <1>8 DEF vars
  <2>2. TablesOK' /\ UploadsOK' /\ InTurn' /\ Stored' = Stored
    BY <2>1, TablesKept DEF IInv, tables
  <2> QED
    BY <1>2, <2>1, <2>2
<1> QED
  BY <1>1, <1>3, <1>4, <1>5, <1>6, <1>7, <1>8 DEF Next

---------------------------------------------------------------------------
(* Theorems.                                                               *)

\* The inductive invariant holds in every reachable state, whatever records are
\* uploaded, received or detected and whoever connects.
THEOREM Invariance == Spec => []IInv
  BY InitInvariant, NextInvariant, PTL DEF Spec

\* The types of the variables, for any records, files and clients: what a loop sends
\* is a stored alert or a heartbeat, and what is left of an upload are records.
THEOREM TypeCorrect == Spec => []TypeOK
<1>1. IInv => TypeOK
  <2>1. SUFFICES ASSUME IInv PROVE TypeOK
    OBVIOUS
  <2>2. \A u \in Uploads : upload[u] \in UploadState
    BY <2>1 DEF IInv, UploadsOK
  <2>3. \A d \in Detectors : detector[d] \in DetectorState
    BY <2>1 DEF IInv, DetectorsOK
  <2>4. alerts \in Seq([detection : [suspect : {Caller[r] : r \in Records}, destinations : Nat,
                                     severity : {"MEDIUM", "HIGH", "CRITICAL"}],
                        reviewed : BOOLEAN])
    BY <2>1 DEF IInv, AlertsOK, Found, Suspects
  <2> QED
    BY <2>1, <2>2, <2>3, <2>4 DEF IInv, StreamOK, TablesOK, UploadState, DetectorState, TypeOK
<1> QED
  BY <1>1, Invariance, PTL

\* Uploads that do not overlap store no record twice, for any files, batch size and
\* failures half way (routes.py:83-91).
THEOREM UploadsIdempotent == Spec => []UploadsAreIdempotent
<1>1. IInv => UploadsAreIdempotent
  BY DEF IInv, InTurn, UploadsAreIdempotent
<1> QED
  BY <1>1, Invariance, PTL

\* Every stored alert has the calls behind it that it speaks of, whatever has been
\* stored or has left the window since (detector.py:38-63).
THEOREM AlertsBacked == Spec => []AlertHasEvidence
<1>1. IInv => AlertHasEvidence
  BY DEF IInv, AlertsOK, Backed, CallsOf, AlertHasEvidence
<1> QED
  BY <1>1, Invariance, PTL

\* A detection that was answered left out nobody whom the uploads answered before
\* it had put over the threshold: the query sees their records, the average of
\* short calls is short, and each finding gets its alert (detector.py:75-133).
THEOREM DetectionComplete == Spec => []DetectionIsComplete
<1>1. IInv => DetectionIsComplete
  BY DEF IInv, DetectorsOK, DetectionIsComplete
<1> QED
  BY <1>1, Invariance, PTL

\* Nobody who stayed is passed over by a broadcast that walked the set it began with,
\* for any number of clients and loops (websocket.py:48-59).
THEOREM QuietBroadcasts == Spec => []QuietBroadcastReachesAll
<1>1. IInv => QuietBroadcastReachesAll
  BY DEF IInv
<1> QED
  BY <1>1, Invariance, PTL

============================================================================
